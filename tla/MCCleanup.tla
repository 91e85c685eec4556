------------------------------- MODULE MCCleanup -------------------------------
(* One message, two requests and one application worker.                   *)
EXTENDS Cleanup, TLC

CONSTANTS m1, r1, r2, w1

RequestSymmetry == Permutations({r1, r2})
=============================================================================
