---------------------------- MODULE MCMailboxScan ----------------------------
(* Two scans at a time.                                                    *)
EXTENDS MailboxScan, TLC

CONSTANTS s1, s2, m1

SlotSymmetry == Permutations({s1, s2})
=============================================================================
