--------------------------- MODULE MCAccountDeletion ---------------------------
(* One job, one worker and two deletion requests.                          *)
EXTENDS AccountDeletion

CONSTANTS j1, w1, d1, d2
=============================================================================
