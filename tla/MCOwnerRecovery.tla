--------------------------- MODULE MCOwnerRecovery ---------------------------
(* Two commands are enough for one apply to overlap the other's lookup, late  *)
(* request, partial journal entry or open transaction.                        *)
EXTENDS OwnerRecovery, TLC

CONSTANTS c1, c2
=============================================================================
