------------------------------ MODULE MCLedger ------------------------------
(* Audiences for the ledger's runs: a claim for the first agent alone, for  *)
(* the second alone, and for both (the wildcard).                           *)
EXTENDS Ledger, TLC

CONSTANTS a1, a2

OneAudience == {{a1}}
TwoAudiences == {{a1}, {a1, a2}}

BodySymmetry == Permutations(Body)
=============================================================================
