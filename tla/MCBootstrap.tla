----------------------------- MODULE MCBootstrap -----------------------------
(* Two attempts race for the home while two daemons start.                    *)
EXTENDS Bootstrap, TLC

CONSTANTS i1, i2, o1, o2

Symmetry == Permutations(Initializer) \cup Permutations(Opener)
=============================================================================
