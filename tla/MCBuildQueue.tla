---------------------------- MODULE MCBuildQueue ----------------------------
(* Small instances of BuildQueue for TLC *)
EXTENDS BuildQueue, TLC

CONSTANTS a1, a2, w1, w2

MCSymmetry == Permutations({a1, a2}) \cup Permutations({w1, w2})
=============================================================================
