----------------------------- MODULE MCStorage -----------------------------
(* Small instances of Storage for TLC: fixtures and matches are             *)
(* interchangeable.                                                         *)
EXTENDS Storage, TLC

Symmetry == Permutations(Fixture) \cup Permutations(Result)
=============================================================================
