------------------------------ MODULE MCMatch ------------------------------
(* Small instances of Match for TLC. *)
EXTENDS Match

R(t, g, gold) == [time |-> t, goals |-> g, goldenGoal |-> gold]

(* A timed match, a tournament match, and one that ends by goals. *)
MCRules == {R(3, 2, FALSE), R(4, 0, TRUE), R(0, 2, FALSE)}
=============================================================================
