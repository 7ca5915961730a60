--------------------------- MODULE MCMatchSession ---------------------------
(* Small instances of MatchSession for TLC. *)
EXTENDS MatchSession

R(t, g, gold) == [time |-> t, goals |-> g, goldenGoal |-> gold]

(* A timed match, and one for the first goal. *)
MCSessionRules == {R(2, 0, FALSE), R(0, 1, FALSE)}
=============================================================================
