--------------------------- MODULE MCCompetition ---------------------------
(* Small instances of Competition for TLC. *)
EXTENDS Competition

L(k, gs, m) == [count |-> k, groups |-> gs, manual |-> m]

(* One group of each size up to nine, groups dealt out, groups the teacher  *)
(* makes, of equal and of different sizes.                                  *)
MCLeagues ==
    {L(k, 1, FALSE) : k \in 2..9}
    \cup {L(4, 2, TRUE), L(5, 2, FALSE), L(5, 2, TRUE), L(7, 3, FALSE), L(9, 2, FALSE)}
=============================================================================
