------------------------------- MODULE MCHub -------------------------------
(***************************************************************************)
(* Small instances of Hub for TLC.  The connections, the browsers, the     *)
(* students, the matches and the room codes are interchangeable, and so    *)
(* are fixtures of the same two entrants.                                  *)
(***************************************************************************)
EXTENDS Hub, TLC

CONSTANTS k1, k2

(* Every fixture pairs the students k1 and k2. *)
MCFxA == [f \in Fixture |-> k1]
MCFxB == [f \in Fixture |-> k2]

Symmetry ==
    UNION {Permutations(S) : S \in {Conn, Token, Pid, Mid, Code, Fixture}}
=============================================================================
