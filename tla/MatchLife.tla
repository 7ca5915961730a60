----------------------------- MODULE MatchLife -----------------------------
(***************************************************************************)
(* What a match promises its two students (README.md:29-32): it stands     *)
(* still while one of them is away, it is decided only while both are      *)
(* there, a verdict never changes, and a match that is gone stays gone.    *)
(***************************************************************************)
EXTENDS Integers

VARIABLES
    life,    \* "on", "waiting" for a student, "decided", "gone"
    here,    \* here[s]: the student of side s is connected
    winner   \* the winning side, -1 for none

vars == <<life, here, winner>>
Side == {0, 1}
Both == \A s \in Side : here[s]

Init == life = "on" /\ here = [s \in Side |-> TRUE] /\ winner = -1

(* A student's connection is lost; whoever is there waits. *)
Lose(s) ==
    /\ life # "gone" /\ here[s]
    /\ here' = [here EXCEPT ![s] = FALSE]
    /\ life' = IF life = "on" THEN "waiting" ELSE life
    /\ UNCHANGED winner

(* A student is back; the match goes on when both are. *)
Return(s) ==
    /\ life # "gone" /\ ~here[s]
    /\ here' = [here EXCEPT ![s] = TRUE]
    /\ life' = IF life = "waiting" /\ here[1 - s] THEN "on" ELSE life
    /\ UNCHANGED winner

Decide ==
    /\ life = "on" /\ Both
    /\ life' = "decided" /\ winner' \in Side \cup {-1}
    /\ UNCHANGED here

(* Called off, abandoned, or nobody looks at its result any more. *)
Vanish ==
    /\ life # "gone" /\ life' = "gone"
    /\ UNCHANGED <<here, winner>>

Next == (\E s \in Side : Lose(s) \/ Return(s)) \/ Decide \/ Vanish
Spec == Init /\ [][Next]_vars
=============================================================================
