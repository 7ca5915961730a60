------------------------------ MODULE Bracket ------------------------------
(***************************************************************************)
(* The shape of a tournament (comp.go, buildTournament): its rounds, who   *)
(* meets whom in the first of them, and where a winner goes.               *)
(*                                                                         *)
(* A fixture is named by its group (always 0 here), round and slot; its    *)
(* two seats are 0 (Fixture.A) and 1 (Fixture.B).                          *)
(***************************************************************************)
EXTENDS Integers

Seat == {0, 1}
Bye  == -1    \* slotBye
TBD  == -2    \* slotTBD

(* The smallest bracket that has room for k entrants: its size starts at 2  *)
(* and is doubled, and each round halves it.                                *)
SizeOf         == <<2, 4, 8, 16, 32, 64>>
RoundsFor(k)   == CHOOSE r \in 1..6 : SizeOf[r] >= k /\ (r > 1 => SizeOf[r - 1] < k)
BracketSize(k) == SizeOf[RoundsFor(k)]

(* Half as many fixtures as the round has seats. *)
FixturesFor(k) ==
    LET rounds == RoundsFor(k)
    IN  UNION {{<<0, r, i>> : i \in 0..(SizeOf[rounds - r] \div 2 - 1)} : r \in 0..(rounds - 1)}

(* Mutant: the first entrant without a bye is passed over. *)
PairOffByOne(k, j) ==
    LET byes == BracketSize(k) - k
        next == byes + 2 * (j - byes) + 1
    IN  [s \in Seat |-> IF j < byes THEN IF s = 0 THEN j ELSE Bye ELSE next + s]

(* The jth pair of the first round: the byes come first, one to a fixture. *)
Pair(k, j) ==
    LET byes == BracketSize(k) - k
        next == byes + 2 * (j - byes)
    IN  [s \in Seat |-> IF j < byes THEN IF s = 0 THEN j ELSE Bye ELSE next + s]

(* The fixture and the seat the winner of f goes to. *)
Up(f)        == <<0, f[2] + 1, f[3] \div 2>>
UpSeat(f)    == f[3] % 2
Feeder(f, s) == <<0, f[2] - 1, 2 * f[3] + s>>

(* Shuffles of the pairs of the first round. *)
Shuffles(k) ==
    LET slots == 0..(BracketSize(k) \div 2 - 1)
    IN  {p \in [slots -> slots] : \A i, j \in slots : i # j => p[i] # p[j]}

(* The first round: the slots hold the pairs as they were shuffled. *)
FirstRound(k, p) == [i \in DOMAIN p |-> Pair(k, p[i])]

(* The entrant who goes up without a match, of a fixture with a bye. *)
HasBye(pair) == pair[1] = Bye

(* The seats of all fixtures when the byes are decided: they are the first *)
(* winners in the second round.                                            *)
SitsFor(k, p) ==
    LET first     == FirstRound(k, p)
        goesUp(g) == IF g[2] = 0 /\ HasBye(first[g[3]]) THEN first[g[3]][0] ELSE TBD
    IN  [f \in FixturesFor(k) |-> IF f[2] = 0 THEN first[f[3]]
                                  ELSE [s \in Seat |-> goesUp(Feeder(f, s))]]
=============================================================================
