------------------------------- MODULE League -------------------------------
(***************************************************************************)
(* The shape of a league (comp.go, newCompetition, buildLeague): its       *)
(* groups, the rounds the circle method makes of them, and the order of    *)
(* the table.                                                              *)
(***************************************************************************)
EXTENDS Bracket, Sequences, FiniteSets

Size(gr, g) == Cardinality({e \in DOMAIN gr : gr[e] = g})

(* The teacher's groups, or the shuffled entrants dealt out in turn; q is   *)
(* what the teacher asks for, [count, groups, manual].                      *)
Groupings(q) ==
    IF q.manual /\ q.groups > 1
    THEN {gr \in [0..(q.count - 1) -> 0..(q.groups - 1)] :
            \A g \in 0..(q.groups - 1) : Size(gr, g) >= 2}
    ELSE {[e \in 0..(q.count - 1) |-> e % q.groups]}

(* The entrants of a group, in order, and a bye when their number is odd. *)
Line(gr, g) ==
    LET m   == Size(gr, g)
        nth == [j \in 1..m |-> CHOOSE e \in DOMAIN gr :
                   gr[e] = g /\ Cardinality({d \in DOMAIN gr : gr[d] = g /\ d < e}) = j - 1]
    IN  IF m % 2 = 1 THEN Append(nth, Bye) ELSE nth

(* Mutant: the first of the line moves, too. *)
LineInAllMove(line, r) ==
    [j \in DOMAIN line |-> line[1 + ((j - 1 - r) % Len(line))]]

(* The line in round r: the first stays, the others have moved up by one    *)
(* place after each round, the last one to the second place.                *)
LineIn(line, r) ==
    [j \in DOMAIN line |-> line[IF j = 1 THEN 1 ELSE 2 + ((j - 2 - r) % (Len(line) - 1))]]

(* The two who stand opposite each other, in every second round the other   *)
(* way round.                                                               *)
Opposite(line, r, i) ==
    LET now == LineIn(line, r)
        a   == now[i + 1]
        b   == now[Len(line) - i]
    IN  [s \in Seat |-> IF s = r % 2 THEN a ELSE b]

(* The seats of all fixtures.  A match between an entrant and the bye is    *)
(* not made.                                                                *)
SidesOf(q, gr) ==
    LET lines  == [g \in 0..(q.groups - 1) |-> Line(gr, g)]
        m(g)   == Len(lines[g])
        places == UNION {{<<g, r, i>> : r \in 0..(m(g) - 2), i \in 0..(m(g) \div 2 - 1)}
                           : g \in DOMAIN lines}
        two    == [f \in places |-> Opposite(lines[f[1]], f[2], f[3])]
    IN  [f \in {f \in places : \A s \in Seat : two[f][s] # Bye} |-> two[f]]

(* Mutant: the rounds of the last group. *)
RoundsLast(lens) == lens[Cardinality(DOMAIN lens) - 1] - 1

(* The rounds of the longest line. *)
RoundsOf(lens) ==
    CHOOSE r \in {lens[g] - 1 : g \in DOMAIN lens} : \A g \in DOMAIN lens : lens[g] - 1 <= r

-----------------------------------------------------------------------------
(* The order of the table; a line is [entrant, group, points, gf, ga]. *)

(* Mutant: the goals scored come before the difference. *)
LessByGoals(x, y) ==
    \/ x.points > y.points
    \/ x.points = y.points /\ x.gf > y.gf
    \/ x.points = y.points /\ x.gf = y.gf /\ x.ga < y.ga

(* less *)
Less(x, y) ==
    LET dx == x.gf - x.ga
        dy == y.gf - y.ga
    IN  IF x.points # y.points THEN x.points > y.points
        ELSE IF dx # dy THEN dx > dy ELSE x.gf > y.gf

(* Where a line stands in the table: by group, then by Less; the sort is    *)
(* stable, and the lines come to it in the order of the entrants.           *)
Precedes(x, y) ==
    IF x.group # y.group THEN x.group < y.group
    ELSE Less(x, y) \/ (~Less(y, x) /\ x.entrant < y.entrant)

(* The ranks beside a sorted table: shared by equals, and then left out. *)
Ranks(table) ==
    LET first(i) == i = 1 \/ table[i - 1].group # table[i].group
        at[i \in DOMAIN table] ==
          IF first(i) THEN [pos |-> 1, rank |-> 1]
          ELSE [pos  |-> at[i - 1].pos + 1,
                rank |-> IF Less(table[i - 1], table[i]) THEN at[i - 1].pos + 1 ELSE at[i - 1].rank]
    IN  [i \in DOMAIN table |-> at[i].rank]
=============================================================================
