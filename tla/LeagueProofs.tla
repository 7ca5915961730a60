---------------------------- MODULE LeagueProofs ----------------------------
(***************************************************************************)
(* Leagues of every number of entrants and every division into groups:     *)
(* everybody meets everybody of the own group once, and has at most one    *)
(* match in a round (RoundRobin of Competition), and the ranks of the      *)
(* table count who is better (RanksFair).                                  *)
(*                                                                         *)
(* The circle: whoever is not first in the line moves on by one place in   *)
(* each round, around an odd number of places.  Two of them, who start a   *)
(* and b places behind the second, face each other in the round r in which *)
(*      2 * r + a + b  is  -2  modulo this odd number,                     *)
(* of which there is exactly one.  The first meets who is last by then.    *)
(*                                                                         *)
(* The table: the lines are in a strict order, so each has a place of its  *)
(* own, and the walk of Ranks goes wrong at no line, or at a first one.    *)
(***************************************************************************)
EXTENDS CompetitionProofs

(* Who stands at place j of a line of n in round r, and where he stands who *)
(* is at place x in the beginning.                                          *)
At(n, r, j)    == IF j = 1 THEN 1 ELSE 2 + ((j - 2 - r) % (n - 1))
Stand(n, r, x) == IF x = 1 THEN 1 ELSE 2 + ((x - 2 + r) % (n - 1))

(* The places i from the front and from the back face each other. *)
Facing(n, i) == {i + 1, n - i}

-----------------------------------------------------------------------------
(* The circle *)

LEMMA NotWrapped ==
    ASSUME NEW w \in Nat, w > 0, NEW z \in Int, 0 <= z, z < w
    PROVE  z % w = z
OBVIOUS

LEMMA WrappedOnce ==
    ASSUME NEW w \in Nat, w > 0, NEW z \in Int, w <= z, z < 2 * w
    PROVE  z % w = z - w
OBVIOUS

LEMMA WrappedBack ==
    ASSUME NEW w \in Nat, w > 0, NEW z \in Int, -w <= z, z < 0
    PROVE  z % w = z + w
OBVIOUS

LEMMA EvenOrOdd ==
    ASSUME NEW t \in Int
    PROVE  \E h \in Int : t = 2 * h \/ t = 2 * h + 1
<1>1. t \div 2 \in Int /\ (t = 2 * (t \div 2) \/ t = 2 * (t \div 2) + 1)
  OBVIOUS
<1> QED
  BY <1>1

(* The second and all behind have moved on by r places, around the end. *)
LEMMA StandMoved ==
    ASSUME NEW n \in Nat, n >= 2, NEW r \in 0..(n - 2), NEW x \in 2..n
    PROVE  Stand(n, r, x) = IF x + r <= n THEN x + r ELSE x + r - (n - 1)
<1> DEFINE w == n - 1
           z == x - 2 + r
<1>1. w \in Nat /\ w > 0 /\ z \in Int /\ 0 <= z /\ z < 2 * w
  OBVIOUS
<1>2. Stand(n, r, x) = 2 + (z % w)
  BY DEF Stand
<1>3. x + r <= n <=> z < w
  OBVIOUS
<1>4. CASE z < w
  <2>1. z % w = z
    <3> HIDE DEF z, w
    <3> QED
      BY <1>1, <1>4, NotWrapped
  <2> QED
    BY <1>2, <1>3, <1>4, <2>1
<1>5. CASE ~(z < w)
  <2>1. z % w = z - w
    <3> HIDE DEF z, w
    <3> QED
      BY <1>1, <1>5, WrappedOnce
  <2> QED
    BY <1>2, <1>3, <1>5, <2>1
<1> QED
  BY <1>4, <1>5

LEMMA AtMoved ==
    ASSUME NEW n \in Nat, n >= 2, NEW r \in 0..(n - 2), NEW j \in 2..n
    PROVE  At(n, r, j) = IF j - r >= 2 THEN j - r ELSE j - r + (n - 1)
<1> DEFINE w == n - 1
           z == j - 2 - r
<1>1. w \in Nat /\ w > 0 /\ z \in Int /\ -w <= z /\ z < w
  OBVIOUS
<1>2. At(n, r, j) = 2 + (z % w)
  BY DEF At
<1>3. j - r >= 2 <=> 0 <= z
  OBVIOUS
<1>4. CASE 0 <= z
  <2>1. z % w = z
    <3> HIDE DEF z, w
    <3> QED
      BY <1>1, <1>4, NotWrapped
  <2> QED
    BY <1>2, <1>3, <1>4, <2>1
<1>5. CASE ~(0 <= z)
  <2>1. z % w = z + w
    <3> HIDE DEF z, w
    <3> QED
      BY <1>1, <1>5, WrappedBack
  <2> QED
    BY <1>2, <1>3, <1>5, <2>1
<1> QED
  BY <1>4, <1>5

(* A line moves as a whole: nobody is lost and no two are at one place. *)
LEMMA AtStand ==
    ASSUME NEW n \in Nat, n >= 2, NEW r \in 0..(n - 2)
    PROVE  /\ \A j \in 1..n : At(n, r, j) \in 1..n
           /\ \A x \in 1..n : Stand(n, r, x) \in 1..n
           /\ \A j, x \in 1..n : At(n, r, j) = x <=> Stand(n, r, x) = j
<1>1. \A j \in 1..n : IF j = 1 THEN At(n, r, j) = 1
                      ELSE At(n, r, j) = IF j - r >= 2 THEN j - r ELSE j - r + (n - 1)
  BY AtMoved DEF At
<1>2. \A x \in 1..n : IF x = 1 THEN Stand(n, r, x) = 1
                      ELSE Stand(n, r, x) = IF x + r <= n THEN x + r ELSE x + r - (n - 1)
  BY StandMoved DEF Stand
<1>3. \A j \in 1..n : At(n, r, j) \in 1..n
  BY <1>1
<1>4. \A x \in 1..n : Stand(n, r, x) \in 1..n
  BY <1>2
<1>5. \A j, x \in 1..n : At(n, r, j) = x <=> Stand(n, r, x) = j
  BY <1>1, <1>2
<1> QED
  BY <1>3, <1>4, <1>5

(* Two of a line of even length face each other in one round. *)
LEMMA MeetInARound ==
    ASSUME NEW h \in Nat, h >= 1, NEW n, n = 2 * h, NEW x \in 1..n, NEW y \in 1..n, x < y
    PROVE  \E r \in 0..(n - 2) : Stand(n, r, x) + Stand(n, r, y) = n + 1
<1>1. n \in Nat /\ n >= 2 /\ y \in 2..n
  OBVIOUS
<1>2. CASE x = 1
  <2>1. n - y \in 0..(n - 2)
    BY <1>1
  <2>2. Stand(n, n - y, y) = n
    BY <1>1, <2>1, StandMoved
  <2>3. Stand(n, n - y, x) = 1
    BY <1>2 DEF Stand
  <2>4. Stand(n, n - y, x) + Stand(n, n - y, y) = n + 1
    BY <1>1, <2>2, <2>3
  <2> QED
    BY <2>1, <2>4
<1>3. CASE x # 1
  <2>1. x \in 2..n
    BY <1>1, <1>3
  <2> DEFINE t == n + 1 - x - y
  <2>2. \E k \in Int : t = 2 * k \/ t = 2 * k + 1
    <3>1. t \in Int
      BY <1>1
    <3> HIDE DEF t
    <3> QED
      BY <3>1, EvenOrOdd
  <2>3. PICK k \in Int : t = 2 * k \/ t = 2 * k + 1
    BY <2>2
  <2>4. ASSUME NEW r \in 0..(n - 2), 2 * r = t \/ 2 * r = t + (n - 1) \/ 2 * r = t + 2 * (n - 1)
        PROVE  Stand(n, r, x) + Stand(n, r, y) = n + 1
    <3>1. Stand(n, r, x) = IF x + r <= n THEN x + r ELSE x + r - (n - 1)
      BY <1>1, <2>1, StandMoved
    <3>2. Stand(n, r, y) = IF y + r <= n THEN y + r ELSE y + r - (n - 1)
      BY <1>1, StandMoved
    <3> QED
      BY <1>1, <2>1, <2>4, <3>1, <3>2
  <2>5. CASE t = 2 * k /\ t >= 0
    <3>1. k \in 0..(n - 2) /\ 2 * k = t
      BY <1>1, <2>1, <2>5
    <3> QED
      BY <2>4, <3>1
  <2>6. CASE t = 2 * k /\ t < 0
    <3>1. k + (n - 1) \in 0..(n - 2) /\ 2 * (k + (n - 1)) = t + 2 * (n - 1)
      BY <1>1, <2>1, <2>6
    <3> QED
      BY <2>4, <3>1
  <2>7. CASE t = 2 * k + 1
    <3>1. k + h \in 0..(n - 2) /\ 2 * (k + h) = t + (n - 1)
      BY <1>1, <2>1, <2>7
    <3> QED
      BY <2>4, <3>1
  <2> QED
    BY <1>1, <2>3, <2>5, <2>6, <2>7
<1> QED
  BY <1>2, <1>3

LEMMA MeetInOneRound ==
    ASSUME NEW h \in Nat, h >= 1, NEW n, n = 2 * h, NEW x \in 1..n, NEW y \in 1..n, x < y,
           NEW r \in 0..(n - 2), Stand(n, r, x) + Stand(n, r, y) = n + 1,
           NEW q \in 0..(n - 2), Stand(n, q, x) + Stand(n, q, y) = n + 1
    PROVE  r = q
<1>1. n \in Nat /\ n >= 2 /\ y \in 2..n
  OBVIOUS
<1>2. /\ Stand(n, r, y) = IF y + r <= n THEN y + r ELSE y + r - (n - 1)
      /\ Stand(n, q, y) = IF y + q <= n THEN y + q ELSE y + q - (n - 1)
  BY <1>1, StandMoved
<1>3. CASE x = 1
  <2>1. Stand(n, r, x) = 1 /\ Stand(n, q, x) = 1
    BY <1>3 DEF Stand
  <2> QED
    BY <1>1, <1>2, <2>1
<1>4. CASE x # 1
  <2>1. x \in 2..n
    BY <1>1, <1>4
  <2>2. /\ Stand(n, r, x) = IF x + r <= n THEN x + r ELSE x + r - (n - 1)
        /\ Stand(n, q, x) = IF x + q <= n THEN x + q ELSE x + q - (n - 1)
    BY <1>1, <2>1, StandMoved
  <2> QED
    BY <1>1, <1>2, <2>1, <2>2
<1> QED
  BY <1>3, <1>4

-----------------------------------------------------------------------------
(* The line of a group *)

(* Different elements have different ranks. *)
LEMMA RankInjective ==
    ASSUME NEW S \in SUBSET Nat, IsFiniteSet(S), NEW d \in S, NEW e \in S, d < e
    PROVE  Cardinality({c \in S : c < d}) < Cardinality({c \in S : c < e})
<1> DEFINE Below(x) == {c \in S : c < x}
<1>1. IsFiniteSet(Below(d)) /\ IsFiniteSet(Below(e)) /\ d \notin Below(d)
  BY FS_Subset
<1>2. Cardinality(Below(d)) \in Nat /\ Cardinality(Below(e)) \in Nat
  BY <1>1, FS_CardinalityType
<1>3. Cardinality(Below(d) \cup {d}) = Cardinality(Below(d)) + 1
  BY <1>1, FS_AddElement
<1>4. (Below(d) \cup {d}) \in SUBSET Below(e)
  <2>1. \A c \in S : c \in Nat /\ d \in Nat /\ e \in Nat
    OBVIOUS
  <2>2. \A c \in S : c < d => c < e
    BY <2>1
  <2> QED
    BY <2>2
<1> HIDE DEF Below
<1>5. Cardinality(Below(d) \cup {d}) <= Cardinality(Below(e))
  BY <1>1, <1>4, FS_Subset
<1>6. Cardinality(Below(d)) < Cardinality(Below(e))
  BY <1>2, <1>3, <1>5
<1> QED
  BY <1>6 DEF Below

(* In the line stands everybody of the group once and nobody else but a bye, *)
(* and its length is even.                                                  *)
Lined(gr, g, line) ==
    /\ \E h \in Nat : h >= 1 /\ Len(line) = 2 * h
    /\ \A x \in 1..Len(line) : line[x] = Bye \/ (line[x] \in DOMAIN gr /\ gr[line[x]] = g)
    /\ \A x, y \in 1..Len(line) : line[x] = line[y] => x = y
    /\ \A e \in DOMAIN gr : gr[e] = g => \E x \in 1..Len(line) : line[x] = e

LEMMA LineLined ==
    ASSUME NEW n \in Nat, NEW gr, DOMAIN gr = 0..(n - 1), NEW g, \E e \in DOMAIN gr : gr[e] = g
    PROVE  Lined(gr, g, Line(gr, g))
<1> DEFINE S == {e \in DOMAIN gr : gr[e] = g}
           m == Size(gr, g)
           Rank(e) == Cardinality({d \in DOMAIN gr : gr[d] = g /\ d < e})
           jth(j) == CHOOSE e \in DOMAIN gr :
                       gr[e] = g /\ Cardinality({d \in DOMAIN gr : gr[d] = g /\ d < e}) = j - 1
           nth == [j \in 1..m |-> jth(j)]
           line == Line(gr, g)
<1>1. IsFiniteSet(0..(n - 1))
  <2>1. 0 \in Int /\ n - 1 \in Int
    OBVIOUS
  <2> QED
    BY <2>1, FS_Interval
<1>2. S \in SUBSET (0..(n - 1)) /\ S \in SUBSET Nat /\ S # {}
  OBVIOUS
<1>3. IsFiniteSet(S) /\ Cardinality(S) \in Nat
  BY <1>1, <1>2, FS_Subset, FS_CardinalityType
<1>4. m = Cardinality(S) /\ m \in Nat /\ m >= 1
  <2>1. m = Cardinality(S)
    BY DEF Size
  <2>2. Cardinality(S) # 0
    BY <1>2, <1>3, FS_EmptySet
  <2> QED
    BY <1>3, <2>1, <2>2
<1>5. \A e \in S : Rank(e) = Cardinality({d \in S : d < e})
  <2> SUFFICES ASSUME NEW e \in S PROVE Rank(e) = Cardinality({d \in S : d < e})
    OBVIOUS
  <2>1. {d \in DOMAIN gr : gr[d] = g /\ d < e} = {d \in S : d < e}
    OBVIOUS
  <2> QED
    BY <2>1
<1>6. ASSUME NEW j \in 1..m PROVE jth(j) \in S /\ Rank(jth(j)) = j - 1
  <2>1. j - 1 \in 0..(Cardinality(S) - 1)
    BY <1>3, <1>4
  <2>2. PICK e \in S : Cardinality({d \in S : d < e}) = j - 1
    BY <1>2, <1>3, <2>1, Nth
  <2>3. e \in DOMAIN gr /\ gr[e] = g /\ Rank(e) = j - 1
    BY <1>5, <2>2
  <2>4. jth(j) \in DOMAIN gr /\ gr[jth(j)] = g /\ Rank(jth(j)) = j - 1
    BY <2>3
  <2> QED
    BY <2>4
<1>7. \A d, e \in S : Rank(d) = Rank(e) => d = e
  <2> SUFFICES ASSUME NEW d \in S, NEW e \in S, Rank(d) = Rank(e) PROVE d = e
    OBVIOUS
  <2>1. d \in Nat /\ e \in Nat
    BY <1>2
  <2>2. \A c \in S : IsFiniteSet({b \in S : b < c})
    BY <1>3, FS_Subset
  <2>3. Rank(d) \in Nat /\ Rank(e) \in Nat
    BY <1>5, <2>2, FS_CardinalityType
  <2>4. d < e => Rank(d) < Rank(e)
    BY <1>2, <1>3, <1>5, RankInjective
  <2>5. e < d => Rank(e) < Rank(d)
    BY <1>2, <1>3, <1>5, RankInjective
  <2> HIDE DEF Rank, S
  <2> QED
    BY <2>1, <2>3, <2>4, <2>5
<1>8. ASSUME NEW e \in S PROVE Rank(e) + 1 \in 1..m /\ jth(Rank(e) + 1) = e
  <2>1. {d \in S : d < e} \in SUBSET (S \ {e})
    BY <1>2
  <2>2. IsFiniteSet(S \ {e}) /\ Cardinality(S \ {e}) = m - 1
    BY <1>3, <1>4, FS_RemoveElement
  <2>3. Rank(e) <= m - 1 /\ Rank(e) \in Nat
    BY <1>5, <2>1, <2>2, FS_Subset, FS_CardinalityType
  <2>4. Rank(e) + 1 \in 1..m /\ (Rank(e) + 1) - 1 = Rank(e)
    <3> HIDE DEF Rank, m
    <3> QED
      BY <1>4, <2>3
  <2>5. jth(Rank(e) + 1) \in S /\ Rank(jth(Rank(e) + 1)) = Rank(e)
    <3> HIDE DEF Rank, m, S, jth
    <3> QED
      BY <1>6, <2>4
  <2> HIDE DEF Rank, m, S, jth
  <2> QED
    BY <1>7, <2>4, <2>5
<1>9. \A e \in S : e # Bye
  BY <1>2 DEF Bye
<1>10. \A j \in 1..m : nth[j] = jth(j)
  OBVIOUS
<1>11. nth \in Seq(S) /\ Len(nth) = m
  <2>1. nth \in [1..m -> S]
    <3> HIDE DEF jth, m, S
    <3> QED
      BY <1>6
  <2> HIDE DEF nth, m, S
  <2> QED
    BY <1>4, <2>1
<1>12. line = IF m % 2 = 1 THEN Append(nth, Bye) ELSE nth
  BY DEF Line
<1> HIDE DEF S, m, Rank, jth, nth, line
<1>13. \A x \in 1..m : nth[x] \in S /\ Rank(nth[x]) = x - 1
  BY <1>6, <1>10
<1>14. \A x, y \in 1..m : nth[x] = nth[y] => x = y
  BY <1>4, <1>13
<1>15. \A e \in S : \E x \in 1..m : nth[x] = e
  BY <1>8, <1>10
<1>16. CASE m % 2 = 1
  <2>1. line = Append(nth, Bye) /\ Len(line) = m + 1 /\ line[m + 1] = Bye
        /\ \A x \in 1..m : line[x] = nth[x]
    BY <1>4, <1>11, <1>12, <1>16
  <2>2. \E h \in Nat : h >= 1 /\ m + 1 = 2 * h
    <3>1. m \in Int
      BY <1>4
    <3>2. PICK k \in Int : m = 2 * k \/ m = 2 * k + 1
      BY <3>1, EvenOrOdd
    <3>3. m = 2 * k + 1 /\ k + 1 \in Nat /\ k + 1 >= 1 /\ m + 1 = 2 * (k + 1)
      BY <1>4, <1>16, <3>2
    <3> QED
      BY <3>3
  <2>3. \A x \in 1..(m + 1) : x = m + 1 \/ x \in 1..m
    BY <1>4
  <2>4. \A x \in 1..m : x \in 1..(m + 1)
    BY <1>4
  <2>5. \A x \in 1..Len(line) : line[x] = Bye \/ line[x] \in S
    BY <1>13, <2>1, <2>3
  <2>6. \A x, y \in 1..Len(line) : line[x] = line[y] => x = y
    BY <1>9, <1>13, <1>14, <2>1, <2>3
  <2>7. \A e \in S : \E x \in 1..Len(line) : line[x] = e
    BY <1>15, <2>1, <2>4
  <2> QED
    BY <2>1, <2>2, <2>5, <2>6, <2>7 DEF Lined, S, line
<1>17. CASE m % 2 # 1
  <2>1. line = nth /\ Len(line) = m
    BY <1>11, <1>12, <1>17
  <2>2. \E h \in Nat : h >= 1 /\ m = 2 * h
    BY <1>4, <1>17
  <2> QED
    BY <1>13, <1>14, <1>15, <2>1, <2>2 DEF Lined, S, line
<1> QED
  BY <1>16, <1>17

-----------------------------------------------------------------------------
(* The fixtures of a league *)

(* The fixtures: group, round and place, where no bye stands. *)
LEMMA LeagueFixtures ==
    ASSUME NEW q \in Leagues, NEW gr \in Groupings(q), NEW f
    PROVE  LET Sides == SidesOf(q, gr)
               line(g) == Line(gr, g)
           IN  f \in DOMAIN Sides <=>
                 \E g \in 0..(q.groups - 1) :
                   \E r \in 0..(Len(line(g)) - 2), i \in 0..(Len(line(g)) \div 2 - 1) :
                     /\ f = <<g, r, i>>
                     /\ \A s \in Seat : Opposite(line(g), r, i)[s] # Bye
<1> DEFINE lines == [g \in 0..(q.groups - 1) |-> Line(gr, g)]
           m(g) == Len(lines[g])
           from(g) == {<<g, r, i>> : r \in 0..(m(g) - 2), i \in 0..(m(g) \div 2 - 1)}
           places == UNION {{<<g, r, i>> : r \in 0..(m(g) - 2), i \in 0..(m(g) \div 2 - 1)}
                              : g \in DOMAIN lines}
           two == [h \in places |-> Opposite(lines[h[1]], h[2], h[3])]
           made == {h \in places : \A s \in Seat : two[h][s] # Bye}
<1>1. SidesOf(q, gr) = [h \in made |-> two[h]]
  BY DEF SidesOf
<1>2. places = UNION {from(g) : g \in 0..(q.groups - 1)}
  OBVIOUS
<1> HIDE DEF places
<1>3. \A h \in places : two[h] = Opposite(lines[h[1]], h[2], h[3])
  OBVIOUS
<1>4. \A g \in 0..(q.groups - 1) : lines[g] = Line(gr, g)
  OBVIOUS
<1> HIDE DEF two, lines
<1>5. f \in DOMAIN SidesOf(q, gr) <=> f \in places /\ \A s \in Seat : two[f][s] # Bye
  BY <1>1
<1>6. f \in places <=> \E g \in 0..(q.groups - 1) : f \in from(g)
  <2> HIDE DEF from
  <2> QED
    BY <1>2
<1> HIDE DEF from
<1>7. \A g \in 0..(q.groups - 1) :
        f \in from(g) <=> \E r \in 0..(Len(Line(gr, g)) - 2), i \in 0..(Len(Line(gr, g)) \div 2 - 1) :
                            f = <<g, r, i>>
  <2> SUFFICES ASSUME NEW g \in 0..(q.groups - 1)
               PROVE  f \in from(g) <=> \E r \in 0..(Len(Line(gr, g)) - 2),
                                          i \in 0..(Len(Line(gr, g)) \div 2 - 1) : f = <<g, r, i>>
    OBVIOUS
  <2>1. m(g) = Len(Line(gr, g))
    BY <1>4
  <2> HIDE DEF m
  <2> QED
    BY <2>1 DEF from
<1>8. ASSUME f \in DOMAIN SidesOf(q, gr)
      PROVE  \E g \in 0..(q.groups - 1) :
               \E r \in 0..(Len(Line(gr, g)) - 2), i \in 0..(Len(Line(gr, g)) \div 2 - 1) :
                 f = <<g, r, i>> /\ \A s \in Seat : Opposite(Line(gr, g), r, i)[s] # Bye
  <2>1. f \in places /\ \A s \in Seat : two[f][s] # Bye
    BY <1>5, <1>8
  <2>2. PICK g \in 0..(q.groups - 1) : f \in from(g)
    BY <1>6, <2>1
  <2>3. PICK r \in 0..(Len(Line(gr, g)) - 2), i \in 0..(Len(Line(gr, g)) \div 2 - 1) : f = <<g, r, i>>
    BY <1>7, <2>2
  <2>4. two[f] = Opposite(Line(gr, g), r, i)
    BY <1>3, <1>4, <2>1, <2>3
  <2> QED
    BY <2>1, <2>3, <2>4
<1>9. ASSUME NEW g \in 0..(q.groups - 1),
             NEW r \in 0..(Len(Line(gr, g)) - 2), NEW i \in 0..(Len(Line(gr, g)) \div 2 - 1),
             f = <<g, r, i>>, \A s \in Seat : Opposite(Line(gr, g), r, i)[s] # Bye
      PROVE  f \in DOMAIN SidesOf(q, gr)
  <2>1. f \in places
    BY <1>6, <1>7, <1>9
  <2>2. two[f] = Opposite(Line(gr, g), r, i)
    BY <1>3, <1>4, <1>9, <2>1
  <2> QED
    BY <1>5, <1>9, <2>1, <2>2
<1> QED
  BY <1>8, <1>9

LEMMA LeagueSides ==
    ASSUME NEW q \in Leagues, NEW gr \in Groupings(q), NEW f \in DOMAIN SidesOf(q, gr)
    PROVE  SidesOf(q, gr)[f] = Opposite(Line(gr, f[1]), f[2], f[3])
<1> DEFINE lines == [g \in 0..(q.groups - 1) |-> Line(gr, g)]
           m(g) == Len(lines[g])
           places == UNION {{<<g, r, i>> : r \in 0..(m(g) - 2), i \in 0..(m(g) \div 2 - 1)}
                              : g \in DOMAIN lines}
           two == [h \in places |-> Opposite(lines[h[1]], h[2], h[3])]
           made == {h \in places : \A s \in Seat : two[h][s] # Bye}
<1>1. SidesOf(q, gr) = [h \in made |-> two[h]]
  BY DEF SidesOf
<1> HIDE DEF places
<1>2. \A h \in places : two[h] = Opposite(lines[h[1]], h[2], h[3])
  OBVIOUS
<1> HIDE DEF two
<1>3. f \in places /\ SidesOf(q, gr)[f] = two[f]
  BY <1>1
<1>4. \A g \in 0..(q.groups - 1) : lines[g] = Line(gr, g)
  OBVIOUS
<1>5. f[1] \in 0..(q.groups - 1)
  BY LeagueFixtures
<1> HIDE DEF lines
<1> QED
  BY <1>2, <1>3, <1>4, <1>5

(* Who plays at place i in round r is who stands at the two places that     *)
(* face each other there.                                                   *)
LEMMA WhoFaces ==
    ASSUME NEW A, NEW line \in Seq(A), NEW h \in Nat, h >= 1, Len(line) = 2 * h,
           \A x, y \in 1..Len(line) : line[x] = line[y] => x = y,
           NEW r \in 0..(Len(line) - 2), NEW i \in 0..(h - 1), NEW x \in 1..Len(line)
    PROVE  (\E s \in Seat : Opposite(line, r, i)[s] = line[x])
             <=> Stand(Len(line), r, x) \in Facing(Len(line), i)
<1> DEFINE n == Len(line)
           now == LineIn(line, r)
<1>1. n \in Nat /\ n >= 2 /\ n = 2 * h /\ r \in 0..(n - 2) /\ DOMAIN line = 1..n
      /\ x \in 1..n
  OBVIOUS
<1>2. \A j \in 1..n : now[j] = line[At(n, r, j)]
  BY <1>1 DEF LineIn, At
<1>3. i + 1 \in 1..n /\ n - i \in 1..n
  BY <1>1
<1>4. Opposite(line, r, i) = [s \in Seat |-> IF s = r % 2 THEN now[i + 1] ELSE now[n - i]]
  BY DEF Opposite
<1>5. r % 2 \in Seat /\ 1 - (r % 2) \in Seat /\ 1 - (r % 2) # r % 2
  BY <1>1 DEF Seat
<1> HIDE DEF n, now
<1>6. \A e : (\E s \in Seat : Opposite(line, r, i)[s] = e) <=> (now[i + 1] = e \/ now[n - i] = e)
  BY <1>4, <1>5
<1>7. \A j \in 1..n : now[j] = line[x] <=> Stand(n, r, x) = j
  <2> SUFFICES ASSUME NEW j \in 1..n PROVE now[j] = line[x] <=> Stand(n, r, x) = j
    OBVIOUS
  <2>1. At(n, r, j) \in 1..n /\ (At(n, r, j) = x <=> Stand(n, r, x) = j)
    BY <1>1, AtStand
  <2>2. line[At(n, r, j)] = line[x] <=> At(n, r, j) = x
    BY <1>1, <2>1 DEF n
  <2> QED
    BY <1>2, <2>1, <2>2
<1>8. (\E s \in Seat : Opposite(line, r, i)[s] = line[x])
        <=> Stand(n, r, x) \in Facing(n, i)
  BY <1>3, <1>6, <1>7 DEF Facing
<1> QED
  BY <1>8 DEF n

LEMMA GroupLine ==
    ASSUME NEW q \in Leagues, NEW gr \in Groupings(q), NEW g \in 0..(q.groups - 1)
    PROVE  /\ Lined(gr, g, Line(gr, g))
           /\ Line(gr, g) \in Seq({e \in DOMAIN gr : gr[e] = g} \cup {Bye})
<1>1. /\ q.count \in 2..64 /\ gr \in [0..(q.count - 1) -> 0..(q.groups - 1)]
      /\ \E e \in 0..(q.count - 1) : gr[e] = g
  BY GroupingsType
<1>2. q.count \in Nat /\ DOMAIN gr = 0..(q.count - 1) /\ \E e \in DOMAIN gr : gr[e] = g
  <2>1. DOMAIN gr = 0..(q.count - 1)
    BY <1>1
  <2>2. \A c : c \in 2..64 => c \in Nat
    OBVIOUS
  <2>3. q.count \in Nat
    BY <1>1, <2>2, Zenon
  <2>4. \E e \in DOMAIN gr : gr[e] = g
    BY <1>1, <2>1, Zenon
  <2> QED
    BY <2>1, <2>3, <2>4
<1> DEFINE c == q.count
           line == Line(gr, g)
           A == {e \in DOMAIN gr : gr[e] = g} \cup {Bye}
<1>3. Lined(gr, g, line)
  <2> HIDE DEF c, line
  <2>1. c \in Nat /\ DOMAIN gr = 0..(c - 1)
    BY <1>2 DEF c
  <2> QED
    BY <1>2, <2>1, LineLined DEF line
<1>4. line \in Seq(0..(q.count - 1) \cup {Bye})
  BY LeagueLine
<1>5. \A x \in 1..Len(line) : line[x] \in A
  BY <1>3 DEF Lined
<1>6. line \in Seq(A)
  <2> HIDE DEF line, A
  <2>1. line \in [1..Len(line) -> A] /\ Len(line) \in Nat
    BY <1>4, <1>5
  <2> QED
    BY <2>1
<1> QED
  BY <1>3, <1>6

(* Of every place there is one that faces it. *)
LEMMA TwoFacing ==
    ASSUME NEW h \in Nat, h >= 1, NEW n, n = 2 * h, NEW j \in 1..n, NEW k \in 1..n
    PROVE  /\ \E i \in 0..(h - 1) : j \in Facing(n, i)
           /\ \A i, l \in 0..(h - 1) : j \in Facing(n, i) /\ j \in Facing(n, l) => i = l
           /\ \A i \in 0..(h - 1) : j \in Facing(n, i) /\ k \in Facing(n, i) /\ j # k => j + k = n + 1
           /\ \A i \in 0..(h - 1) : j \in Facing(n, i) /\ j + k = n + 1 => k \in Facing(n, i)
<1>1. \E i \in 0..(h - 1) : j \in Facing(n, i)
  <2>1. CASE j <= h
    <3>1. j - 1 \in 0..(h - 1) /\ j \in Facing(n, j - 1)
      BY <2>1 DEF Facing
    <3> QED
      BY <3>1
  <2>2. CASE j > h
    <3>1. n - j \in 0..(h - 1) /\ j \in Facing(n, n - j)
      BY <2>2 DEF Facing
    <3> QED
      BY <3>1
  <2> QED
    BY <2>1, <2>2
<1>2. \A i, l \in 0..(h - 1) : j \in Facing(n, i) /\ j \in Facing(n, l) => i = l
  BY DEF Facing
<1>3. \A i \in 0..(h - 1) : j \in Facing(n, i) /\ k \in Facing(n, i) /\ j # k => j + k = n + 1
  BY DEF Facing
<1>4. \A i \in 0..(h - 1) : j \in Facing(n, i) /\ j + k = n + 1 => k \in Facing(n, i)
  BY DEF Facing
<1> QED
  BY <1>1, <1>2, <1>3, <1>4

(* Where an entrant stands in the line of the group. *)
PlaceOf(gr, e) == CHOOSE x \in 1..Len(Line(gr, gr[e])) : Line(gr, gr[e])[x] = e

LEMMA PlaceFound ==
    ASSUME NEW q \in Leagues, NEW gr \in Groupings(q), NEW e \in DOMAIN gr
    PROVE  /\ gr[e] \in 0..(q.groups - 1) /\ e # Bye
           /\ PlaceOf(gr, e) \in 1..Len(Line(gr, gr[e])) /\ Line(gr, gr[e])[PlaceOf(gr, e)] = e
<1>1. q.count \in 2..64 /\ gr \in [0..(q.count - 1) -> 0..(q.groups - 1)]
  BY GroupingsType
<1>2. gr[e] \in 0..(q.groups - 1) /\ e # Bye
  BY <1>1 DEF Bye
<1>3. Lined(gr, gr[e], Line(gr, gr[e]))
  BY <1>2, GroupLine
<1>4. \E x \in 1..Len(Line(gr, gr[e])) : Line(gr, gr[e])[x] = e
  BY <1>3 DEF Lined
<1> QED
  BY <1>2, <1>4 DEF PlaceOf

(* The fixtures of an entrant. *)
PlayedBy(q, gr, e) == {f \in DOMAIN SidesOf(q, gr) : \E s \in Seat : SidesOf(q, gr)[f][s] = e}

LEMMA InFixture ==
    ASSUME NEW q \in Leagues, NEW gr \in Groupings(q), NEW e \in DOMAIN gr,
           NEW f \in DOMAIN SidesOf(q, gr)
    PROVE  LET g == gr[e]
               n == Len(Line(gr, g))
           IN  f \in PlayedBy(q, gr, e) <=>
                 f[1] = g /\ Stand(n, f[2], PlaceOf(gr, e)) \in Facing(n, f[3])
<1> DEFINE g == gr[e]
           line == Line(gr, g)
           n == Len(line)
           x == PlaceOf(gr, e)
<1>1. PICK k \in 0..(q.groups - 1) :
        \E r \in 0..(Len(Line(gr, k)) - 2), i \in 0..(Len(Line(gr, k)) \div 2 - 1) : f = <<k, r, i>>
  BY LeagueFixtures
<1>2. PICK r \in 0..(Len(Line(gr, k)) - 2), i \in 0..(Len(Line(gr, k)) \div 2 - 1) : f = <<k, r, i>>
  BY <1>1
<1>3. f[1] = k /\ f[2] = r /\ f[3] = i
  BY <1>2
<1>4. SidesOf(q, gr)[f] = Opposite(Line(gr, k), r, i)
  BY <1>3, LeagueSides
<1>5. f \in PlayedBy(q, gr, e) <=> \E s \in Seat : Opposite(Line(gr, k), r, i)[s] = e
  BY <1>4 DEF PlayedBy
<1> DEFINE A == {d \in DOMAIN gr : gr[d] = k} \cup {Bye}
<1>6. Lined(gr, k, Line(gr, k)) /\ Line(gr, k) \in Seq(A)
  BY GroupLine
<1>7. PICK h \in Nat : h >= 1 /\ Len(Line(gr, k)) = 2 * h
  BY <1>6 DEF Lined
<1>8. r \in Nat /\ r \in 0..(Len(Line(gr, k)) - 2) /\ i \in 0..(h - 1)
  BY <1>2, <1>7
<1>9. CASE k = g
  <2>1. x \in 1..n /\ line[x] = e
    BY PlaceFound
  <2>2. \A y, z \in 1..n : line[y] = line[z] => y = z
    BY <1>6, <1>9 DEF Lined
  <2>3. line \in Seq(A) /\ n = 2 * h /\ r \in 0..(n - 2)
    BY <1>6, <1>7, <1>8, <1>9
  <2> HIDE DEF A, line, x, g
  <2>4. (\E s \in Seat : Opposite(line, r, i)[s] = line[x]) <=> Stand(n, r, x) \in Facing(n, i)
    BY <1>7, <1>8, <2>1, <2>2, <2>3, WhoFaces
  <2>5. f \in PlayedBy(q, gr, e) <=> f[1] = g /\ Stand(n, f[2], x) \in Facing(n, f[3])
    BY <1>3, <1>5, <1>9, <2>1, <2>4 DEF line
  <2> QED
    BY <2>5 DEF x, line, g
<1>10. CASE k # g
  <2> HIDE DEF A
  <2>1. Opposite(Line(gr, k), r, i) \in [Seat -> A]
    BY <1>2, <1>6, <1>8, OppositeEntrants
  <2>2. e # Bye /\ e \notin A
    BY <1>10, PlaceFound DEF A
  <2> QED
    BY <1>3, <1>5, <1>10, <2>1, <2>2
<1> QED
  BY <1>9, <1>10

(* What is used of two entrants of a group: their line, and their places.   *)
LEMMA GroupOf ==
    ASSUME NEW q \in Leagues, NEW gr \in Groupings(q), NEW e \in DOMAIN gr
    PROVE  LET n == Len(Line(gr, gr[e]))
           IN  \E h \in Nat :
                 /\ h >= 1 /\ n = 2 * h /\ n \div 2 = h
                 /\ \A f \in DOMAIN SidesOf(q, gr) : f[1] = gr[e] =>
                      f = <<f[1], f[2], f[3]>> /\ f[2] \in 0..(n - 2) /\ f[3] \in 0..(h - 1)
<1> DEFINE n == Len(Line(gr, gr[e]))
<1>1. gr[e] \in 0..(q.groups - 1)
  BY PlaceFound
<1>2. Lined(gr, gr[e], Line(gr, gr[e]))
  BY <1>1, GroupLine
<1>3. PICK h \in Nat : h >= 1 /\ n = 2 * h
  BY <1>2 DEF Lined
<1>4. n \div 2 = h
  <2> HIDE DEF n
  <2> QED
    BY <1>3
<1>5. ASSUME NEW f \in DOMAIN SidesOf(q, gr), f[1] = gr[e]
      PROVE  f = <<f[1], f[2], f[3]>> /\ f[2] \in 0..(n - 2) /\ f[3] \in 0..(h - 1)
  <2>1. PICK k \in 0..(q.groups - 1) :
          \E r \in 0..(Len(Line(gr, k)) - 2), i \in 0..(Len(Line(gr, k)) \div 2 - 1) : f = <<k, r, i>>
    BY LeagueFixtures
  <2>2. PICK r \in 0..(Len(Line(gr, k)) - 2), i \in 0..(Len(Line(gr, k)) \div 2 - 1) : f = <<k, r, i>>
    BY <2>1
  <2>3. f[1] = k /\ f[2] = r /\ f[3] = i /\ k = gr[e]
    BY <1>5, <2>2
  <2>4. r \in 0..(n - 2) /\ i \in 0..(n \div 2 - 1)
    BY <2>2, <2>3
  <2> HIDE DEF n
  <2> QED
    BY <1>4, <2>2, <2>3, <2>4
<1> QED
  BY <1>3, <1>4, <1>5

(* In a round an entrant has at most one match. *)
LEMMA OneAtATime ==
    ASSUME NEW q \in Leagues, NEW gr \in Groupings(q), NEW e \in DOMAIN gr,
           NEW f \in PlayedBy(q, gr, e), NEW k \in PlayedBy(q, gr, e), f[2] = k[2]
    PROVE  f = k
<1> DEFINE n == Len(Line(gr, gr[e]))
           x == PlaceOf(gr, e)
<1>1. f \in DOMAIN SidesOf(q, gr) /\ k \in DOMAIN SidesOf(q, gr)
  BY DEF PlayedBy
<1>2. PICK h \in Nat : /\ h >= 1 /\ n = 2 * h
                       /\ \A b \in DOMAIN SidesOf(q, gr) : b[1] = gr[e] =>
                            b = <<b[1], b[2], b[3]>> /\ b[2] \in 0..(n - 2) /\ b[3] \in 0..(h - 1)
  BY GroupOf
<1>3. /\ f[1] = gr[e] /\ Stand(n, f[2], x) \in Facing(n, f[3])
      /\ k[1] = gr[e] /\ Stand(n, k[2], x) \in Facing(n, k[3])
  BY <1>1, InFixture
<1>4. x \in 1..n
  BY PlaceFound
<1>5. /\ f = <<f[1], f[2], f[3]>> /\ f[2] \in 0..(n - 2) /\ f[3] \in 0..(h - 1)
      /\ k = <<k[1], k[2], k[3]>> /\ k[3] \in 0..(h - 1)
  BY <1>1, <1>2, <1>3
<1> HIDE DEF n, x
<1>6. n \in Nat /\ n >= 2
  BY <1>2
<1>7. Stand(n, f[2], x) \in 1..n
  BY <1>4, <1>5, <1>6, AtStand
<1>8. f[3] = k[3]
  BY <1>2, <1>3, <1>5, <1>7, TwoFacing
<1> QED
  BY <1>3, <1>5, <1>8

(* The two of a fixture are of one group. *)
LEMMA SameGroup ==
    ASSUME NEW q \in Leagues, NEW gr \in Groupings(q), NEW d \in DOMAIN gr, NEW e \in DOMAIN gr,
           NEW f \in PlayedBy(q, gr, d), f \in PlayedBy(q, gr, e)
    PROVE  gr[d] = gr[e]
<1>1. f \in DOMAIN SidesOf(q, gr)
  BY DEF PlayedBy
<1> QED
  BY <1>1, InFixture

(* Two of a group, of whom d stands further in front, have one match. *)
MeetOnce(q, gr, d, e) == \E f : PlayedBy(q, gr, d) \cap PlayedBy(q, gr, e) = {f}

LEMMA InOrderOneMatch ==
    ASSUME NEW q \in Leagues, NEW gr \in Groupings(q), NEW d \in DOMAIN gr, NEW e \in DOMAIN gr,
           gr[d] = gr[e], PlaceOf(gr, d) < PlaceOf(gr, e)
    PROVE  MeetOnce(q, gr, d, e)
<1> DEFINE g == gr[e]
           n == Len(Line(gr, gr[e]))
           x == PlaceOf(gr, d)
           y == PlaceOf(gr, e)
           Sides == SidesOf(q, gr)
<1>1. PICK h \in Nat : /\ h >= 1 /\ n = 2 * h /\ n \div 2 = h
                       /\ \A b \in DOMAIN Sides : b[1] = g =>
                            b = <<b[1], b[2], b[3]>> /\ b[2] \in 0..(n - 2) /\ b[3] \in 0..(h - 1)
  BY GroupOf
<1>2. /\ g \in 0..(q.groups - 1) /\ d # Bye /\ e # Bye
      /\ x \in 1..n /\ y \in 1..n /\ Line(gr, g)[x] = d /\ Line(gr, g)[y] = e
  BY PlaceFound
<1>3. \A f \in DOMAIN Sides :
        /\ f \in PlayedBy(q, gr, d) <=> f[1] = g /\ Stand(n, f[2], x) \in Facing(n, f[3])
        /\ f \in PlayedBy(q, gr, e) <=> f[1] = g /\ Stand(n, f[2], y) \in Facing(n, f[3])
  BY InFixture
<1>4. Lined(gr, g, Line(gr, g)) /\ Line(gr, g) \in Seq({b \in DOMAIN gr : gr[b] = g} \cup {Bye})
  BY <1>2, GroupLine
<1> DEFINE A == {b \in DOMAIN gr : gr[b] = g} \cup {Bye}
           line == Line(gr, g)
<1>5. line \in Seq(A) /\ Len(line) = n /\ \A b, c \in 1..n : line[b] = line[c] => b = c
  BY <1>4 DEF Lined
<1>6. \A f : f \in DOMAIN Sides <=>
        \E b \in 0..(q.groups - 1) :
          \E r \in 0..(Len(Line(gr, b)) - 2), i \in 0..(Len(Line(gr, b)) \div 2 - 1) :
            f = <<b, r, i>> /\ \A s \in Seat : Opposite(Line(gr, b), r, i)[s] # Bye
  BY LeagueFixtures
<1>7. ASSUME NEW r \in 0..(n - 2), NEW i \in 0..(n \div 2 - 1),
             \A s \in Seat : Opposite(line, r, i)[s] # Bye
      PROVE  <<g, r, i>> \in DOMAIN Sides
  BY <1>2, <1>6, <1>7
<1> HIDE DEF A, g, x, y, Sides
<1>8. line[x] = d /\ line[y] = e
  BY <1>2
<1>9. n \in Nat /\ n >= 2 /\ x < y /\ x \in 1..n /\ y \in 1..n
  <2>1. x < y
    BY DEF x, y
  <2> HIDE DEF n
  <2> QED
    BY <1>1, <1>2, <2>1
<1> HIDE DEF line, n
<1>10. PICK r \in 0..(n - 2) : Stand(n, r, x) + Stand(n, r, y) = n + 1
  BY <1>1, <1>9, MeetInARound
<1>11. Stand(n, r, x) \in 1..n /\ Stand(n, r, y) \in 1..n
  BY <1>9, AtStand
<1>12. PICK i \in 0..(h - 1) : Stand(n, r, x) \in Facing(n, i)
  BY <1>1, <1>11, TwoFacing
<1>13. Stand(n, r, y) \in Facing(n, i)
  BY <1>1, <1>10, <1>11, <1>12, TwoFacing
<1>14. /\ \E s \in Seat : Opposite(line, r, i)[s] = d
       /\ \E s \in Seat : Opposite(line, r, i)[s] = e
  <2>1. Len(line) = 2 * h /\ r \in 0..(Len(line) - 2) /\ x \in 1..Len(line) /\ y \in 1..Len(line)
    BY <1>1, <1>5, <1>9
  <2>2. \A b, c \in 1..Len(line) : line[b] = line[c] => b = c
    BY <1>5
  <2>3. (\E s \in Seat : Opposite(line, r, i)[s] = line[x]) <=> Stand(Len(line), r, x) \in Facing(Len(line), i)
    BY <1>1, <1>5, <2>1, <2>2, WhoFaces
  <2>4. (\E s \in Seat : Opposite(line, r, i)[s] = line[y]) <=> Stand(Len(line), r, y) \in Facing(Len(line), i)
    BY <1>1, <1>5, <2>1, <2>2, WhoFaces
  <2> QED
    BY <1>5, <1>8, <1>12, <1>13, <2>3, <2>4
<1>15. d # e
  BY <1>5, <1>8, <1>9
<1>16. \A s \in Seat : Opposite(line, r, i)[s] # Bye
  BY <1>2, <1>14, <1>15 DEF Seat
<1>17. <<g, r, i>> \in DOMAIN Sides
  BY <1>1, <1>7, <1>16
<1>18. <<g, r, i>> \in PlayedBy(q, gr, d) \cap PlayedBy(q, gr, e)
  BY <1>3, <1>12, <1>13, <1>17
<1>19. ASSUME NEW f \in PlayedBy(q, gr, d) \cap PlayedBy(q, gr, e) PROVE f = <<g, r, i>>
  <2>1. f \in DOMAIN Sides
    BY DEF PlayedBy, Sides
  <2>2. f[1] = g /\ Stand(n, f[2], x) \in Facing(n, f[3]) /\ Stand(n, f[2], y) \in Facing(n, f[3])
    BY <1>3, <2>1
  <2>3. f = <<f[1], f[2], f[3]>> /\ f[2] \in 0..(n - 2) /\ f[3] \in 0..(h - 1)
    BY <1>1, <2>1, <2>2
  <2>4. /\ Stand(n, f[2], x) \in 1..n /\ Stand(n, f[2], y) \in 1..n
        /\ Stand(n, f[2], x) # Stand(n, f[2], y)
    <3>1. /\ \A j \in 1..n : At(n, f[2], j) \in 1..n
          /\ \A b \in 1..n : Stand(n, f[2], b) \in 1..n
          /\ \A j, b \in 1..n : At(n, f[2], j) = b <=> Stand(n, f[2], b) = j
      BY <1>9, <2>3, AtStand
    <3>2. x # y
      BY <1>9
    <3> QED
      BY <1>9, <3>1, <3>2
  <2>5. Stand(n, f[2], x) + Stand(n, f[2], y) = n + 1
    BY <1>1, <2>2, <2>3, <2>4, TwoFacing
  <2>6. f[2] = r
    BY <1>1, <1>9, <1>10, <2>3, <2>5, MeetInOneRound
  <2>7. f[3] = i
    BY <1>1, <1>11, <1>12, <2>2, <2>3, <2>6, TwoFacing
  <2> QED
    BY <2>2, <2>3, <2>6, <2>7
<1>20. PlayedBy(q, gr, d) \cap PlayedBy(q, gr, e) = {<<g, r, i>>}
  BY <1>18, <1>19
<1> QED
  BY <1>20 DEF MeetOnce

(* No fixture is of one entrant. *)
LEMMA SidesDiffer ==
    ASSUME NEW q \in Leagues, NEW gr \in Groupings(q), NEW f \in DOMAIN SidesOf(q, gr)
    PROVE  SidesOf(q, gr)[f][0] # SidesOf(q, gr)[f][1]
<1>1. PICK g \in 0..(q.groups - 1) :
        \E r \in 0..(Len(Line(gr, g)) - 2), i \in 0..(Len(Line(gr, g)) \div 2 - 1) : f = <<g, r, i>>
  BY LeagueFixtures
<1>2. PICK r \in 0..(Len(Line(gr, g)) - 2), i \in 0..(Len(Line(gr, g)) \div 2 - 1) : f = <<g, r, i>>
  BY <1>1
<1> DEFINE line == Line(gr, g)
           n == Len(line)
           now == LineIn(line, r)
           A == {e \in DOMAIN gr : gr[e] = g} \cup {Bye}
<1>3. SidesOf(q, gr)[f] = Opposite(line, r, i)
  BY <1>2, LeagueSides
<1>4. Lined(gr, g, line) /\ line \in Seq(A)
  BY GroupLine
<1>5. /\ \E h \in Nat : h >= 1 /\ n = 2 * h
      /\ \A x, y \in 1..n : line[x] = line[y] => x = y
      /\ DOMAIN line = 1..n /\ r \in 0..(n - 2) /\ i \in 0..(n \div 2 - 1)
  BY <1>2, <1>4 DEF Lined
<1>6. Opposite(line, r, i) = [s \in Seat |-> IF s = r % 2 THEN now[i + 1] ELSE now[n - i]]
  BY DEF Opposite
<1>7. now = [j \in DOMAIN line |-> line[At(n, r, j)]]
  BY DEF LineIn, At
<1> HIDE DEF line, n, now, A
<1>8. PICK h \in Nat : h >= 1 /\ n = 2 * h
  BY <1>5
<1>9. n \in Nat /\ n >= 2 /\ i + 1 \in 1..n /\ n - i \in 1..n /\ i + 1 # n - i
  <2>1. n \div 2 = h
    BY <1>8
  <2> QED
    BY <1>5, <1>8, <2>1
<1>10. /\ \A j \in 1..n : At(n, r, j) \in 1..n
       /\ \A x \in 1..n : Stand(n, r, x) \in 1..n
       /\ \A j, x \in 1..n : At(n, r, j) = x <=> Stand(n, r, x) = j
  BY <1>5, <1>9, AtStand
<1>11. At(n, r, i + 1) # At(n, r, n - i)
  BY <1>9, <1>10
<1>12. now[i + 1] # now[n - i]
  BY <1>5, <1>7, <1>9, <1>10, <1>11
<1>13. 0 \in Seat /\ 1 \in Seat /\ (r % 2 = 0 \/ r % 2 = 1)
  BY <1>5, <1>9 DEF Seat
<1>14. Opposite(line, r, i)[0] # Opposite(line, r, i)[1]
  BY <1>6, <1>12, <1>13
<1> QED
  BY <1>3, <1>14

(* Everybody meets everybody of the group once. *)
LEMMA OneMatch ==
    ASSUME NEW q \in Leagues, NEW gr \in Groupings(q), NEW d \in DOMAIN gr, NEW e \in DOMAIN gr,
           gr[d] = gr[e], d # e
    PROVE  MeetOnce(q, gr, d, e)
<1>1. /\ PlaceOf(gr, d) \in 1..Len(Line(gr, gr[d])) /\ Line(gr, gr[d])[PlaceOf(gr, d)] = d
      /\ PlaceOf(gr, e) \in 1..Len(Line(gr, gr[e])) /\ Line(gr, gr[e])[PlaceOf(gr, e)] = e
  BY PlaceFound
<1>2. PlaceOf(gr, d) # PlaceOf(gr, e)
  BY <1>1
<1>3. PlaceOf(gr, d) < PlaceOf(gr, e) \/ PlaceOf(gr, e) < PlaceOf(gr, d)
  BY <1>1, <1>2
<1>4. PlayedBy(q, gr, d) \cap PlayedBy(q, gr, e) = PlayedBy(q, gr, e) \cap PlayedBy(q, gr, d)
  OBVIOUS
<1>5. CASE PlaceOf(gr, d) < PlaceOf(gr, e)
  BY <1>5, InOrderOneMatch
<1>6. CASE PlaceOf(gr, e) < PlaceOf(gr, d)
  <2>1. gr[e] = gr[d]
    OBVIOUS
  <2>2. MeetOnce(q, gr, e, d)
    BY <1>6, <2>1, InOrderOneMatch
  <2> QED
    BY <1>4, <2>2 DEF MeetOnce
<1> QED
  BY <1>3, <1>5, <1>6

(* So an entrant has a match for every other one of the group. *)
LEMMA MatchesOf ==
    ASSUME NEW q \in Leagues, NEW gr \in Groupings(q), NEW e \in DOMAIN gr
    PROVE  /\ IsFiniteSet(PlayedBy(q, gr, e))
           /\ Cardinality(PlayedBy(q, gr, e)) = Size(gr, gr[e]) - 1
<1> DEFINE All == {d \in DOMAIN gr : gr[d] = gr[e]}
           Others == All \ {e}
           Own == PlayedBy(q, gr, e)
           with == [d \in Others |-> CHOOSE f : PlayedBy(q, gr, d) \cap Own = {f}]
<1>1. q.count \in 2..64 /\ gr \in [0..(q.count - 1) -> 0..(q.groups - 1)]
  BY GroupingsType
<1>2. IsFiniteSet(All) /\ e \in All
  <2>1. IsFiniteSet(DOMAIN gr)
    <3>1. \A c : c \in 2..64 => 0 \in Int /\ c - 1 \in Int
      OBVIOUS
    <3>2. 0 \in Int /\ q.count - 1 \in Int
      BY <1>1, <3>1, Zenon
    <3>3. IsFiniteSet(0..(q.count - 1))
      BY <3>2, FS_Interval
    <3> QED
      BY <1>1, <3>3
  <2> QED
    BY <2>1, FS_Subset
<1>3. IsFiniteSet(Others) /\ Cardinality(Others) = Cardinality(All) - 1
  BY <1>2, FS_RemoveElement
<1>4. Cardinality(All) = Size(gr, gr[e])
  BY DEF Size
<1>5. \A d \in Others : PlayedBy(q, gr, d) \cap Own = {with[d]}
  <2> SUFFICES ASSUME NEW d \in Others PROVE PlayedBy(q, gr, d) \cap Own = {with[d]}
    OBVIOUS
  <2>1. d \in DOMAIN gr /\ gr[d] = gr[e] /\ d # e
    OBVIOUS
  <2>2. MeetOnce(q, gr, d, e)
    BY <2>1, OneMatch
  <2>3. \E f : PlayedBy(q, gr, d) \cap Own = {f}
    BY <2>2 DEF MeetOnce
  <2> HIDE DEF Own
  <2> QED
    BY <2>3
<1>6. \A f \in Own : \E d \in Others : f \in PlayedBy(q, gr, d)
  <2> SUFFICES ASSUME NEW f \in Own PROVE \E d \in Others : f \in PlayedBy(q, gr, d)
    OBVIOUS
  <2>1. f \in DOMAIN SidesOf(q, gr) /\ \E s \in Seat : SidesOf(q, gr)[f][s] = e
    BY DEF PlayedBy
  <2>2. SidesOf(q, gr)[f] \in [Seat -> 0..(q.count - 1)]
    BY <2>1, LeagueSits
  <2>3. SidesOf(q, gr)[f][0] # SidesOf(q, gr)[f][1]
    BY <2>1, SidesDiffer
  <2>4. PICK t \in Seat : SidesOf(q, gr)[f][t] # e
    BY <2>3 DEF Seat
  <2> DEFINE d == SidesOf(q, gr)[f][t]
  <2>5. d \in DOMAIN gr
    BY <1>1, <2>2
  <2>6. f \in PlayedBy(q, gr, d)
    BY <2>1 DEF PlayedBy
  <2> HIDE DEF d
  <2>7. gr[d] = gr[e]
    BY <2>5, <2>6, SameGroup
  <2> QED
    BY <2>4, <2>5, <2>6, <2>7 DEF d
<1>7. \A c, d \in Others : with[c] = with[d] => c = d
  <2> SUFFICES ASSUME NEW c \in Others, NEW d \in Others, with[c] = with[d], c # d PROVE FALSE
    OBVIOUS
  <2> DEFINE f == with[c]
  <2>1. f \in PlayedBy(q, gr, c) /\ f \in PlayedBy(q, gr, d) /\ f \in PlayedBy(q, gr, e)
    BY <1>5
  <2> HIDE DEF f, with
  <2>2. /\ \E s \in Seat : SidesOf(q, gr)[f][s] = c
        /\ \E s \in Seat : SidesOf(q, gr)[f][s] = d
        /\ \E s \in Seat : SidesOf(q, gr)[f][s] = e
    BY <2>1 DEF PlayedBy
  <2>3. c # e /\ d # e
    OBVIOUS
  <2> QED
    BY <2>2, <2>3 DEF Seat
<1>8. with \in Bijection(Others, Own)
  <2>1. \A d \in Others : with[d] \in Own
    BY <1>5
  <2>2. \A f \in Own : \E d \in Others : with[d] = f
    BY <1>5, <1>6
  <2>3. with = [d \in Others |-> with[d]] /\ DOMAIN with = Others
    OBVIOUS
  <2> HIDE DEF with, Own, Others
  <2>4. with \in [Others -> Own]
    BY <2>1, <2>3
  <2> QED
    BY <1>7, <2>2, <2>4 DEF Bijection, Injection, Surjection, IsInjective
<1>9. IsFiniteSet(Own) /\ Cardinality(Own) = Cardinality(Others)
  BY <1>3, <1>8, FS_Bijection DEF ExistsBijection
<1> QED
  BY <1>3, <1>4, <1>9

-----------------------------------------------------------------------------
(* The league that goes on is one that was made *)

(* Results change neither who plays whom nor the groups. *)
LeagueKept ==
    type = "league" =>
      \E q \in Leagues : \E gr \in Groupings(q) : group = gr /\ sits = SidesOf(q, gr)

LEMMA LeagueKeptNext ==
    ASSUME CompInv, LeagueKept, [Next]_vars PROVE LeagueKept'
<1>1. ASSUME NEW c \in New, Create(c) PROVE LeagueKept'
  <2>1. type' = c.type /\ group' = c.group /\ sits' = c.sits
    BY <1>1 DEF Create
  <2>2. CASE \E k \in Counts : \E p \in Shuffles(k) : c = NewTournament(k, p)
    <3>1. c.type = "tournament"
      BY <2>2 DEF NewTournament, File
    <3> QED
      BY <2>1, <3>1 DEF LeagueKept
  <2>3. CASE \E q \in Leagues : \E gr \in Groupings(q) : c = NewLeague(q, gr)
    <3>1. PICK q \in Leagues : \E gr \in Groupings(q) : c = NewLeague(q, gr)
      BY <2>3
    <3>2. PICK gr \in Groupings(q) : c = NewLeague(q, gr)
      BY <3>1
    <3>3. c.group = gr /\ c.sits = SidesOf(q, gr)
      BY <3>2 DEF NewLeague, File
    <3> QED
      BY <2>1, <3>3 DEF LeagueKept
  <2> QED
    BY <2>2, <2>3 DEF New
<1>2. ASSUME NEW f, NEW w, NEW goals, NEW why, Decided(f, w, goals, why) PROVE LeagueKept'
  BY <1>2 DEF LeagueKept, Decided, GoesUp, Knockouts
<1>3. ASSUME NEW f, Undo(f) PROVE LeagueKept'
  BY <1>3 DEF LeagueKept, Undo, GoesUp, Knockouts
<1>4. ASSUME Restart PROVE LeagueKept'
  BY <1>4 DEF LeagueKept, Restart, CompInv, DiskCurrent
<1>5. ASSUME Close PROVE LeagueKept'
  BY <1>5 DEF LeagueKept, Close
<1>6. ASSUME UNCHANGED <<type, group, sits>> PROVE LeagueKept'
  BY <1>6 DEF LeagueKept
<1>7. CASE \E S \in SUBSET Current : Start(S)
  BY <1>6, <1>7 DEF Start
<1>8. ASSUME NEW f \in Fx, Start({f}) \/ CallOff(f) PROVE LeagueKept'
  BY <1>6, <1>8 DEF Start, CallOff
<1>9. ASSUME NEW f, NEW w, TeacherDecides(f, w) \/ \E goals \in [Seat -> Goals] : Record(f, w, goals)
      PROVE  LeagueKept'
  BY <1>2, <1>9 DEF TeacherDecides, Record
<1>10. CASE UNCHANGED vars
  BY <1>6, <1>10 DEF vars, memory
<1> QED
  BY <1>1, <1>3, <1>4, <1>5, <1>7, <1>8, <1>9, <1>10 DEF Next

LEMMA LeagueKeptAlways == Spec => []LeagueKept
<1>1. Init => LeagueKept
  BY DEF Init, LeagueKept
<1>2. CompInv /\ LeagueKept /\ [Next]_vars => LeagueKept'
  BY LeagueKeptNext
<1> QED
  BY <1>1, <1>2, CompetitionCorrect, PTL DEF Spec

LEMMA KeptIsRoundRobin ==
    ASSUME CompInv, LeagueKept PROVE RoundRobin
<1> SUFFICES ASSUME type = "league" PROVE RoundRobin
  BY DEF RoundRobin
<1>0. PICK q \in Leagues : \E gr \in Groupings(q) : group = gr /\ sits = SidesOf(q, gr)
  BY DEF LeagueKept
<1>1. PICK gr \in Groupings(q) : group = gr /\ sits = SidesOf(q, gr)
  BY <1>0
<1>2. Fx = DOMAIN SidesOf(q, gr) /\ Entrant = DOMAIN gr
  BY <1>1 DEF CompInv, TypeOK, Entrant
<1>3. \A e : {f \in Fx : Plays(e, f)} = PlayedBy(q, gr, e)
  BY <1>1, <1>2 DEF Plays, PlayedBy
<1>4. ASSUME NEW d \in Entrant, NEW e \in Entrant, d < e
      PROVE  Cardinality({f \in Fx : Plays(d, f) /\ Plays(e, f)}) = IF group[d] = group[e] THEN 1 ELSE 0
  <2>1. {f \in Fx : Plays(d, f) /\ Plays(e, f)} = PlayedBy(q, gr, d) \cap PlayedBy(q, gr, e)
    BY <1>3
  <2>2. CASE gr[d] = gr[e]
    <3>1. d # e
      BY <1>4 DEF CompInv, Shape
    <3>2. MeetOnce(q, gr, d, e)
      BY <1>2, <2>2, <3>1, OneMatch
    <3>3. PICK f : PlayedBy(q, gr, d) \cap PlayedBy(q, gr, e) = {f}
      BY <3>2 DEF MeetOnce
    <3>4. Cardinality({f}) = 1
      BY FS_Singleton
    <3> QED
      BY <1>1, <2>1, <2>2, <3>3, <3>4
  <2>3. CASE gr[d] # gr[e]
    <3>1. PlayedBy(q, gr, d) \cap PlayedBy(q, gr, e) = {}
      BY <1>2, <2>3, SameGroup
    <3> QED
      BY <1>1, <2>1, <2>3, <3>1, FS_EmptySet
  <2> QED
    BY <2>2, <2>3
<1>5. ASSUME NEW f \in Fx, NEW g \in Fx, f # g, f[2] = g[2]
      PROVE  {sits[f][s] : s \in Seat} \cap {sits[g][s] : s \in Seat} = {}
  <2> SUFFICES ASSUME NEW e, \E s \in Seat : sits[f][s] = e, \E s \in Seat : sits[g][s] = e
               PROVE  FALSE
    OBVIOUS
  <2>1. f \in PlayedBy(q, gr, e) /\ g \in PlayedBy(q, gr, e)
    BY <1>1, <1>2 DEF PlayedBy
  <2>2. SidesOf(q, gr)[f] \in [Seat -> 0..(q.count - 1)]
    BY <1>2, LeagueSits
  <2>3. gr \in [0..(q.count - 1) -> 0..(q.groups - 1)]
    BY GroupingsType
  <2>4. e \in DOMAIN gr
    BY <1>1, <2>2, <2>3
  <2> QED
    BY <1>5, <2>1, <2>4, OneAtATime
<1>6. ASSUME NEW e \in Entrant
      PROVE  Cardinality({f \in Fx : Plays(e, f)}) = Size(group, group[e]) - 1
  BY <1>1, <1>2, <1>3, MatchesOf
<1> QED
  BY <1>4, <1>5, <1>6 DEF RoundRobin

(* RoundRobin for every number of entrants, every number of groups, dealt   *)
(* out or made by the teacher, and whatever was played, decided, taken back *)
(* and loaded since (comp.go:87-197).                                       *)
THEOREM EverybodyMeets == Spec => []RoundRobin
<1>1. CompInv /\ LeagueKept => RoundRobin
  BY KeptIsRoundRobin
<1> QED
  BY <1>1, CompetitionCorrect, LeagueKeptAlways, PTL

-----------------------------------------------------------------------------
(* The table *)

(* The goals of a student: SumFunction runs through a finite set one by one, *)
(* so there is a function as its recursion asks for, and its values are      *)
(* integers; otherwise there is a least size of a set for which it fails.    *)
LEMMA SumIsInt ==
    ASSUME NEW S, IsFiniteSet(S), NEW g \in [S -> Int]
    PROVE  SumFunction(g) \in Int
<1> DEFINE first(s) == CHOOSE x \in s : TRUE
           rest(s) == s \ {first(s)}
           Body(h, s) == IF s = {} THEN 0 ELSE g[first(s)] + h[rest(s)]
           Works(n, h) == \A s \in SUBSET S : Cardinality(s) < n => h[s] = Body(h, s)
<1>1. \A s \in SUBSET S : IsFiniteSet(s) /\ Cardinality(s) \in Nat
  BY FS_Subset, FS_CardinalityType
<1>2. ASSUME NEW s \in SUBSET S, s # {}
      PROVE  first(s) \in S /\ rest(s) \in SUBSET S /\ Cardinality(rest(s)) = Cardinality(s) - 1
  <2>1. first(s) \in s
    BY <1>2
  <2> HIDE DEF first
  <2> QED
    BY <1>1, <2>1, FS_RemoveElement
<1> HIDE DEF first, rest
<1>3. ASSUME NEW n \in Nat, \E h : Works(n, h)
      PROVE  \E h : Works(n + 1, h)
  <2>1. PICK h : Works(n, h)
    BY <1>3
  <2> DEFINE k == [s \in SUBSET S |-> IF Cardinality(s) < n THEN h[s] ELSE Body(h, s)]
  <2>2. ASSUME NEW s \in SUBSET S, Cardinality(s) < n + 1
        PROVE  k[s] = Body(k, s)
    <3>1. k[s] = Body(h, s)
      BY <2>1
    <3>2. CASE s = {}
      BY <3>1, <3>2
    <3>3. CASE s # {}
      <4>1. rest(s) \in SUBSET S /\ Cardinality(rest(s)) < n
        BY <1>1, <1>2, <2>2, <3>3
      <4>2. k[rest(s)] = h[rest(s)]
        BY <4>1
      <4> QED
        BY <3>1, <3>3, <4>2
    <3> QED
      BY <3>2, <3>3
  <2> QED
    BY <2>2
<1>4. \A n \in Nat : \E h : Works(n, h)
  <2> DEFINE Bad == {n \in Nat : ~(\E h : Works(n, h))}
  <2> SUFFICES ASSUME Bad # {} PROVE FALSE
    OBVIOUS
  <2>1. PICK n \in Bad : \A m \in Bad : n <= m
    BY Least
  <2>2. n # 0
    <3>1. Works(0, [s \in SUBSET S |-> 0])
      <4>1. \A s \in SUBSET S : ~(Cardinality(s) < 0)
        BY <1>1
      <4> QED
        BY <4>1
    <3> QED
      BY <2>1, <3>1
  <2>3. PICK m \in Nat : n = m + 1
    BY <2>1, <2>2
  <2>4. m \notin Bad
    BY <2>1, <2>3
  <2>5. \E h : Works(n, h)
    <3> HIDE DEF Works
    <3> QED
      BY <1>3, <2>3, <2>4
  <2> QED
    BY <2>1, <2>5
<1>5. \E k : k = [s \in SUBSET S |-> Body(k, s)]
  <2>1. Cardinality(S) + 1 \in Nat /\ \A s \in SUBSET S : Cardinality(s) < Cardinality(S) + 1
    <3>1. \A s \in SUBSET S : Cardinality(s) <= Cardinality(S)
      BY FS_Subset
    <3> QED
      BY <1>1, <3>1
  <2>2. PICK h : Works(Cardinality(S) + 1, h)
    BY <1>4, <2>1
  <2> DEFINE k == [s \in SUBSET S |-> h[s]]
  <2>3. \A s \in SUBSET S : h[s] = Body(h, s) /\ Body(h, s) = Body(k, s)
    BY <1>2, <2>1, <2>2
  <2>4. k = [s \in SUBSET S |-> Body(k, s)]
    BY <2>3
  <2> QED
    BY <2>4
<1> DEFINE iter == CHOOSE k : k = [s \in SUBSET S |-> Body(k, s)]
<1>6. iter = [s \in SUBSET S |-> Body(iter, s)]
  BY <1>5
<1>7. SumFunction(g) = iter[S]
  <2>1. DOMAIN g = S
    OBVIOUS
  <2> QED
    BY <2>1 DEF SumFunction, SumFunctionOnSet, FoldFunctionOnSet, MapThenFoldSet, first, rest
<1> HIDE DEF iter
<1>8. \A s \in SUBSET S : iter[s] \in Int
  <2> DEFINE Bad == {n \in Nat : \E s \in SUBSET S : Cardinality(s) = n /\ iter[s] \notin Int}
  <2> SUFFICES ASSUME Bad # {} PROVE FALSE
    BY <1>1
  <2>1. PICK n \in Bad : \A m \in Bad : n <= m
    BY Least
  <2>2. PICK s \in SUBSET S : Cardinality(s) = n /\ iter[s] \notin Int
    BY <2>1
  <2>3. iter[s] = Body(iter, s)
    BY <1>6
  <2>4. s # {}
    BY <2>2, <2>3
  <2>5. first(s) \in S /\ rest(s) \in SUBSET S /\ Cardinality(rest(s)) = n - 1 /\ n \in Nat
    BY <1>2, <2>1, <2>2, <2>4
  <2>6. Cardinality(rest(s)) \in Nat /\ Cardinality(rest(s)) \notin Bad
    BY <1>1, <2>1, <2>5
  <2>7. iter[rest(s)] \in Int /\ g[first(s)] \in Int
    BY <2>5, <2>6
  <2> QED
    BY <2>2, <2>3, <2>4, <2>7
<1> QED
  BY <1>7, <1>8

(* A line is what LineOf makes. *)
IsLine(x) ==
    /\ x.entrant \in Nat /\ x.group \in Nat
    /\ x.points \in Int /\ x.gf \in Int /\ x.ga \in Int

(* Less orders the lines but for ties, and Precedes breaks them all. *)
LEMMA LessOrders ==
    ASSUME NEW x, NEW y, NEW z, IsLine(x), IsLine(y), IsLine(z)
    PROVE  /\ ~Less(x, x)
           /\ Less(x, y) => ~Less(y, x)
           /\ Less(x, y) /\ Less(y, z) => Less(x, z)
           /\ Less(x, z) => Less(x, y) \/ Less(y, z)
BY DEF IsLine, Less

LEMMA PrecedesOrders ==
    ASSUME NEW x, NEW y, NEW z, IsLine(x), IsLine(y), IsLine(z)
    PROVE  /\ ~Precedes(x, x)
           /\ x.entrant # y.entrant => Precedes(x, y) \/ Precedes(y, x)
           /\ Precedes(x, y) /\ Precedes(y, z) => Precedes(x, z)
<1>1. ~Precedes(x, x)
  BY LessOrders DEF IsLine, Precedes
<1>2. x.entrant # y.entrant => Precedes(x, y) \/ Precedes(y, x)
  BY DEF IsLine, Precedes
<1>3. ASSUME Precedes(x, y), Precedes(y, z) PROVE Precedes(x, z)
  <2>1. CASE x.group = y.group /\ y.group = z.group
    <3>1. /\ Less(x, y) \/ (~Less(y, x) /\ x.entrant < y.entrant)
          /\ Less(y, z) \/ (~Less(z, y) /\ y.entrant < z.entrant)
      BY <1>3, <2>1 DEF Precedes
    <3>2. Less(x, z) \/ (~Less(z, x) /\ x.entrant < z.entrant)
      <4>1. /\ Less(x, y) /\ Less(y, z) => Less(x, z)
            /\ Less(x, y) => Less(x, z) \/ Less(z, y)
            /\ Less(y, z) => Less(y, x) \/ Less(x, z)
            /\ Less(z, x) => Less(z, y) \/ Less(y, x)
        BY LessOrders
      <4>2. x.entrant < y.entrant /\ y.entrant < z.entrant => x.entrant < z.entrant
        BY DEF IsLine
      <4>3. /\ Less(x, y) => ~Less(y, x)
            /\ Less(y, z) => ~Less(z, y)
        BY LessOrders
      <4> QED
        BY <3>1, <4>1, <4>2, <4>3, Zenon
    <3> QED
      BY <2>1, <3>2 DEF Precedes
  <2>2. CASE ~(x.group = y.group /\ y.group = z.group)
    BY <1>3, <2>2 DEF IsLine, Precedes
  <2> QED
    BY <2>1, <2>2
<1> QED
  BY <1>1, <1>2, <1>3

(* A table: lines one above the other. *)
IsTable(table, n) ==
    /\ DOMAIN table = 1..n
    /\ \A i \in 1..n : IsLine(table[i])
    /\ \A i, j \in 1..n : i < j => Precedes(table[i], table[j])

(* The lines of the same group that come before, and those that are better. *)
Before(table, n, i) == {j \in 1..n : table[j].group = table[i].group /\ j < i}
Better(table, n, i) == {j \in 1..n : table[j].group = table[i].group /\ Less(table[j], table[i])}

(* The recursion in Ranks goes up line by line. *)
FirstOf(table, i) == i = 1 \/ table[i - 1].group # table[i].group

RankStep(table, h, i) ==
    IF FirstOf(table, i) THEN [pos |-> 1, rank |-> 1]
    ELSE [pos  |-> h[i - 1].pos + 1,
          rank |-> IF Less(table[i - 1], table[i]) THEN h[i - 1].pos + 1 ELSE h[i - 1].rank]

LEMMA RankByRank ==
    ASSUME NEW n \in Nat, NEW table, DOMAIN table = 1..n
    PROVE  \E at : /\ \A i \in 1..n : at[i] = RankStep(table, at, i)
                   /\ Ranks(table) = [i \in 1..n |-> at[i].rank]
<1> DEFINE Step(h, i) == RankStep(table, h, i)
           Works(m, h) == \A i \in 1..m : h[i] = Step(h, i)
           at == CHOOSE h : h = [i \in DOMAIN table |-> Step(h, i)]
<1>1. Ranks(table) = [i \in 1..n |-> at[i].rank]
  BY DEF Ranks, RankStep, FirstOf
<1>2. \A h, k, i : (i = 1 \/ h[i - 1] = k[i - 1]) => Step(h, i) = Step(k, i)
  BY DEF RankStep, FirstOf
<1> HIDE DEF Step
<1>3. ASSUME NEW m \in Nat, \E h : Works(m, h)
      PROVE  \E h : Works(m + 1, h)
  <2>1. PICK h : Works(m, h)
    BY <1>3
  <2> DEFINE k == [i \in 1..(m + 1) |-> IF i <= m THEN h[i] ELSE Step(h, i)]
  <2>2. ASSUME NEW i \in 1..(m + 1) PROVE k[i] = Step(k, i)
    <3>1. k[i] = Step(h, i)
      BY <2>1
    <3>2. i = 1 \/ h[i - 1] = k[i - 1]
      OBVIOUS
    <3> HIDE DEF k
    <3> QED
      BY <1>2, <3>1, <3>2
  <2> QED
    BY <2>2
<1>4. \E h : Works(n, h)
  <2> DEFINE Bad == {m \in Nat : ~(\E h : Works(m, h))}
  <2> SUFFICES ASSUME Bad # {} PROVE FALSE
    OBVIOUS
  <2>1. PICK m \in Bad : \A l \in Bad : m <= l
    BY Least
  <2>2. m # 0
    <3>1. Works(0, <<>>)
      OBVIOUS
    <3> QED
      BY <2>1, <3>1
  <2>3. PICK l \in Nat : m = l + 1
    BY <2>1, <2>2
  <2>4. l \notin Bad
    BY <2>1, <2>3
  <2>5. \E h : Works(m, h)
    <3> HIDE DEF Works
    <3> QED
      BY <1>3, <2>3, <2>4
  <2> QED
    BY <2>1, <2>5
<1>5. \E h : h = [i \in DOMAIN table |-> Step(h, i)]
  <2>1. PICK h : Works(n, h)
    BY <1>4
  <2> DEFINE k == [i \in 1..n |-> h[i]]
  <2>2. ASSUME NEW i \in 1..n PROVE h[i] = Step(k, i)
    <3>1. i = 1 \/ h[i - 1] = k[i - 1]
      OBVIOUS
    <3> HIDE DEF k
    <3> QED
      BY <1>2, <2>1, <3>1
  <2>3. k = [i \in DOMAIN table |-> Step(k, i)]
    BY <2>2
  <2> QED
    BY <2>3
<1>6. at = [i \in DOMAIN table |-> Step(at, i)]
  BY <1>5
<1> HIDE DEF at
<1>7. \A i \in 1..n : at[i] = Step(at, i)
  BY <1>6
<1> QED
  BY <1>1, <1>7 DEF Step

(* The line before is the nearest one above. *)
LEMMA OneMoreBefore ==
    ASSUME NEW n \in Nat, NEW table, IsTable(table, n), NEW i \in 1..n
    PROVE  /\ i = 1 \/ table[i - 1].group # table[i].group =>
                Before(table, n, i) = {} /\ Better(table, n, i) = {}
           /\ i # 1 /\ table[i - 1].group = table[i].group =>
                /\ Before(table, n, i) = Before(table, n, i - 1) \cup {i - 1}
                /\ i - 1 \notin Before(table, n, i - 1)
                /\ Better(table, n, i) = IF Less(table[i - 1], table[i]) THEN Before(table, n, i)
                                         ELSE Better(table, n, i - 1)
<1>1. \A j \in 1..n : IsLine(table[j]) /\ table[j].group \in Nat
  BY DEF IsTable, IsLine
<1>2. \A j \in 1..n : i \in Nat /\ j \in Nat
  OBVIOUS
<1>3. Better(table, n, i) \subseteq Before(table, n, i)
  <2> SUFFICES ASSUME NEW j \in 1..n, table[j].group = table[i].group, Less(table[j], table[i])
               PROVE  j < i
    BY DEF Better, Before
  <2>1. j # i
    BY <1>1, LessOrders
  <2>2. ~(i < j)
    <3> SUFFICES ASSUME i < j PROVE FALSE
      OBVIOUS
    <3>1. Precedes(table[i], table[j])
      BY DEF IsTable
    <3>2. Less(table[i], table[j]) \/ ~Less(table[j], table[i])
      BY <3>1 DEF Precedes
    <3> QED
      BY <1>1, <3>2, LessOrders
  <2> QED
    BY <1>2, <2>1, <2>2
<1>4. CASE i = 1
  <2>1. Before(table, n, i) = {}
    BY <1>4 DEF Before
  <2> QED
    BY <1>3, <1>4, <2>1
<1>5. CASE i # 1
  <2>1. i - 1 \in 1..n /\ i - 1 < i
    BY <1>5
  <2>2. PICK p \in 1..n : p = i - 1 /\ p < i
    BY <2>1
  <2>3. Precedes(table[p], table[i])
    BY <2>2 DEF IsTable
  <2>4. \A j \in 1..n : j < i <=> j < p \/ j = p
    BY <1>2, <2>2
  <2>5. \A j \in 1..n : j < p => Precedes(table[j], table[p])
    BY DEF IsTable
  <2>6. CASE table[p].group # table[i].group
    <3>1. table[p].group < table[i].group
      BY <2>3, <2>6 DEF Precedes
    <3>2. \A j \in 1..n : j < p => table[j].group <= table[p].group
      BY <1>1, <2>5 DEF Precedes
    <3>3. \A j \in 1..n : j < i => table[j].group # table[i].group
      BY <1>1, <2>4, <3>1, <3>2
    <3>4. Before(table, n, i) = {}
      BY <3>3 DEF Before
    <3> QED
      BY <1>3, <1>5, <2>2, <2>6, <3>4
  <2>7. CASE table[p].group = table[i].group
    <3>1. Before(table, n, i) = Before(table, n, p) \cup {p} /\ p \notin Before(table, n, p)
      BY <2>2, <2>4, <2>7 DEF Before
    <3>2. \A j \in Before(table, n, p) : ~Less(table[p], table[j])
      <4>1. \A j \in Before(table, n, p) : j \in 1..n /\ Precedes(table[j], table[p])
                                           /\ table[j].group = table[p].group
        BY <2>5 DEF Before
      <4> QED
        BY <1>1, <4>1, LessOrders DEF Precedes
    <3>3. CASE Less(table[p], table[i])
      <4>1. \A j \in Before(table, n, i) : Less(table[j], table[i])
        <5>1. \A j \in Before(table, n, p) : j \in 1..n
          BY DEF Before
        <5> QED
          BY <1>1, <3>1, <3>2, <3>3, <5>1, LessOrders
      <4>2. Before(table, n, i) \subseteq Better(table, n, i)
        BY <4>1 DEF Before, Better
      <4> QED
        BY <1>3, <1>5, <2>2, <2>7, <3>1, <3>3, <4>2
    <3>4. CASE ~Less(table[p], table[i])
      <4>1. ~Less(table[i], table[p])
        BY <2>3, <2>7, <3>4 DEF Precedes
      <4>2. \A j \in 1..n : Less(table[j], table[i]) <=> Less(table[j], table[p])
        BY <1>1, <3>4, <4>1, LessOrders
      <4>3. Better(table, n, i) = Better(table, n, p)
        BY <2>7, <4>2 DEF Better
      <4> QED
        BY <1>5, <2>2, <2>7, <3>1, <3>4, <4>3
    <3> QED
      BY <3>3, <3>4
  <2> QED
    BY <2>6, <2>7
<1> QED
  BY <1>4, <1>5

(* The rank beside a line is one more than the number of better lines: if    *)
(* not, there is a first line at which the walk of Ranks goes wrong.         *)
LEMMA RanksCount ==
    ASSUME NEW n \in Nat, NEW table, IsTable(table, n), NEW i \in 1..n
    PROVE  Ranks(table)[i] = 1 + Cardinality(Better(table, n, i))
<1>1. DOMAIN table = 1..n
  BY DEF IsTable
<1>2. PICK at : (\A l \in 1..n : at[l] = RankStep(table, at, l)) /\ Ranks(table) = [l \in 1..n |-> at[l].rank]
  BY <1>1, RankByRank
<1>3. \A l \in 1..n : /\ IsFiniteSet(Before(table, n, l)) /\ Cardinality(Before(table, n, l)) \in Nat
                      /\ IsFiniteSet(Better(table, n, l)) /\ Cardinality(Better(table, n, l)) \in Nat
  <2>1. IsFiniteSet(1..n)
    BY FS_Interval
  <2>2. \A l : Before(table, n, l) \subseteq 1..n /\ Better(table, n, l) \subseteq 1..n
    BY DEF Before, Better
  <2> QED
    BY <2>1, <2>2, FS_Subset, FS_CardinalityType
<1> DEFINE Right(l) == /\ at[l].pos = 1 + Cardinality(Before(table, n, l))
                       /\ at[l].rank = 1 + Cardinality(Better(table, n, l))
           Bad == {l \in 1..n : ~Right(l)}
<1>4. ASSUME NEW l \in 1..n, FirstOf(table, l) PROVE Right(l)
  <2>1. at[l].pos = 1 /\ at[l].rank = 1
    <3>1. at[l] = RankStep(table, at, l)
      BY <1>2
    <3>2. at[l] = [pos |-> 1, rank |-> 1]
      BY <1>4, <3>1 DEF RankStep
    <3> QED
      BY <3>2
  <2>2. Before(table, n, l) = {} /\ Better(table, n, l) = {}
    BY <1>4, OneMoreBefore DEF FirstOf
  <2> QED
    BY <2>1, <2>2, FS_EmptySet
<1>5. ASSUME NEW l \in 1..n, ~FirstOf(table, l), Right(l - 1) PROVE Right(l)
  <2>1. PICK p \in 1..n : p = l - 1
    BY <1>5 DEF FirstOf
  <2>2. /\ at[l].pos = at[p].pos + 1
        /\ at[l].rank = IF Less(table[p], table[l]) THEN at[p].pos + 1 ELSE at[p].rank
    <3>1. at[l] = RankStep(table, at, l)
      BY <1>2
    <3>2. at[l] = [pos  |-> at[p].pos + 1,
                   rank |-> IF Less(table[p], table[l]) THEN at[p].pos + 1 ELSE at[p].rank]
      BY <1>5, <2>1, <3>1 DEF RankStep
    <3> QED
      BY <3>2
  <2>3. /\ Before(table, n, l) = Before(table, n, p) \cup {p}
        /\ p \notin Before(table, n, p)
        /\ Better(table, n, l) = IF Less(table[p], table[l]) THEN Before(table, n, l)
                                 ELSE Better(table, n, p)
    BY <1>5, <2>1, OneMoreBefore DEF FirstOf
  <2>4. Cardinality(Before(table, n, l)) = Cardinality(Before(table, n, p)) + 1
    BY <1>3, <2>3, FS_AddElement
  <2>5. Right(p)
    BY <1>5, <2>1
  <2> QED
    BY <1>3, <2>2, <2>3, <2>4, <2>5
<1> HIDE DEF Right
<1>6. Bad = {}
  <2> SUFFICES ASSUME Bad # {} PROVE FALSE
    OBVIOUS
  <2>1. Bad \in SUBSET Nat
    OBVIOUS
  <2>2. PICK l \in Bad : \A m \in Bad : l <= m
    BY <2>1, Least
  <2>3. l \in 1..n /\ ~Right(l) /\ ~FirstOf(table, l)
    BY <1>4, <2>2
  <2>4. l # 1
    BY <2>3 DEF FirstOf
  <2>5. l - 1 \in 1..n /\ l - 1 \notin Bad
    BY <2>2, <2>3, <2>4
  <2> QED
    BY <1>5, <2>3, <2>5
<1> QED
  BY <1>2, <1>6 DEF Right

(* Each line has the place after all that are above it, and so all places    *)
(* are taken, once; the table has the lines at their places.                 *)
PlaceIn(S, line) == [e \in S |-> 1 + Cardinality({d \in S : Precedes(line[d], line[e])})]

Places(S, line, place, n) ==
    /\ \A e \in S : IsLine(line[e]) /\ place[e] \in 1..n
    /\ \A d, e \in S : place[d] < place[e] => Precedes(line[d], line[e])
    /\ \A d, e \in S : place[d] = place[e] => d = e
    /\ \A i \in 1..n : \E e \in S : place[e] = i

LEMMA PlacesTaken ==
    ASSUME NEW S, IsFiniteSet(S), NEW line,
           \A e \in S : IsLine(line[e]) /\ line[e].entrant = e,
           NEW place, place = PlaceIn(S, line), NEW n, n = Cardinality(S)
    PROVE  n \in Nat /\ Places(S, line, place, n)
<1> DEFINE Upper(e) == {d \in S : Precedes(line[d], line[e])}
<1>1. n \in Nat /\ \A e \in S : /\ IsFiniteSet(Upper(e)) /\ Cardinality(Upper(e)) \in Nat
                                /\ place[e] = 1 + Cardinality(Upper(e))
  BY FS_Subset, FS_CardinalityType DEF PlaceIn
<1>2. ASSUME NEW d \in S, NEW e \in S, Precedes(line[d], line[e])
      PROVE  place[d] < place[e]
  <2>1. d \notin Upper(d) /\ Upper(d) \cup {d} \subseteq Upper(e)
    BY <1>2, PrecedesOrders
  <2>2. Cardinality(Upper(d) \cup {d}) = Cardinality(Upper(d)) + 1
    BY <1>1, <2>1, FS_AddElement
  <2>3. Cardinality(Upper(d) \cup {d}) <= Cardinality(Upper(e))
    BY <1>1, <2>1, FS_Subset
  <2> HIDE DEF Upper
  <2> QED
    BY <1>1, <2>2, <2>3
<1>3. ASSUME NEW e \in S PROVE place[e] \in 1..n
  <2>1. e \notin Upper(e)
    BY PrecedesOrders
  <2>2. Cardinality(Upper(e) \cup {e}) = Cardinality(Upper(e)) + 1
    BY <1>1, <2>1, FS_AddElement
  <2>3. Cardinality(Upper(e) \cup {e}) <= n
    BY FS_Subset
  <2> HIDE DEF Upper
  <2> QED
    BY <1>1, <2>2, <2>3
<1>4. ASSUME NEW d \in S, NEW e \in S, d # e
      PROVE  Precedes(line[d], line[e]) \/ Precedes(line[e], line[d])
  BY <1>4, PrecedesOrders
<1>5. \A e \in S : place[e] \in Nat
  BY <1>3
<1>6. \A d, e \in S : place[d] = place[e] => d = e
  <2> SUFFICES ASSUME NEW d \in S, NEW e \in S, d # e, place[d] = place[e] PROVE FALSE
    OBVIOUS
  <2>1. place[d] < place[e] \/ place[e] < place[d]
    BY <1>2, <1>4
  <2> QED
    BY <1>5, <2>1
<1>7. \A i \in 1..n : \E e \in S : place[e] = i
  <2>1. place \in Injection(S, 1..n)
    <3>1. place \in [S -> 1..n]
      BY <1>3 DEF PlaceIn
    <3> QED
      BY <1>6, <3>1 DEF Injection, IsInjective
  <2>2. IsFiniteSet(1..n) /\ Cardinality(1..n) = n
    BY <1>1, FS_Interval
  <2>3. place \in Surjection(S, 1..n)
    BY <2>1, <2>2, FS_Injection
  <2> QED
    BY <2>3 DEF Surjection
<1>8. \A d, e \in S : place[d] < place[e] => Precedes(line[d], line[e])
  <2> SUFFICES ASSUME NEW d \in S, NEW e \in S, place[d] < place[e] PROVE Precedes(line[d], line[e])
    OBVIOUS
  <2>1. d # e /\ ~(place[e] < place[d])
    <3>1. \A a, b \in Nat : a < b => a # b /\ ~(b < a)
      OBVIOUS
    <3> QED
      BY <1>5, <3>1, Zenon
  <2> QED
    BY <1>2, <1>4, <2>1
<1> HIDE DEF Upper
<1> QED
  BY <1>1, <1>3, <1>6, <1>7, <1>8 DEF Places

LEMMA TableOrdered ==
    ASSUME NEW n \in Nat, NEW S, NEW line, NEW place, Places(S, line, place, n),
           NEW table, DOMAIN table = 1..n,
           \A i \in 1..n : \E e \in S : place[e] = i /\ table[i] = line[e]
    PROVE  /\ IsTable(table, n)
           /\ \A e \in S : table[place[e]] = line[e]
<1>1. ASSUME NEW i \in 1..n, NEW j \in 1..n, i < j PROVE Precedes(table[i], table[j])
  <2>1. PICK d \in S : place[d] = i /\ table[i] = line[d]
    BY DEF Places
  <2>2. PICK e \in S : place[e] = j /\ table[j] = line[e]
    BY DEF Places
  <2> QED
    BY <1>1, <2>1, <2>2 DEF Places
<1>2. \A i \in 1..n : IsLine(table[i])
  BY DEF Places
<1>3. \A e \in S : table[place[e]] = line[e]
  BY DEF Places
<1> QED
  BY <1>1, <1>2, <1>3 DEF IsTable
(* What LineOf makes of a league is a line. *)
LEMMA LinesAre ==
    ASSUME CompInv, LeagueKept, type = "league", NEW e \in Entrant
    PROVE  IsLine(LineOf(e)) /\ LineOf(e).entrant = e /\ LineOf(e).group = group[e]
<1> DEFINE own(f) == IF sits[f][0] = e THEN 0 ELSE 1
           gf == [f \in DoneBy(e) |-> result[f].goals[own(f)]]
           ga == [f \in DoneBy(e) |-> result[f].goals[1 - own(f)]]
<1>1. IsFiniteSet(DoneBy(e)) /\ DoneBy(e) \subseteq Fx
  <2>1. PICK q \in Leagues : \E gr \in Groupings(q) : group = gr /\ sits = SidesOf(q, gr)
    BY DEF LeagueKept
  <2>2. PICK gr \in Groupings(q) : group = gr /\ sits = SidesOf(q, gr)
    BY <2>1
  <2>3. Fx = DOMAIN SidesOf(q, gr) /\ e \in DOMAIN gr
    BY <2>2 DEF CompInv, TypeOK, Entrant
  <2>4. DoneBy(e) \subseteq PlayedBy(q, gr, e)
    BY <2>2, <2>3 DEF DoneBy, Plays, PlayedBy
  <2>5. IsFiniteSet(PlayedBy(q, gr, e))
    BY <2>3, MatchesOf
  <2> QED
    BY <2>4, <2>5, FS_Subset DEF DoneBy
<1>2. /\ Cardinality(WonBy(e)) \in Nat
      /\ Cardinality(DrawnBy(e)) \in Nat
  <2>1. WonBy(e) \subseteq DoneBy(e) /\ DrawnBy(e) \subseteq DoneBy(e)
    BY DEF WonBy, DrawnBy
  <2> QED
    BY <1>1, <2>1, FS_Subset, FS_CardinalityType
<1>3. gf \in [DoneBy(e) -> Int] /\ ga \in [DoneBy(e) -> Int]
  <2>1. \A f : own(f) \in Seat /\ 1 - own(f) \in Seat
    BY DEF Seat
  <2>2. \A f \in Fx : \A s \in Seat : result[f].goals[s] \in Int
    BY CompetitionAssumption DEF CompInv, TypeOK
  <2> HIDE DEF own
  <2> QED
    BY <1>1, <2>1, <2>2
<1>4. SumFunction(gf) \in Int /\ SumFunction(ga) \in Int
  <2> HIDE DEF gf, ga
  <2> QED
    BY <1>1, <1>3, SumIsInt
<1>5. LineOf(e) = [entrant |-> e, group |-> group[e],
                   points |-> 3 * Cardinality(WonBy(e)) + Cardinality(DrawnBy(e)),
                   gf |-> SumFunction(gf), ga |-> SumFunction(ga)]
  BY DEF LineOf
<1>6. e \in Nat /\ group[e] \in Nat
  BY DEF CompInv, TypeOK, Shape
<1> HIDE DEF gf, ga
<1> QED
  BY <1>2, <1>4, <1>5, <1>6 DEF IsLine

LEMMA KeptRanksFair ==
    ASSUME CompInv, LeagueKept PROVE RanksFair
<1> DEFINE line  == [e \in Entrant |-> LineOf(e)]
           place == [e \in Entrant |-> 1 + Cardinality({d \in Entrant : Precedes(line[d], line[e])})]
           n     == Cardinality(Entrant)
           table == [i \in 1..n |-> line[CHOOSE e \in Entrant : place[e] = i]]
           better(x, y) ==
             \/ x.points > y.points
             \/ x.points = y.points /\ x.gf - x.ga > y.gf - y.ga
             \/ x.points = y.points /\ x.gf - x.ga = y.gf - y.ga /\ x.gf > y.gf
<1>1. Table = table
  BY DEF Table
<1> SUFFICES ASSUME type = "league", NEW e \in Entrant
             PROVE  \E i \in DOMAIN table :
                      /\ table[i].entrant = e
                      /\ Ranks(table)[i] = 1 + Cardinality({d \in Entrant : group[d] = group[e]
                                                              /\ better(line[d], line[e])})
  BY <1>1 DEF RanksFair
<1>2. IsFiniteSet(Entrant)
  <2>1. PICK q \in Leagues : \E gr \in Groupings(q) : group = gr
    BY DEF LeagueKept
  <2>2. group \in [0..(q.count - 1) -> 0..(q.groups - 1)] /\ q.count \in 2..64
    BY <2>1, GroupingsType
  <2>3. \A c : c \in 2..64 => 0 \in Int /\ c - 1 \in Int
    OBVIOUS
  <2>4. 0 \in Int /\ q.count - 1 \in Int
    BY <2>2, <2>3, Zenon
  <2>5. IsFiniteSet(0..(q.count - 1))
    BY <2>4, FS_Interval
  <2> QED
    BY <2>2, <2>5 DEF Entrant
<1>3. \A d \in Entrant : IsLine(line[d]) /\ line[d].entrant = d /\ line[d].group = group[d]
  BY LinesAre
<1>4. n \in Nat /\ Places(Entrant, line, place, n)
  <2>1. place = PlaceIn(Entrant, line)
    BY DEF PlaceIn
  <2>2. n = Cardinality(Entrant)
    OBVIOUS
  <2>3. \A d \in Entrant : IsLine(line[d]) /\ line[d].entrant = d
    BY <1>3
  <2> HIDE DEF line, place, n
  <2> QED
    BY <1>2, <2>1, <2>2, <2>3, PlacesTaken
<1>5. DOMAIN table = 1..n /\ \A i \in 1..n : \E d \in Entrant : place[d] = i /\ table[i] = line[d]
  <2> HIDE DEF line, place, n
  <2> QED
    BY <1>4 DEF Places
<1> HIDE DEF line, place, n, table
<1>6. IsTable(table, n) /\ \A d \in Entrant : table[place[d]] = line[d]
  BY <1>4, <1>5, TableOrdered
<1> DEFINE i == place[e]
           D == {d \in Entrant : group[d] = group[e] /\ better(line[d], line[e])}
           f == [d \in D |-> place[d]]
<1>7. i \in DOMAIN table /\ table[i] = line[e]
  BY <1>4, <1>5, <1>6 DEF Places
<1>8. Ranks(table)[i] = 1 + Cardinality(Better(table, n, i))
  BY <1>4, <1>6, RanksCount DEF Places
<1>9. \A d \in Entrant : d \in D <=> place[d] \in Better(table, n, i)
  <2>1. \A d \in Entrant : better(line[d], line[e]) <=> Less(line[d], line[e])
    BY <1>3 DEF IsLine, Less
  <2> HIDE DEF better
  <2> QED
    BY <1>3, <1>4, <1>6, <1>7, <2>1 DEF Better, Places
<1>10. f \in Bijection(D, Better(table, n, i))
  <2>1. f \in [D -> Better(table, n, i)]
    BY <1>9
  <2>2. \A j \in Better(table, n, i) : \E d \in D : f[d] = j
    <3> SUFFICES ASSUME NEW j \in Better(table, n, i) PROVE \E d \in D : f[d] = j
      OBVIOUS
    <3>1. PICK d \in Entrant : place[d] = j
      BY <1>4 DEF Better, Places
    <3>2. d \in D
      BY <1>9, <3>1
    <3> QED
      BY <3>1, <3>2
  <2>3. \A c, d \in D : f[c] = f[d] => c = d
    BY <1>4 DEF Places
  <2> HIDE DEF f, D
  <2> QED
    BY <2>1, <2>2, <2>3 DEF Bijection, Injection, Surjection, IsInjective
<1>11. Cardinality(Better(table, n, i)) = Cardinality(D)
  <2>1. IsFiniteSet(D)
    BY <1>2, FS_Subset
  <2> HIDE DEF D, f
  <2> QED
    BY <1>10, <2>1, FS_Bijection DEF ExistsBijection
<1>12. table[i].entrant = e
  BY <1>3, <1>7
<1> HIDE DEF i
<1> QED
  BY <1>7, <1>8, <1>11, <1>12

(* RanksFair for every league, whatever was played, decided, forfeited and   *)
(* taken back (comp.go:355-415).                                             *)
THEOREM TableFair == Spec => []RanksFair
<1>1. CompInv /\ LeagueKept => RanksFair
  BY KeptRanksFair
<1> QED
  BY <1>1, CompetitionCorrect, LeagueKeptAlways, PTL
=============================================================================
