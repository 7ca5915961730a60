--------------------------- MODULE KnockoutProofs ---------------------------
(***************************************************************************)
(* One defeat and out, for every bracket and every order of results        *)
(* (Knockout of Competition).                                              *)
(*                                                                         *)
(* An entrant is drawn into one seat of the first round (Drawn) and comes  *)
(* into a later one only by winning the fixture that leads there (Fed), so *)
(* there is one fixture of the entrant in each round up to a last one, and *)
(* all but the last are won.  What becomes of the last one decides whether *)
(* the entrant goes on, is out, or is the champion.                        *)
(***************************************************************************)
EXTENDS CompetitionProofs

(* The first round has a seat for every entrant and only one; the last one  *)
(* is the final.                                                            *)
Drawn ==
    Knockouts =>
      /\ \A e \in Entrant : \E f \in Fx : f[2] = 0 /\ Plays(e, f)
      /\ \A f, g \in Fx : f[2] = 0 /\ g[2] = 0 =>
           \A s, t \in Seat : sits[f][s] = sits[g][t] /\ sits[f][s] \in Entrant => f = g /\ s = t
      /\ <<0, rounds - 1, 0>> \in Fx
      /\ \A f \in Fx : f[2] = rounds - 1 => f = <<0, rounds - 1, 0>>

-----------------------------------------------------------------------------
(* The draw *)

(* The pairs of the first round hold every entrant once. *)
LEMMA PairsHoldAll ==
    ASSUME NEW k \in 2..64
    PROVE  LET slots == 0..(BracketSize(k) \div 2 - 1)
           IN  /\ \A e \in 0..(k - 1) : \E j \in slots : \E s \in Seat : Pair(k, j)[s] = e
               /\ \A i, j \in slots : \A s, t \in Seat :
                    Pair(k, i)[s] = Pair(k, j)[t] /\ Pair(k, i)[s] \in 0..(k - 1) => i = j /\ s = t
<1> DEFINE size == BracketSize(k)
           byes == size - k
           slots == 0..(size \div 2 - 1)
<1>1. /\ size >= k /\ size \div 2 < k /\ size \in Nat /\ size = 2 * (size \div 2)
      /\ size \div 2 \in Nat
  BY RoundsEnough, Sizes DEF BracketSize
<1>2. \A j : Pair(k, j) = [s \in Seat |-> IF j < byes THEN IF s = 0 THEN j ELSE Bye
                                           ELSE byes + 2 * (j - byes) + s]
  BY DEF Pair
<1>3. PICK half \in Nat : half = size \div 2 /\ size = 2 * half
  BY <1>1
<1> HIDE DEF size
<1>4. byes \in Nat /\ byes < half /\ slots = 0..(half - 1) /\ k = 2 * half - byes
  BY <1>1, <1>3
<1> HIDE DEF byes, slots
<1>5. ASSUME NEW j \in slots
      PROVE  /\ j < byes => Pair(k, j)[0] = j /\ Pair(k, j)[1] = Bye
             /\ ~(j < byes) => /\ Pair(k, j)[0] = byes + 2 * (j - byes)
                               /\ Pair(k, j)[1] = byes + 2 * (j - byes) + 1
  <2>1. 0 \in Seat /\ 1 \in Seat
    BY DEF Seat
  <2>2. \A s \in Seat : Pair(k, j)[s] = IF j < byes THEN IF s = 0 THEN j ELSE Bye
                                        ELSE byes + 2 * (j - byes) + s
    BY <1>2
  <2>3. j \in Int /\ byes + 2 * (j - byes) \in Int
    BY <1>4
  <2> QED
    BY <2>1, <2>2, <2>3
<1>6. ASSUME NEW e \in 0..(k - 1) PROVE \E j \in slots : \E s \in Seat : Pair(k, j)[s] = e
  <2>1. CASE e < byes
    <3>1. e \in slots
      BY <1>4, <2>1
    <3> QED
      BY <1>5, <2>1, <3>1 DEF Seat
  <2>2. CASE ~(e < byes)
    <3> DEFINE d == e - byes
    <3>1. d \in Nat
      BY <1>4, <2>2
    <3>2. d \div 2 \in Nat /\ (d = 2 * (d \div 2) \/ d = 2 * (d \div 2) + 1)
      <4> HIDE DEF d
      <4> QED
        BY <3>1
    <3>3. PICK m \in Nat : d = 2 * m \/ d = 2 * m + 1
      BY <3>2
    <3>4. byes + m \in slots /\ ~(byes + m < byes) /\ (byes + m) - byes = m
      BY <1>4, <2>2, <3>3
    <3>5. Pair(k, byes + m)[0] = byes + 2 * m /\ Pair(k, byes + m)[1] = byes + 2 * m + 1
      BY <1>5, <3>4
    <3>6. e = byes + 2 * m \/ e = byes + 2 * m + 1
      BY <1>4, <3>3
    <3> QED
      BY <3>4, <3>5, <3>6 DEF Seat
  <2> QED
    BY <2>1, <2>2
<1>7. ASSUME NEW i \in slots, NEW j \in slots, NEW s \in Seat, NEW t \in Seat,
             Pair(k, i)[s] = Pair(k, j)[t], Pair(k, i)[s] \in 0..(k - 1)
      PROVE  i = j /\ s = t
  <2>1. i \in Nat /\ j \in Nat /\ s \in {0, 1} /\ t \in {0, 1}
    BY <1>4 DEF Seat
  <2>2. Bye \notin 0..(k - 1)
    BY DEF Bye
  <2>3. /\ i < byes => Pair(k, i)[0] = i /\ Pair(k, i)[1] = Bye
        /\ ~(i < byes) => /\ Pair(k, i)[0] = byes + 2 * (i - byes)
                          /\ Pair(k, i)[1] = byes + 2 * (i - byes) + 1
    BY <1>5
  <2>4. /\ j < byes => Pair(k, j)[0] = j /\ Pair(k, j)[1] = Bye
        /\ ~(j < byes) => /\ Pair(k, j)[0] = byes + 2 * (j - byes)
                          /\ Pair(k, j)[1] = byes + 2 * (j - byes) + 1
    BY <1>5
  <2>5. CASE i < byes /\ j < byes
    BY <1>7, <2>1, <2>2, <2>3, <2>4, <2>5
  <2>6. CASE i < byes /\ ~(j < byes)
    BY <1>4, <1>7, <2>1, <2>2, <2>3, <2>4, <2>6
  <2>7. CASE ~(i < byes) /\ j < byes
    BY <1>4, <1>7, <2>1, <2>2, <2>3, <2>4, <2>7
  <2>8. CASE ~(i < byes) /\ ~(j < byes)
    <3>1. byes + 2 * (i - byes) + s = byes + 2 * (j - byes) + t
      BY <1>4, <1>7, <2>1, <2>3, <2>4, <2>8
    <3> QED
      BY <1>4, <2>1, <3>1
  <2> QED
    BY <2>5, <2>6, <2>7, <2>8
<1> QED
  BY <1>6, <1>7 DEF slots, size

(* A shuffle leaves out no pair. *)
LEMMA ShuffleOnto ==
    ASSUME NEW k \in 2..64, NEW p \in Shuffles(k)
    PROVE  LET slots == 0..(BracketSize(k) \div 2 - 1)
           IN  /\ p \in [slots -> slots]
               /\ \A i, j \in slots : p[i] = p[j] => i = j
               /\ \A j \in slots : \E i \in slots : p[i] = j
<1> DEFINE slots == 0..(BracketSize(k) \div 2 - 1)
<1>1. p \in [slots -> slots] /\ \A i, j \in slots : p[i] = p[j] => i = j
  BY DEF Shuffles
<1>2. IsFiniteSet(slots)
  <2>1. BracketSize(k) \div 2 \in Nat
    BY RoundsEnough, Sizes DEF BracketSize
  <2>2. 0 \in Int /\ BracketSize(k) \div 2 - 1 \in Int
    BY <2>1
  <2> QED
    BY <2>2, FS_Interval
<1> HIDE DEF slots
<1>3. p \in Injection(slots, slots)
  BY <1>1 DEF Injection, IsInjective
<1>4. p \in Surjection(slots, slots)
  BY <1>2, <1>3, FS_Injection
<1>5. \A j \in slots : \E i \in slots : p[i] = j
  BY <1>4 DEF Surjection
<1> QED
  BY <1>1, <1>5 DEF slots

LEMMA BracketDrawn ==
    ASSUME NEW k \in Counts, NEW p \in Shuffles(k), Create(NewTournament(k, p))
    PROVE  Drawn'
<1> DEFINE sits0 == SitsFor(k, p)
           slots == 0..(BracketSize(k) \div 2 - 1)
           R == RoundsFor(k)
<1>1. k \in 2..64
  BY CompetitionAssumption
<1>2. /\ type' = "tournament" /\ group' = [e \in 0..(k - 1) |-> 0] /\ rounds' = R
      /\ sits' = sits0 /\ DOMAIN status' = FixturesFor(k)
  BY DEF Create, NewTournament, File
<1>3. Fx' = FixturesFor(k) /\ Entrant' = 0..(k - 1)
  BY <1>2 DEF Fx, Entrant
<1>4. /\ \A f \in FixturesFor(k) : f = <<0, f[2], f[3]>> /\ f[2] \in 0..(R - 1)
                                   /\ f[3] \in Nat /\ f[3] < SizeOf[R - f[2]] \div 2
      /\ \A r \in 0..(R - 1), i \in Nat : i < SizeOf[R - r] \div 2 => <<0, r, i>> \in FixturesFor(k)
  BY <1>1, BracketFixtures
<1>5. R \in 1..6 /\ BracketSize(k) = SizeOf[R] /\ BracketSize(k) \div 2 \in Nat
  BY <1>1, RoundsEnough, Sizes DEF BracketSize
<1>6. R - 0 = R /\ R - (R - 1) = 1 /\ 0 \in 0..(R - 1)
  BY <1>5
<1>7. \A i \in slots : <<0, 0, i>> \in FixturesFor(k)
  BY <1>4, <1>5, <1>6
<1>8. \A f \in FixturesFor(k) : f[2] = 0 => f[3] \in slots /\ f = <<0, 0, f[3]>>
  <2> SUFFICES ASSUME NEW f \in FixturesFor(k), f[2] = 0
               PROVE  f[3] \in slots /\ f = <<0, 0, f[3]>>
    OBVIOUS
  <2>1. f = <<0, f[2], f[3]>> /\ f[3] \in Nat /\ f[3] < SizeOf[R - f[2]] \div 2
    BY <1>4
  <2>2. SizeOf[R - f[2]] = BracketSize(k)
    BY <1>5, <1>6
  <2> QED
    BY <1>5, <2>1, <2>2
<1>9. /\ p \in [slots -> slots]
      /\ \A i, j \in slots : p[i] = p[j] => i = j
      /\ \A j \in slots : \E i \in slots : p[i] = j
  BY <1>1, ShuffleOnto
<1>10. /\ \A e \in 0..(k - 1) : \E j \in slots : \E s \in Seat : Pair(k, j)[s] = e
       /\ \A i, j \in slots : \A s, t \in Seat :
            Pair(k, i)[s] = Pair(k, j)[t] /\ Pair(k, i)[s] \in 0..(k - 1) => i = j /\ s = t
  BY <1>1, PairsHoldAll
<1> HIDE DEF slots
<1>11. \A f \in FixturesFor(k) : f[2] = 0 => sits0[f] = Pair(k, p[f[3]]) /\ p[f[3]] \in slots
  <2> SUFFICES ASSUME NEW f \in FixturesFor(k), f[2] = 0
               PROVE  sits0[f] = Pair(k, p[f[3]]) /\ p[f[3]] \in slots
    OBVIOUS
  <2>1. sits0[f] = FirstRound(k, p)[f[3]]
    BY <1>1, BracketSits
  <2>2. f[3] \in slots
    BY <1>8
  <2>3. FirstRound(k, p)[f[3]] = Pair(k, p[f[3]])
    BY <1>9, <2>2 DEF FirstRound
  <2> QED
    BY <1>9, <2>1, <2>2, <2>3
<1> HIDE DEF sits0
<1>12. ASSUME NEW e \in 0..(k - 1)
       PROVE  \E f \in FixturesFor(k) : f[2] = 0 /\ \E s \in Seat : sits0[f][s] = e
  <2>1. PICK j \in slots : \E s \in Seat : Pair(k, j)[s] = e
    BY <1>10
  <2>2. PICK i \in slots : p[i] = j
    BY <1>9
  <2> DEFINE f == <<0, 0, i>>
  <2>3. f \in FixturesFor(k) /\ f[2] = 0 /\ f[3] = i
    BY <1>7
  <2>4. sits0[f] = Pair(k, j)
    BY <1>11, <2>2, <2>3
  <2> QED
    BY <2>1, <2>3, <2>4
<1>13. ASSUME NEW f \in FixturesFor(k), NEW g \in FixturesFor(k), f[2] = 0, g[2] = 0,
              NEW s \in Seat, NEW t \in Seat, sits0[f][s] = sits0[g][t], sits0[f][s] \in 0..(k - 1)
       PROVE  f = g /\ s = t
  <2>1. /\ sits0[f] = Pair(k, p[f[3]]) /\ p[f[3]] \in slots
        /\ sits0[g] = Pair(k, p[g[3]]) /\ p[g[3]] \in slots
    BY <1>11, <1>13
  <2>2. p[f[3]] = p[g[3]] /\ s = t
    BY <1>10, <1>13, <2>1
  <2>3. f[3] = g[3]
    BY <1>8, <1>9, <1>13, <2>2
  <2> QED
    BY <1>8, <1>13, <2>2, <2>3
<1>14. ASSUME NEW f \in FixturesFor(k), f[2] = R - 1 PROVE f = <<0, R - 1, 0>>
  <2>1. f = <<0, f[2], f[3]>> /\ f[3] \in Nat /\ f[3] < SizeOf[1] \div 2
    BY <1>4, <1>6, <1>14
  <2>2. SizeOf[1] \div 2 = 1
    BY DEF SizeOf
  <2>3. f[3] = 0
    BY <2>1, <2>2
  <2> QED
    BY <1>14, <2>1, <2>3
<1>15. <<0, R - 1, 0>> \in FixturesFor(k)
  <2>1. R - 1 \in 0..(R - 1) /\ 0 \in Nat
    BY <1>5
  <2>2. 0 < SizeOf[R - (R - 1)] \div 2
    BY <1>6 DEF SizeOf
  <2> QED
    BY <1>4, <2>1, <2>2
<1> QED
  BY <1>2, <1>3, <1>12, <1>13, <1>14, <1>15 DEF Drawn, Plays

(* Results change no seat of the first round. *)
LEMMA FirstRoundStays ==
    ASSUME Drawn, UNCHANGED <<type, group, rounds>>, Fx' = Fx,
           \A f \in Fx : Knockouts /\ f[2] = 0 => sits'[f] = sits[f]
    PROVE  Drawn'
<1> SUFFICES ASSUME Knockouts' PROVE Drawn'
  BY DEF Drawn
<1>1. Knockouts /\ Entrant' = Entrant /\ Fx' = Fx /\ rounds' = rounds
  BY DEF Knockouts, Entrant
<1>2. \A f \in Fx : f[2] = 0 => sits'[f] = sits[f]
  BY <1>1
<1>3. \A e \in Entrant : \E f \in Fx : f[2] = 0 /\ \E s \in Seat : sits'[f][s] = e
  BY <1>1, <1>2 DEF Drawn, Plays
<1>4. \A f, g \in Fx : f[2] = 0 /\ g[2] = 0 =>
        \A s, t \in Seat : sits'[f][s] = sits'[g][t] /\ sits'[f][s] \in Entrant => f = g /\ s = t
  BY <1>1, <1>2 DEF Drawn
<1>5. <<0, rounds - 1, 0>> \in Fx /\ \A f \in Fx : f[2] = rounds - 1 => f = <<0, rounds - 1, 0>>
  BY <1>1 DEF Drawn
<1> QED
  BY <1>1, <1>3, <1>4, <1>5 DEF Drawn, Plays

(* The seat that a decision or an undo changes is in a later round. *)
LEMMA UpIsLater ==
    ASSUME CompInv, NEW g \in Fx, NEW w, Knockouts
    PROVE  \A f \in Fx : f[2] = 0 =>
             (IF GoesUp(g) THEN [sits EXCEPT ![Up(g)][UpSeat(g)] = w] ELSE sits)[f] = sits[f]
<1>1. g[2] \in Nat
  BY InBracket DEF CompInv
<1>2. Up(g)[2] = g[2] + 1
  BY DEF Up
<1>3. \A f : f[2] = 0 => f # Up(g)
  BY <1>1, <1>2
<1> QED
  BY <1>3 DEF CompInv, TypeOK

LEMMA DrawnNext ==
    ASSUME CompInv, Drawn, [Next]_vars PROVE Drawn'
<1>1. ASSUME NEW c \in New, Create(c) PROVE Drawn'
  <2>1. CASE \E k \in Counts : \E p \in Shuffles(k) : c = NewTournament(k, p)
    BY <1>1, <2>1, BracketDrawn
  <2>2. CASE \E q \in Leagues : \E gr \in Groupings(q) : c = NewLeague(q, gr)
    <3>1. c.type = "league"
      BY <2>2 DEF NewLeague, File
    <3>2. type' = "league"
      BY <1>1, <3>1 DEF Create
    <3> QED
      BY <3>2 DEF Drawn, Knockouts
  <2> QED
    BY <2>1, <2>2 DEF New
<1>2. ASSUME NEW f \in Fx, NEW w, NEW goals, NEW why, Decided(f, w, goals, why) PROVE Drawn'
  <2>1. Fx' = Fx /\ UNCHANGED <<type, group, rounds>>
        /\ sits' = IF GoesUp(f) THEN [sits EXCEPT ![Up(f)][UpSeat(f)] = w] ELSE sits
    BY <1>2 DEF Decided, Fx
  <2> QED
    BY <2>1, UpIsLater, FirstRoundStays
<1>3. ASSUME NEW f \in Fx, Undo(f) PROVE Drawn'
  <2>1. Fx' = Fx /\ UNCHANGED <<type, group, rounds>>
        /\ sits' = IF GoesUp(f) THEN [sits EXCEPT ![Up(f)][UpSeat(f)] = TBD] ELSE sits
    BY <1>3 DEF Undo, Fx
  <2> QED
    BY <2>1, UpIsLater, FirstRoundStays
<1>4. ASSUME Restart PROVE Drawn'
  <2>1. /\ type' = type /\ group' = group /\ rounds' = rounds /\ sits' = sits
        /\ status' = Unplayed(status)
    BY <1>4 DEF Restart, CompInv, DiskCurrent
  <2>2. Fx' = Fx
    BY <2>1 DEF Fx, Unplayed
  <2> QED
    BY <2>1, <2>2, FirstRoundStays
<1>5. ASSUME Close PROVE Drawn'
  BY <1>5 DEF Drawn, Close, Knockouts
<1>6. ASSUME UNCHANGED <<type, group, rounds, sits>>, Fx' = Fx PROVE Drawn'
  BY <1>6, FirstRoundStays
<1>7. CASE \E S \in SUBSET Current : Start(S)
  BY <1>6, <1>7 DEF Start, Fx
<1>8. ASSUME NEW f \in Fx, Start({f}) \/ CallOff(f) PROVE Drawn'
  BY <1>6, <1>8 DEF Start, CallOff, Fx
<1>9. ASSUME NEW f \in Fx, NEW w, TeacherDecides(f, w) \/ \E goals \in [Seat -> Goals] : Record(f, w, goals)
      PROVE  Drawn'
  BY <1>2, <1>9 DEF TeacherDecides, Record
<1>10. CASE UNCHANGED vars
  BY <1>6, <1>10 DEF vars, memory, Fx
<1> QED
  BY <1>1, <1>3, <1>4, <1>5, <1>7, <1>8, <1>9, <1>10 DEF Next

LEMMA DrawnAlways == Spec => []Drawn
<1>1. Init => Drawn
  BY DEF Init, Drawn, Knockouts
<1>2. CompInv /\ Drawn /\ [Next]_vars => Drawn'
  BY DrawnNext
<1> QED
  BY <1>1, <1>2, CompetitionCorrect, PTL DEF Spec

-----------------------------------------------------------------------------
(* The way of an entrant *)

(* Who sits in a later round has won the fixture that leads to the seat. *)
LEMMA CameFrom ==
    ASSUME CompInv, Knockouts, NEW e \in Entrant, NEW f \in Fx, f[2] > 0,
           NEW s \in Seat, sits[f][s] = e
    PROVE  LET g == Feeder(f, s)
           IN  /\ g \in Fx /\ g[2] = f[2] - 1
               /\ status[g] = "done" /\ result[g].winner = e /\ Plays(e, g)
<1> DEFINE g == Feeder(f, s)
<1>1. TypeOK /\ Shape /\ Settled /\ Fed
  BY DEF CompInv
<1>2. f = <<0, f[2], f[3]>> /\ f[2] \in Nat /\ f[3] \in Nat /\ g \in Fx
  BY <1>1, InBracket
<1>3. g[2] = f[2] - 1
  BY <1>2, DownThenUp
<1>4. e \in Nat
  BY <1>1 DEF Shape
<1>5. sits[f][s] = IF status[g] = "done" THEN result[g].winner ELSE TBD
  BY <1>1 DEF Fed
<1> HIDE DEF g
<1>6. status[g] = "done" /\ result[g].winner = e
  BY <1>4, <1>5 DEF TBD
<1>7. e \in {sits[g][t] : t \in Seat} \cup {Nobody}
  BY <1>1, <1>2, <1>6, Types
<1>8. Plays(e, g)
  BY <1>4, <1>7 DEF Plays, Nobody
<1> QED
  BY <1>2, <1>3, <1>6, <1>8 DEF g

(* In a round an entrant has one seat at most: two of them would come from  *)
(* two in the round before, and so on down to the draw.                     *)
LEMMA OneSeatARound ==
    ASSUME CompInv, Drawn, Knockouts, NEW e \in Entrant
    PROVE  \A f, g \in Fx : \A s, t \in Seat :
             f[2] = g[2] /\ sits[f][s] = e /\ sits[g][t] = e => f = g /\ s = t
<1> DEFINE Twice(r) == \E f, g \in Fx : \E s, t \in Seat :
                         /\ f[2] = r /\ g[2] = r /\ sits[f][s] = e /\ sits[g][t] = e
                         /\ ~(f = g /\ s = t)
           Bad == {r \in Nat : Twice(r)}
<1>1. \A f \in Fx : f[2] \in Nat
  BY InBracket DEF CompInv
<1>2. SUFFICES ASSUME Bad # {} PROVE FALSE
  <2>1. \A r \in Nat : ~Twice(r)
    BY <1>2
  <2> QED
    BY <1>1, <2>1
<1>3. PICK r \in Bad : \A q \in Bad : r <= q
  <2>1. Bad \in SUBSET Nat
    OBVIOUS
  <2> HIDE DEF Bad
  <2> QED
    BY <1>2, <2>1, Least
<1>4. PICK f \in Fx, g \in Fx : \E s, t \in Seat :
        /\ f[2] = r /\ g[2] = r /\ sits[f][s] = e /\ sits[g][t] = e
        /\ ~(f = g /\ s = t)
  BY <1>3
<1>5. PICK s \in Seat, t \in Seat :
        /\ f[2] = r /\ g[2] = r /\ sits[f][s] = e /\ sits[g][t] = e
        /\ ~(f = g /\ s = t)
  BY <1>4
<1>6. r \in Nat /\ r # 0
  BY <1>3, <1>5 DEF Drawn
<1> DEFINE b == Feeder(f, s)
           c == Feeder(g, t)
<1>7. b \in Fx /\ b[2] = r - 1 /\ Plays(e, b)
  BY <1>5, <1>6, CameFrom
<1>8. c \in Fx /\ c[2] = r - 1 /\ Plays(e, c)
  BY <1>5, <1>6, CameFrom
<1>9. f = <<0, f[2], f[3]>> /\ f[3] \in Nat /\ g = <<0, g[2], g[3]>> /\ g[3] \in Nat
  BY InBracket DEF CompInv
<1>10. Up(b) = f /\ UpSeat(b) = s /\ Up(c) = g /\ UpSeat(c) = t
  BY <1>5, <1>6, <1>9, DownThenUp
<1>11. b # c
  BY <1>5, <1>10
<1> HIDE DEF b, c
<1>12. Twice(r - 1)
  BY <1>7, <1>8, <1>11 DEF Plays
<1>13. r - 1 \in Bad
  BY <1>6, <1>12
<1>14. r <= r - 1
  BY <1>3, <1>13
<1> QED
  BY <1>6, <1>14

(* Whoever plays in a later round has won here. *)
LEMMA WonBefore ==
    ASSUME CompInv, Drawn, Knockouts, NEW e \in Entrant,
           NEW f \in Fx, Plays(e, f), NEW h \in Fx, Plays(e, h), f[2] < h[2]
    PROVE  status[f] = "done" /\ result[f].winner = e
<1> DEFINE Later == {r \in Nat : r > f[2] /\ \E b \in Fx : b[2] = r /\ Plays(e, b)}
<1>1. f[2] \in Nat /\ h[2] \in Nat
  BY InBracket DEF CompInv
<1>2. Later # {} /\ Later \in SUBSET Nat
  BY <1>1
<1>3. PICK r \in Later : \A q \in Later : r <= q
  <2> HIDE DEF Later
  <2> QED
    BY <1>2, Least
<1>4. PICK b \in Fx : b[2] = r /\ Plays(e, b)
  BY <1>3
<1>5. PICK s \in Seat : sits[b][s] = e
  BY <1>4 DEF Plays
<1> DEFINE g == Feeder(b, s)
<1>6. r \in Nat /\ r > f[2]
  BY <1>3
<1>7. /\ g \in Fx /\ g[2] = r - 1
      /\ status[g] = "done" /\ result[g].winner = e /\ Plays(e, g)
  BY <1>1, <1>4, <1>5, <1>6, CameFrom
<1> HIDE DEF g
<1>8. g[2] = f[2]
  <2> SUFFICES ASSUME g[2] # f[2] PROVE FALSE
    OBVIOUS
  <2>1. r - 1 \in Nat /\ r - 1 > f[2]
    BY <1>1, <1>6, <1>7
  <2>2. r - 1 \in Later
    BY <1>7, <2>1
  <2>3. r <= r - 1
    BY <1>3, <2>2
  <2> QED
    BY <1>6, <2>3
<1>9. g = f
  BY <1>7, <1>8, OneSeatARound DEF Plays
<1> QED
  BY <1>7, <1>9

(* So there is a last fixture of each entrant, and all others are won. *)
LEMMA LastOf ==
    ASSUME CompInv, Drawn, Knockouts, NEW e \in Entrant
    PROVE  \E f \in Fx :
             /\ Plays(e, f)
             /\ \A g \in Fx : Plays(e, g) =>
                  g = f \/ (g[2] < f[2] /\ status[g] = "done" /\ result[g].winner = e)
<1> DEFINE In == {r \in Nat : \E b \in Fx : b[2] = r /\ Plays(e, b)}
<1>1. rounds \in Nat /\ \A f \in Fx : f[2] \in Nat /\ f[2] < rounds
  <2>1. rounds \in Nat
    BY DEF CompInv, TypeOK
  <2> QED
    BY <2>1, InBracket DEF CompInv
<1>2. In \in SUBSET Nat /\ In # {}
  <2>1. PICK f \in Fx : f[2] = 0 /\ Plays(e, f)
    BY DEF Drawn
  <2> QED
    BY <2>1
<1>3. \A r \in In : r <= rounds
  BY <1>1
<1>4. PICK m \in In : \A r \in In : r <= m
  <2> HIDE DEF In
  <2> QED
    BY <1>1, <1>2, <1>3, Greatest
<1>5. PICK f \in Fx : f[2] = m /\ Plays(e, f)
  BY <1>4
<1>6. ASSUME NEW g \in Fx, Plays(e, g), g # f
      PROVE  g[2] < f[2] /\ status[g] = "done" /\ result[g].winner = e
  <2>1. g[2] <= f[2]
    BY <1>1, <1>4, <1>5, <1>6
  <2>2. g[2] # f[2]
    BY <1>5, <1>6, OneSeatARound DEF Plays
  <2>3. g[2] < f[2]
    BY <1>1, <2>1, <2>2
  <2> QED
    BY <1>5, <1>6, <2>3, WonBefore
<1> QED
  BY <1>5, <1>6

(* When the final is decided all is: what is open leads to something open in *)
(* the next round.                                                          *)
LEMMA FinalIsLast ==
    ASSUME CompInv, Drawn, Knockouts, status[<<0, rounds - 1, 0>>] = "done"
    PROVE  Finished
<1> DEFINE final == <<0, rounds - 1, 0>>
           Left == {r \in Nat : \E f \in Fx : f[2] = r /\ status[f] # "done"}
<1>1. TypeOK /\ Shape /\ Settled /\ Fed
  BY DEF CompInv
<1>2. rounds \in Nat /\ \A f \in Fx : f[2] \in Nat /\ f[2] < rounds
  <2>1. rounds \in Nat
    BY <1>1 DEF TypeOK
  <2> QED
    BY <1>1, <2>1, InBracket
<1>3. SUFFICES ASSUME Left # {} PROVE FALSE
  <2>1. \A f \in Fx : status[f] = "done"
    BY <1>2, <1>3
  <2> QED
    BY <2>1 DEF Finished, Open, Unfinished
<1>4. Left \in SUBSET Nat /\ \A r \in Left : r <= rounds
  BY <1>2
<1>5. PICK m \in Left : \A r \in Left : r <= m
  <2> HIDE DEF Left
  <2> QED
    BY <1>2, <1>3, <1>4, Greatest
<1>6. PICK f \in Fx : f[2] = m /\ status[f] # "done"
  BY <1>5
<1>7. GoesUp(f) <=> f[2] + 1 < rounds
  BY <1>1, InBracket
<1>8. CASE GoesUp(f)
  <2>1. status[Up(f)] = "pending" /\ Up(f) \in Fx
    BY <1>1, <1>6, <1>8, NextIsOpen, InBracket
  <2>2. Up(f)[2] = m + 1
    BY <1>6 DEF Up
  <2>3. m + 1 \in Left
    BY <1>4, <2>1, <2>2
  <2>4. m + 1 <= m
    BY <1>5, <2>3
  <2> QED
    BY <1>4, <2>4
<1>9. CASE ~GoesUp(f)
  <2>1. f[2] = rounds - 1
    BY <1>2, <1>7, <1>9
  <2>2. f = final
    BY <2>1 DEF Drawn
  <2> QED
    BY <1>6, <2>2
<1> QED
  BY <1>8, <1>9

(* Where an entrant lost, where he is to play, and where he stopped. *)
Lost(e)   == {f \in DoneBy(e) : result[f].winner # e}
OpenOf(e) == {f \in Fx : status[f] # "done" /\ Plays(e, f)}
Stops(e)  == {f \in Fx : Plays(e, f) /\ \/ status[f] # "done"
                                        \/ Knockouts /\ result[f].winner # e}

GoesOn(e)  == \E f \in Fx : /\ Lost(e) = {} /\ OpenOf(e) = {f} /\ Stops(e) = {f}
                            /\ status[f] # "done" /\ ~(Finished /\ Champion = e)
IsOut(e)   == \E f \in Fx : /\ Lost(e) = {f} /\ OpenOf(e) = {} /\ Stops(e) = {f}
                            /\ status[f] = "done" /\ ~(Finished /\ Champion = e)
HasWon(e)  == /\ Lost(e) = {} /\ OpenOf(e) = {} /\ Stops(e) = {}
              /\ Finished /\ Champion = e

LEMMA ThreeFates ==
    ASSUME CompInv, Drawn, Knockouts, NEW e \in Entrant
    PROVE  GoesOn(e) \/ IsOut(e) \/ HasWon(e)
<1> DEFINE final == <<0, rounds - 1, 0>>
<1>1. TypeOK /\ Shape /\ Settled /\ Fed
  BY DEF CompInv
<1>2. PICK f \in Fx : /\ Plays(e, f)
                      /\ \A g \in Fx : Plays(e, g) =>
                           g = f \/ (g[2] < f[2] /\ status[g] = "done" /\ result[g].winner = e)
  BY LastOf
<1>3. e \in Nat /\ rounds \in Nat /\ f[2] \in Nat /\ f[2] < rounds
      /\ f = <<0, f[2], f[3]>> /\ f[3] \in Nat
  <2>1. e \in Nat
    BY <1>1 DEF Shape
  <2>2. f[2] \in Nat /\ f[2] < rounds /\ rounds \in Nat /\ f = <<0, f[2], f[3]>> /\ f[3] \in Nat
    BY <1>1, InBracket
  <2> QED
    BY <2>1, <2>2
<1>4. ASSUME Finished, Champion = e PROVE f = final /\ result[f].winner = e
  <2>1. final \in Fx /\ result[final].winner = e /\ final[2] = rounds - 1
    BY <1>4 DEF Champion, Drawn
  <2>2. e \in {sits[final][t] : t \in Seat} \cup {Nobody}
    BY <1>1, <2>1, Types
  <2>3. Plays(e, final)
    BY <1>3, <2>2 DEF Plays, Nobody
  <2>4. final = f
    BY <1>2, <1>3, <2>1, <2>3
  <2> QED
    BY <2>1, <2>4
<1>5. CASE status[f] # "done"
  <2>1. Lost(e) = {}
    BY <1>2, <1>5 DEF Lost, DoneBy
  <2>2. OpenOf(e) = {f} /\ Stops(e) = {f}
    BY <1>2, <1>5 DEF OpenOf, Stops
  <2>3. ~Finished
    <3>1. f[2] \in 0..(rounds - 1)
      BY <1>3
    <3> QED
      BY <1>5, <3>1 DEF Finished, Open, Unfinished
  <2> QED
    BY <1>5, <2>1, <2>2, <2>3 DEF GoesOn
<1>6. CASE status[f] = "done" /\ result[f].winner # e
  <2>1. OpenOf(e) = {}
    BY <1>2, <1>6 DEF OpenOf
  <2>2. Stops(e) = {f}
    BY <1>2, <1>6 DEF Stops
  <2>3. Ready(f)
    <3>1. CASE f[2] > 0
      BY <1>1, <1>6, <3>1 DEF Settled
    <3>2. CASE f[2] = 0 /\ ~Ready(f)
      <4>1. PICK s \in Seat : sits[f][s] = e
        BY <1>2 DEF Plays
      <4>2. PICK t \in Seat : ~(sits[f][t] >= 0)
        BY <3>2 DEF Ready
      <4>3. s # t
        BY <1>3, <4>1, <4>2
      <4>4. \A u \in Seat : u = s \/ u = t
        BY <4>3 DEF Seat
      <4>5. result[f].winner \in {sits[f][u] : u \in Seat} \cup {Nobody}
            /\ result[f].winner \in Entrant \cup {Nobody}
        BY <1>1, Types
      <4>6. result[f].winner # Nobody
        BY <1>1, <1>6 DEF Settled
      <4>7. result[f].winner = sits[f][t] /\ result[f].winner \in Entrant
        BY <1>6, <4>1, <4>4, <4>5, <4>6
      <4>8. sits[f][t] \in Nat
        BY <1>1, <4>7 DEF Shape
      <4> QED
        BY <4>2, <4>8
    <3> QED
      BY <1>3, <3>1, <3>2
  <2>4. Lost(e) = {f}
    BY <1>2, <1>6, <2>3 DEF Lost, DoneBy
  <2>5. ~(Finished /\ Champion = e)
    BY <1>4, <1>6
  <2> QED
    BY <1>6, <2>1, <2>2, <2>4, <2>5 DEF IsOut
<1>7. CASE status[f] = "done" /\ result[f].winner = e
  <2>1. Lost(e) = {} /\ OpenOf(e) = {} /\ Stops(e) = {}
    BY <1>2, <1>7 DEF Lost, DoneBy, OpenOf, Stops
  <2>2. ~GoesUp(f)
    <3> SUFFICES ASSUME GoesUp(f) PROVE FALSE
      OBVIOUS
    <3>1. Up(f) \in Fx /\ Feeder(Up(f), UpSeat(f)) = f /\ UpSeat(f) \in Seat /\ Up(f)[2] = f[2] + 1
      BY <1>1, <1>3, InBracket, UpThenDown
    <3>2. sits[Up(f)][UpSeat(f)] = e
      BY <1>1, <1>3, <1>7, <3>1 DEF Fed
    <3>3. Plays(e, Up(f))
      BY <3>1, <3>2 DEF Plays
    <3>4. Up(f) = f \/ Up(f)[2] < f[2]
      BY <1>2, <3>1, <3>3
    <3> QED
      BY <1>3, <3>1, <3>4
  <2>3. f[2] = rounds - 1
    <3>1. GoesUp(f) <=> f[2] + 1 < rounds
      BY <1>1, InBracket
    <3> QED
      BY <1>3, <2>2, <3>1
  <2>4. f = final
    BY <2>3 DEF Drawn
  <2>5. Finished /\ Champion = e
    BY <1>7, <2>4, FinalIsLast DEF Champion
  <2> QED
    BY <2>1, <2>5 DEF HasWon
<1> QED
  BY <1>5, <1>6, <1>7

-----------------------------------------------------------------------------
(* What the lobby tells *)

LEMMA ToldByStops ==
    ASSUME NEW e
    PROVE  Told(e) = LET f   == CHOOSE f \in Stops(e) : \A g \in Stops(e) : f[2] <= g[2]
                         opp == IF sits[f][0] = e THEN sits[f][1] ELSE sits[f][0]
                     IN  IF Stops(e) = {}
                         THEN [state |-> IF Knockouts /\ Finished /\ Champion = e THEN "champion" ELSE "done",
                               opponent |-> Nobody]
                         ELSE IF status[f] = "done" THEN [state |-> "out", opponent |-> Nobody]
                         ELSE IF ~Ready(f)          THEN [state |-> "waiting", opponent |-> Nobody]
                         ELSE [state |-> status[f], opponent |-> opp]
BY DEF Told, Stops

LEMMA ToldOfOne ==
    ASSUME NEW e, NEW f, f[2] \in Nat, Stops(e) = {f}
    PROVE  Told(e) = IF status[f] = "done" THEN [state |-> "out", opponent |-> Nobody]
                     ELSE IF ~Ready(f)     THEN [state |-> "waiting", opponent |-> Nobody]
                     ELSE [state |-> status[f],
                           opponent |-> IF sits[f][0] = e THEN sits[f][1] ELSE sits[f][0]]
<1> DEFINE at == CHOOSE g \in Stops(e) : \A h \in Stops(e) : g[2] <= h[2]
<1>1. at = f
  <2>1. f[2] <= f[2]
    OBVIOUS
  <2>2. \E g \in Stops(e) : \A h \in Stops(e) : g[2] <= h[2]
    BY <2>1
  <2>3. at \in Stops(e)
    BY <2>2
  <2> QED
    BY <2>3
<1>2. Stops(e) # {}
  OBVIOUS
<1>3. Told(e) = IF status[at] = "done" THEN [state |-> "out", opponent |-> Nobody]
                ELSE IF ~Ready(at)     THEN [state |-> "waiting", opponent |-> Nobody]
                ELSE [state |-> status[at],
                      opponent |-> IF sits[at][0] = e THEN sits[at][1] ELSE sits[at][0]]
  BY <1>2, ToldByStops
<1> HIDE DEF at
<1> QED
  BY <1>1, <1>3

LEMMA ToldOfNone ==
    ASSUME NEW e, Stops(e) = {}, Knockouts, Finished, Champion = e
    PROVE  Told(e) = [state |-> "champion", opponent |-> Nobody]
BY ToldByStops

(* Two who still have to play each other are told so. *)
LEMMA ToldOfEachOther ==
    ASSUME CompInv, Drawn, Knockouts, NEW e \in Entrant, NEW d \in Entrant, Told(e).opponent = d
    PROVE  Told(d).opponent = e /\ Told(d).state = Told(e).state
<1>1. TypeOK /\ Shape
  BY DEF CompInv
<1>2. e \in Nat /\ d \in Nat /\ d # Nobody
  BY <1>1 DEF Shape, Nobody
<1>3. GoesOn(e)
  <2>1. CASE IsOut(e)
    <3>1. PICK f \in Fx : Stops(e) = {f} /\ status[f] = "done"
      BY <2>1 DEF IsOut
    <3>2. f[2] \in Nat
      BY <1>1, InBracket
    <3>3. Told(e) = [state |-> "out", opponent |-> Nobody]
      BY <3>1, <3>2, ToldOfOne
    <3> QED
      BY <1>2, <3>3
  <2>2. CASE HasWon(e)
    <3>1. Told(e) = [state |-> "champion", opponent |-> Nobody]
      BY <2>2, ToldOfNone DEF HasWon
    <3> QED
      BY <1>2, <3>1
  <2> QED
    BY <2>1, <2>2, ThreeFates
<1>4. PICK f \in Fx : OpenOf(e) = {f} /\ Stops(e) = {f} /\ status[f] # "done"
  BY <1>3 DEF GoesOn
<1>5. f[2] \in Nat
  BY <1>1, InBracket
<1>6. Told(e) = IF ~Ready(f) THEN [state |-> "waiting", opponent |-> Nobody]
                ELSE [state |-> status[f],
                      opponent |-> IF sits[f][0] = e THEN sits[f][1] ELSE sits[f][0]]
  BY <1>4, <1>5, ToldOfOne
<1>7. Ready(f) /\ d = IF sits[f][0] = e THEN sits[f][1] ELSE sits[f][0]
  BY <1>2, <1>6
<1>8. Plays(e, f)
  BY <1>4 DEF OpenOf
<1>9. /\ \A s, t \in Seat : sits[f][s] = e /\ sits[f][t] = e => s = t
      /\ 0 \in Seat /\ 1 \in Seat /\ \A s \in Seat : s = 0 \/ s = 1
  BY OneSeatARound DEF Seat
<1>10. \/ sits[f][0] = e /\ sits[f][1] = d /\ d # e
       \/ sits[f][1] = e /\ sits[f][0] = d /\ d # e
  BY <1>7, <1>8, <1>9 DEF Plays
<1>11. Plays(d, f)
  BY <1>9, <1>10 DEF Plays
<1>12. f \in OpenOf(d)
  BY <1>4, <1>11 DEF OpenOf
<1>13. GoesOn(d)
  BY <1>12, ThreeFates DEF IsOut, HasWon
<1>14. Stops(d) = {f}
  BY <1>12, <1>13 DEF GoesOn
<1>15. Told(d) = [state |-> status[f],
                  opponent |-> IF sits[f][0] = d THEN sits[f][1] ELSE sits[f][0]]
  BY <1>4, <1>5, <1>7, <1>14, ToldOfOne
<1> QED
  BY <1>6, <1>7, <1>10, <1>15

LEMMA BracketIsKnockout ==
    ASSUME CompInv, Drawn PROVE Knockout
<1> SUFFICES ASSUME Knockouts, NEW e \in Entrant
             PROVE  /\ Cardinality(Lost(e)) + Cardinality(OpenOf(e)) =
                          IF Finished /\ Champion = e THEN 0 ELSE 1
                    /\ Told(e).state = "out" <=> Lost(e) # {}
                    /\ Told(e).state = "champion" <=> Lost(e) = {} /\ OpenOf(e) = {}
                    /\ \A d \in Entrant : Told(e).opponent = d =>
                         Told(d).opponent = e /\ Told(d).state = Told(e).state
  BY DEF Knockout, Lost, OpenOf
<1>1. TypeOK /\ Shape
  BY DEF CompInv
<1>2. Cardinality({}) = 0 /\ \A f : Cardinality({f}) = 1
  BY FS_EmptySet, FS_Singleton
<1>3. CASE GoesOn(e)
  <2>1. PICK f \in Fx : /\ Lost(e) = {} /\ OpenOf(e) = {f} /\ Stops(e) = {f}
                        /\ status[f] # "done" /\ ~(Finished /\ Champion = e)
    BY <1>3 DEF GoesOn
  <2>2. f[2] \in Nat /\ status[f] \in {"pending", "playing", "done"}
    BY <1>1, InBracket, Types
  <2>3. Told(e).state \in {"waiting", "pending", "playing"}
    BY <2>1, <2>2, ToldOfOne
  <2>4. Cardinality(Lost(e)) + Cardinality(OpenOf(e)) = 1
    <3>1. Cardinality(Lost(e)) = 0 /\ Cardinality(OpenOf(e)) = 1
      BY <1>2, <2>1
    <3> QED
      BY <3>1
  <2>5. OpenOf(e) # {}
    BY <2>1
  <2> QED
    BY <2>1, <2>3, <2>4, <2>5, ToldOfEachOther
<1>4. CASE IsOut(e)
  <2>1. PICK f \in Fx : /\ Lost(e) = {f} /\ OpenOf(e) = {} /\ Stops(e) = {f}
                        /\ status[f] = "done" /\ ~(Finished /\ Champion = e)
    BY <1>4 DEF IsOut
  <2>2. f[2] \in Nat
    BY <1>1, InBracket
  <2>3. Told(e).state = "out"
    BY <2>1, <2>2, ToldOfOne
  <2>4. Cardinality(Lost(e)) + Cardinality(OpenOf(e)) = 1
    <3>1. Cardinality(OpenOf(e)) = 0 /\ Cardinality(Lost(e)) = 1
      BY <1>2, <2>1
    <3> QED
      BY <3>1
  <2>5. Lost(e) # {}
    BY <2>1
  <2> QED
    BY <2>1, <2>3, <2>4, <2>5, ToldOfEachOther
<1>5. CASE HasWon(e)
  <2>1. Told(e).state = "champion"
    BY <1>5, ToldOfNone DEF HasWon
  <2> QED
    BY <1>2, <1>5, <2>1, ToldOfEachOther DEF HasWon
<1> QED
  BY <1>3, <1>4, <1>5, ThreeFates

(* Knockout of Competition: every entrant has lost once, or has one fixture *)
(* to play, or is the champion, and is told so by the lobby, whatever was   *)
(* played, decided, taken back and loaded (comp.go:209-322, compInfoFor).   *)
THEOREM OneDefeatAndOut == Spec => []Knockout
<1>1. CompInv /\ Drawn => Knockout
  BY BracketIsKnockout
<1> QED
  BY <1>1, CompetitionCorrect, DrawnAlways, PTL
=============================================================================
