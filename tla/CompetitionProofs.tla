------------------------- MODULE CompetitionProofs -------------------------
(***************************************************************************)
(* Proofs about Competition for every number of entrants, every shuffle,   *)
(* every division into groups and every order of results: the types, the   *)
(* bracket that follows its results, a competition that is never stuck,    *)
(* the file that is always up to date, and results that stand.             *)
(*                                                                         *)
(* Fed is inductive only together with the shape of the bracket (a feeder  *)
(* leads to one seat and no other) and with what a fixture that is not     *)
(* decided holds (Settled): an undo empties a seat in the next round only  *)
(* while nothing depends on it.                                            *)
(***************************************************************************)
EXTENDS Competition, FiniteSetTheorems, WellFoundedInduction, TLAPS

(* The fixtures lie in the rounds; those of a bracket are fed by two        *)
(* fixtures of the round before, and feed one of the next.                  *)
Shape ==
    /\ Entrant \subseteq Nat
    /\ \A f \in Fx : f[2] \in 0..(rounds - 1)
    /\ Knockouts => \A f \in Fx :
         /\ f = <<0, f[2], f[3]>> /\ f[3] \in Nat
         /\ f[2] > 0 => \A s \in Seat : Feeder(f, s) \in Fx
         /\ f[2] + 1 < rounds => Up(f) \in Fx

(* A fixture that is not decided has no result, one of a tournament that is *)
(* decided has a winner; it is under way only between two entrants, and in  *)
(* the first round lacks one only for a bye, which is decided from the      *)
(* start and stays so.                                                      *)
Settled ==
    \A f \in Fx :
      /\ status[f] # "done" => result[f] = NoResult
      /\ status[f] = "playing" => Ready(f)
      /\ Knockouts /\ status[f] = "done" => result[f].winner # Nobody
      /\ Knockouts /\ f[2] > 0 /\ status[f] = "done" => Ready(f)
      /\ Knockouts /\ f[2] = 0 => Ready(f) \/ (status[f] = "done" /\ result[f].why = "bye")

CompInv == TypeOK /\ Shape /\ Settled /\ Fed /\ DiskCurrent

-----------------------------------------------------------------------------
(* Up and down the bracket *)

LEMMA Halves ==
    ASSUME NEW n \in Nat
    PROVE  /\ n \div 2 \in Nat /\ n % 2 \in Seat /\ 2 * (n \div 2) + (n % 2) = n
           /\ \A s \in Seat : 2 * n + s \in Nat /\ (2 * n + s) \div 2 = n /\ (2 * n + s) % 2 = s
<1>1. n \div 2 \in Nat /\ n % 2 \in Seat /\ 2 * (n \div 2) + (n % 2) = n
  BY DEF Seat
<1>2. 2 * n \in Nat /\ (2 * n) \div 2 = n /\ (2 * n) % 2 = 0
  OBVIOUS
<1>3. 2 * n + 1 \in Nat /\ (2 * n + 1) \div 2 = n /\ (2 * n + 1) % 2 = 1
  OBVIOUS
<1> QED
  BY <1>1, <1>2, <1>3 DEF Seat

LEMMA UpThenDown ==
    ASSUME NEW f, f = <<0, f[2], f[3]>>, f[2] \in Nat, f[3] \in Nat
    PROVE  /\ Feeder(Up(f), UpSeat(f)) = f /\ UpSeat(f) \in Seat
           /\ Up(f)[2] = f[2] + 1 /\ Up(f) # f
<1>1. f[3] \div 2 \in Nat /\ f[3] % 2 \in Seat /\ 2 * (f[3] \div 2) + (f[3] % 2) = f[3]
  BY Halves
<1>2. Up(f)[2] = f[2] + 1 /\ Up(f)[3] = f[3] \div 2 /\ UpSeat(f) = f[3] % 2
  BY DEF Up, UpSeat
<1>3. Feeder(Up(f), UpSeat(f)) = <<0, (f[2] + 1) - 1, 2 * (f[3] \div 2) + (f[3] % 2)>>
  BY <1>2 DEF Feeder
<1>4. Feeder(Up(f), UpSeat(f)) = <<0, f[2], f[3]>>
  BY <1>1, <1>3
<1> QED
  BY <1>1, <1>2, <1>4

LEMMA DownThenUp ==
    ASSUME NEW f, f = <<0, f[2], f[3]>>, f[2] \in Nat, f[3] \in Nat, NEW s \in Seat
    PROVE  /\ Up(Feeder(f, s)) = f /\ UpSeat(Feeder(f, s)) = s
           /\ Feeder(f, s)[2] = f[2] - 1
<1>1. Feeder(f, s)[2] = f[2] - 1 /\ Feeder(f, s)[3] = 2 * f[3] + s
  BY DEF Feeder
<1>2. (2 * f[3] + s) \div 2 = f[3] /\ (2 * f[3] + s) % 2 = s
  BY Halves
<1>3. Up(Feeder(f, s)) = <<0, f[2], f[3]>>
  BY <1>1, <1>2 DEF Up
<1> QED
  BY <1>1, <1>2, <1>3 DEF UpSeat

(* What a fixture of a tournament can be relied on for. *)
LEMMA InBracket ==
    ASSUME TypeOK, Shape, Knockouts, NEW f \in Fx
    PROVE  /\ f = <<0, f[2], f[3]>> /\ f[2] \in Nat /\ f[3] \in Nat /\ f[2] < rounds
           /\ rounds \in Nat
           /\ GoesUp(f) <=> f[2] + 1 < rounds
           /\ GoesUp(f) => Up(f) \in Fx
           /\ f[2] > 0 => \A s \in Seat : Feeder(f, s) \in Fx /\ GoesUp(Feeder(f, s))
<1>1. /\ f = <<0, f[2], f[3]>> /\ f[3] \in Nat /\ f[2] \in 0..(rounds - 1) /\ rounds \in Nat
      /\ f[2] > 0 => \A s \in Seat : Feeder(f, s) \in Fx
      /\ f[2] + 1 < rounds => Up(f) \in Fx
  BY DEF Shape, TypeOK
<1>2. f[2] \in Nat /\ f[2] < rounds
  BY <1>1
<1>3. \A s \in Seat : Feeder(f, s)[2] + 1 = f[2]
  BY <1>2 DEF Feeder
<1> QED
  BY <1>1, <1>2, <1>3 DEF GoesUp

LEMMA Types ==
    ASSUME TypeOK, NEW f \in Fx
    PROVE  /\ sits[f] \in [Seat -> Entrant \cup (IF Knockouts THEN {Bye, TBD} ELSE {})]
           /\ status[f] \in {"pending", "playing", "done"}
           /\ result[f] \in [winner : Entrant \cup {Nobody}, goals : [Seat -> Goals], why : Reasons]
           /\ result[f].winner \in {sits[f][s] : s \in Seat} \cup {Nobody}
           /\ DOMAIN sits = Fx /\ DOMAIN result = Fx /\ DOMAIN status = Fx
BY DEF TypeOK

LEMMA ReadyEntrants ==
    ASSUME TypeOK, Shape, NEW f \in Fx
    PROVE  Ready(f) <=> \A s \in Seat : sits[f][s] \in Entrant
<1>1. \A s \in Seat : sits[f][s] \in Entrant \/ sits[f][s] = Bye \/ sits[f][s] = TBD
  BY Types
<1>2. \A e \in Entrant : e \in Nat
  BY DEF Shape
<1> QED
  BY <1>1, <1>2 DEF Ready, Bye, TBD

(* As long as a fixture is not decided, the one it feeds is not even under way. *)
LEMMA NextIsOpen ==
    ASSUME TypeOK, Shape, Settled, Fed, NEW f \in Fx, GoesUp(f), status[f] # "done"
    PROVE  /\ sits[Up(f)][UpSeat(f)] = TBD
           /\ status[Up(f)] = "pending" /\ result[Up(f)] = NoResult /\ ~Ready(Up(f))
<1>1. Knockouts
  BY DEF GoesUp
<1>2. /\ f = <<0, f[2], f[3]>> /\ f[2] \in Nat /\ f[3] \in Nat /\ Up(f) \in Fx
  BY <1>1, InBracket
<1>3. Feeder(Up(f), UpSeat(f)) = f /\ UpSeat(f) \in Seat /\ Up(f)[2] > 0
  BY <1>2, UpThenDown
<1>4. sits[Up(f)][UpSeat(f)] = TBD
  BY <1>1, <1>2, <1>3 DEF Fed
<1>5. ~Ready(Up(f))
  BY <1>3, <1>4 DEF Ready, TBD
<1>6. status[Up(f)] # "playing" /\ status[Up(f)] # "done"
  BY <1>1, <1>2, <1>3, <1>5 DEF Settled
<1>7. status[Up(f)] = "pending"
  BY <1>2, <1>6, Types
<1> QED
  BY <1>2, <1>4, <1>5, <1>6, <1>7 DEF Settled

(* A winner who goes up, or is taken back, changes one seat only. *)
SeatGets(f, x) == sits' = IF GoesUp(f) THEN [sits EXCEPT ![Up(f)][UpSeat(f)] = x] ELSE sits

LEMMA OneSeat ==
    ASSUME TypeOK, Shape, NEW f \in Fx, NEW x, SeatGets(f, x)
    PROVE  /\ DOMAIN sits' = Fx
           /\ \A h \in Fx : ~(GoesUp(f) /\ h = Up(f)) => sits'[h] = sits[h]
           /\ GoesUp(f) => \A s \in Seat :
                sits'[Up(f)][s] = IF s = UpSeat(f) THEN x ELSE sits[Up(f)][s]
           /\ sits'[f] = sits[f]
<1>1. CASE ~GoesUp(f)
  BY <1>1, Types DEF SeatGets
<1>2. CASE GoesUp(f)
  <2>1. Up(f) \in Fx /\ UpSeat(f) \in Seat /\ Up(f) # f
    BY <1>2, InBracket, UpThenDown DEF GoesUp
  <2>2. DOMAIN sits = Fx /\ DOMAIN sits[Up(f)] = Seat
    BY <2>1, Types
  <2> QED
    BY <1>2, <2>1, <2>2 DEF SeatGets
<1> QED
  BY <1>1, <1>2

-----------------------------------------------------------------------------
(* A result is given: by a match, or by the teacher. *)

Decides(f, w, goals, why) ==
    /\ f \in Fx /\ status[f] # "done" /\ Ready(f)
    /\ w \in {sits[f][s] : s \in Seat} \cup {Nobody} /\ (Knockouts => w # Nobody)
    /\ goals \in [Seat -> Goals] /\ why \in Reasons
    /\ Decided(f, w, goals, why) /\ Save

LEMMA NoResultType ==
    NoResult \in [winner : {Nobody}, goals : [Seat -> Goals], why : Reasons]
BY CompetitionAssumption DEF NoResult, Reasons

LEMMA RecordDecides ==
    ASSUME TypeOK, Settled, NEW f \in Fx, NEW w \in {sits[f][s] : s \in Seat} \cup {Nobody},
           NEW goals \in [Seat -> Goals], Record(f, w, goals)
    PROVE  Decides(f, w, goals, "match")
BY DEF Record, Decides, Settled, Reasons

LEMMA TeacherDecidesDecides ==
    ASSUME TypeOK, NEW f \in Fx, NEW w \in {sits[f][s] : s \in Seat} \cup {Nobody},
           TeacherDecides(f, w)
    PROVE  Decides(f, w, NoResult.goals, "teacher")
<1>1. NoResult.goals \in [Seat -> Goals]
  BY NoResultType
<1> QED
  BY <1>1 DEF TeacherDecides, Decides, Pending, Reasons

LEMMA DecidedFacts ==
    ASSUME CompInv, NEW f, NEW w, NEW goals, NEW why, Decides(f, w, goals, why)
    PROVE  /\ f \in Fx /\ Fx' = Fx /\ w \in Entrant \cup {Nobody} /\ (Knockouts => w \in Entrant)
           /\ status'[f] = "done" /\ \A h \in Fx : h # f => status'[h] = status[h]
           /\ result'[f] = [winner |-> w, goals |-> goals, why |-> why]
           /\ \A h \in Fx : h # f => result'[h] = result[h]
           /\ DOMAIN result' = Fx
           /\ UNCHANGED <<type, group, rounds>> /\ Entrant' = Entrant /\ Knockouts' = Knockouts
           /\ SeatGets(f, w)
<1>1. /\ TypeOK /\ Shape
      /\ f \in Fx /\ Ready(f)
      /\ w \in {sits[f][s] : s \in Seat} \cup {Nobody} /\ (Knockouts => w # Nobody)
      /\ status' = [status EXCEPT ![f] = "done"]
      /\ result' = [result EXCEPT ![f] = [winner |-> w, goals |-> goals, why |-> why]]
      /\ SeatGets(f, w)
      /\ UNCHANGED <<type, group, rounds>>
  BY DEF CompInv, Decides, Decided, SeatGets
<1>2. \A s \in Seat : sits[f][s] \in Entrant
  BY <1>1, ReadyEntrants
<1>3. DOMAIN result = Fx /\ DOMAIN status = Fx
  BY <1>1, Types
<1>4. Entrant' = Entrant /\ Knockouts' = Knockouts
  BY <1>1 DEF Entrant, Knockouts
<1>5. /\ Fx' = Fx /\ status'[f] = "done" /\ \A h \in Fx : h # f => status'[h] = status[h]
      /\ result'[f] = [winner |-> w, goals |-> goals, why |-> why] /\ DOMAIN result' = Fx
      /\ \A h \in Fx : h # f => result'[h] = result[h]
  BY <1>1, <1>3 DEF Fx
<1>6. w \in Entrant \cup {Nobody} /\ (Knockouts => w \in Entrant)
  BY <1>1, <1>2
<1> QED
  BY <1>1, <1>4, <1>5, <1>6

LEMMA DecideTypes ==
    ASSUME CompInv, NEW f, NEW w, NEW goals, NEW why, Decides(f, w, goals, why)
    PROVE  TypeOK' /\ Shape'
<1>1. TypeOK /\ Shape /\ Settled /\ Fed /\ f \in Fx /\ status[f] # "done"
      /\ goals \in [Seat -> Goals] /\ why \in Reasons
      /\ w \in {sits[f][s] : s \in Seat} \cup {Nobody}
  BY DEF CompInv, Decides
<1>2. /\ Fx' = Fx /\ w \in Entrant \cup {Nobody} /\ (Knockouts => w \in Entrant)
      /\ status'[f] = "done" /\ \A h \in Fx : h # f => status'[h] = status[h]
      /\ result'[f] = [winner |-> w, goals |-> goals, why |-> why]
      /\ \A h \in Fx : h # f => result'[h] = result[h]
      /\ DOMAIN result' = Fx
      /\ UNCHANGED <<type, group, rounds>> /\ Entrant' = Entrant /\ Knockouts' = Knockouts
      /\ SeatGets(f, w)
  BY DecidedFacts
<1>3. /\ DOMAIN sits' = Fx
      /\ \A h \in Fx : ~(GoesUp(f) /\ h = Up(f)) => sits'[h] = sits[h]
      /\ GoesUp(f) => \A s \in Seat :
           sits'[Up(f)][s] = IF s = UpSeat(f) THEN w ELSE sits[Up(f)][s]
      /\ sits'[f] = sits[f]
  BY <1>1, <1>2, OneSeat
<1> DEFINE Values == Entrant \cup (IF Knockouts THEN {Bye, TBD} ELSE {})
<1>4. sits' \in [Fx -> [Seat -> Values]]
  <2>1. sits \in [Fx -> [Seat -> Values]]
    BY <1>1 DEF TypeOK
  <2>2. CASE ~GoesUp(f)
    BY <1>2, <2>1, <2>2 DEF SeatGets
  <2>3. CASE GoesUp(f)
    <3>1. Up(f) \in Fx /\ UpSeat(f) \in Seat /\ w \in Entrant
      BY <1>1, <1>2, <2>3, InBracket, UpThenDown DEF GoesUp
    <3>2. w \in Values /\ sits[Up(f)] \in [Seat -> Values]
      BY <2>1, <3>1
    <3>3. sits' = [sits EXCEPT ![Up(f)][UpSeat(f)] = w]
      BY <1>2, <2>3 DEF SeatGets
    <3> HIDE DEF Values
    <3>4. [sits[Up(f)] EXCEPT ![UpSeat(f)] = w] \in [Seat -> Values]
      BY <3>1, <3>2
    <3> QED
      BY <2>1, <3>1, <3>3, <3>4
  <2> QED
    BY <2>2, <2>3
<1>5. status' \in [Fx -> {"pending", "playing", "done"}]
  BY <1>1 DEF Decides, Decided, TypeOK
<1>6. result' \in [Fx -> [winner : Entrant \cup {Nobody}, goals : [Seat -> Goals], why : Reasons]]
  <2>1. [winner |-> w, goals |-> goals, why |-> why] \in
          [winner : Entrant \cup {Nobody}, goals : [Seat -> Goals], why : Reasons]
    BY <1>1, <1>2
  <2>2. result' = [result EXCEPT ![f] = [winner |-> w, goals |-> goals, why |-> why]]
    BY DEF Decides, Decided
  <2> QED
    BY <1>1, <2>1, <2>2 DEF TypeOK
<1>7. ASSUME NEW h \in Fx
      PROVE  result'[h].winner \in {sits'[h][s] : s \in Seat} \cup {Nobody}
  <2>1. CASE h = f
    BY <1>1, <1>2, <1>3, <2>1
  <2>2. CASE h # f /\ GoesUp(f) /\ h = Up(f)
    <3>1. result[h] = NoResult
      BY <1>1, <2>2, NextIsOpen
    <3> QED
      BY <1>2, <2>2, <3>1 DEF NoResult
  <2>3. CASE h # f /\ ~(GoesUp(f) /\ h = Up(f))
    BY <1>1, <1>2, <1>3, <2>3, Types
  <2> QED
    BY <2>1, <2>2, <2>3
<1>8. TypeOK'
  BY <1>1, <1>2, <1>4, <1>5, <1>6, <1>7 DEF TypeOK
<1>9. Shape'
  BY <1>1, <1>2 DEF Shape
<1> QED
  BY <1>8, <1>9

LEMMA DecideSettled ==
    ASSUME CompInv, NEW f, NEW w, NEW goals, NEW why, Decides(f, w, goals, why)
    PROVE  Settled'
<1>1. TypeOK /\ Shape /\ Settled /\ Fed /\ f \in Fx /\ status[f] # "done" /\ Ready(f)
  BY DEF CompInv, Decides
<1>2. /\ Fx' = Fx /\ (Knockouts => w \in Entrant)
      /\ status'[f] = "done" /\ \A h \in Fx : h # f => status'[h] = status[h]
      /\ result'[f] = [winner |-> w, goals |-> goals, why |-> why]
      /\ \A h \in Fx : h # f => result'[h] = result[h]
      /\ Knockouts' = Knockouts
      /\ SeatGets(f, w)
  BY DecidedFacts DEF Knockouts
<1>3. /\ \A h \in Fx : ~(GoesUp(f) /\ h = Up(f)) => sits'[h] = sits[h]
      /\ sits'[f] = sits[f]
  BY <1>1, <1>2, OneSeat
<1>4. ASSUME NEW h \in Fx, ~(GoesUp(f) /\ h = Up(f))
      PROVE  Ready(h)' <=> Ready(h)
  BY <1>3, <1>4 DEF Ready
<1>5. Knockouts => w # Nobody
  BY DEF Decides
<1>6. ASSUME NEW h \in Fx
      PROVE  /\ status'[h] # "done" => result'[h] = NoResult
             /\ status'[h] = "playing" => Ready(h)'
             /\ Knockouts /\ status'[h] = "done" => result'[h].winner # Nobody
             /\ Knockouts /\ h[2] > 0 /\ status'[h] = "done" => Ready(h)'
             /\ Knockouts /\ h[2] = 0 => Ready(h)' \/ (status'[h] = "done" /\ result'[h].why = "bye")
  <2>1. CASE h = f
    <3>1. Ready(h)' /\ status'[h] = "done" /\ result'[h].winner = w
      BY <1>1, <1>2, <1>3, <2>1 DEF Ready
    <3> QED
      BY <1>5, <3>1
  <2>2. CASE h # f /\ GoesUp(f) /\ h = Up(f)
    <3>1. status[h] = "pending" /\ result[h] = NoResult
      BY <1>1, <2>2, NextIsOpen
    <3>2. status'[h] = "pending" /\ result'[h] = NoResult
      BY <1>2, <2>2, <3>1
    <3>3. h[2] # 0
      BY <1>1, <2>2, InBracket, UpThenDown DEF GoesUp
    <3> QED
      BY <3>2, <3>3
  <2>3. CASE h # f /\ ~(GoesUp(f) /\ h = Up(f))
    <3>1. status'[h] = status[h] /\ result'[h] = result[h] /\ (Ready(h)' <=> Ready(h))
      BY <1>2, <1>4, <2>3
    <3> QED
      BY <1>1, <3>1 DEF Settled
  <2> QED
    BY <2>1, <2>2, <2>3
<1> QED
  BY <1>2, <1>6 DEF Settled

LEMMA DecideFed ==
    ASSUME CompInv, NEW f, NEW w, NEW goals, NEW why, Decides(f, w, goals, why)
    PROVE  Fed'
<1>1. TypeOK /\ Shape /\ Fed /\ f \in Fx
  BY DEF CompInv, Decides
<1>2. /\ Fx' = Fx
      /\ status'[f] = "done" /\ \A h \in Fx : h # f => status'[h] = status[h]
      /\ result'[f] = [winner |-> w, goals |-> goals, why |-> why]
      /\ \A h \in Fx : h # f => result'[h] = result[h]
      /\ Knockouts' = Knockouts
      /\ SeatGets(f, w)
  BY DecidedFacts DEF Knockouts
<1>3. /\ \A h \in Fx : ~(GoesUp(f) /\ h = Up(f)) => sits'[h] = sits[h]
      /\ GoesUp(f) => \A s \in Seat :
           sits'[Up(f)][s] = IF s = UpSeat(f) THEN w ELSE sits[Up(f)][s]
  BY <1>1, <1>2, OneSeat
<1>4. ASSUME Knockouts, NEW h \in Fx, h[2] > 0, NEW s \in Seat
      PROVE  sits'[h][s] = IF status'[Feeder(h, s)] = "done" THEN result'[Feeder(h, s)].winner
                           ELSE TBD
  <2>1. /\ Feeder(h, s) \in Fx /\ GoesUp(Feeder(h, s))
        /\ Up(Feeder(h, s)) = h /\ UpSeat(Feeder(h, s)) = s
    BY <1>1, <1>4, InBracket, DownThenUp
  <2>2. sits[h][s] = IF status[Feeder(h, s)] = "done" THEN result[Feeder(h, s)].winner ELSE TBD
    BY <1>1, <1>4 DEF Fed
  <2>3. CASE Feeder(h, s) = f
    <3>1. sits'[h][s] = w
      BY <1>3, <2>1, <2>3
    <3> QED
      BY <1>2, <2>3, <3>1
  <2>4. CASE Feeder(h, s) # f
    <3>1. sits'[h][s] = sits[h][s]
      <4>1. CASE GoesUp(f) /\ h = Up(f)
        <5>1. s # UpSeat(f)
          BY <1>1, <2>4, <4>1, InBracket, UpThenDown DEF GoesUp
        <5> QED
          BY <1>3, <4>1, <5>1
      <4>2. CASE ~(GoesUp(f) /\ h = Up(f))
        BY <1>3, <4>2
      <4> QED
        BY <4>1, <4>2
    <3>2. status'[Feeder(h, s)] = status[Feeder(h, s)] /\ result'[Feeder(h, s)] = result[Feeder(h, s)]
      BY <1>2, <2>1, <2>4
    <3> QED
      BY <2>2, <3>1, <3>2
  <2> QED
    BY <2>3, <2>4
<1> QED
  BY <1>2, <1>4 DEF Fed

-----------------------------------------------------------------------------
(* A result is taken back. *)

LEMMA UndoFacts ==
    ASSUME CompInv, NEW f \in Fx, Undo(f)
    PROVE  /\ Fx' = Fx /\ status[f] = "done" /\ result[f].why # "bye"
           /\ status'[f] = "pending" /\ \A h \in Fx : h # f => status'[h] = status[h]
           /\ result'[f] = NoResult /\ \A h \in Fx : h # f => result'[h] = result[h]
           /\ DOMAIN result' = Fx
           /\ UNCHANGED <<type, group, rounds>> /\ Entrant' = Entrant /\ Knockouts' = Knockouts
           /\ SeatGets(f, TBD)
           /\ GoesUp(f) => /\ Up(f) \in Fx /\ Up(f) # f /\ Up(f)[2] > 0
                           /\ status[Up(f)] = "pending" /\ result[Up(f)] = NoResult
<1>1. /\ TypeOK /\ Shape /\ Settled
      /\ status[f] = "done" /\ result[f].why # "bye" /\ (GoesUp(f) => status[Up(f)] = "pending")
      /\ status' = [status EXCEPT ![f] = "pending"]
      /\ result' = [result EXCEPT ![f] = NoResult]
      /\ SeatGets(f, TBD)
      /\ UNCHANGED <<type, group, rounds>>
  BY DEF CompInv, Undo, MayUndo, SeatGets
<1>2. DOMAIN result = Fx /\ DOMAIN status = Fx
  BY <1>1, Types
<1>3. /\ Fx' = Fx /\ status'[f] = "pending" /\ \A h \in Fx : h # f => status'[h] = status[h]
      /\ result'[f] = NoResult /\ \A h \in Fx : h # f => result'[h] = result[h]
      /\ DOMAIN result' = Fx
  BY <1>1, <1>2 DEF Fx
<1>4. Entrant' = Entrant /\ Knockouts' = Knockouts
  BY <1>1 DEF Entrant, Knockouts
<1>5. GoesUp(f) => Up(f) \in Fx /\ Up(f) # f /\ Up(f)[2] > 0
  BY <1>1, InBracket, UpThenDown DEF GoesUp
<1>6. GoesUp(f) => result[Up(f)] = NoResult
  BY <1>1, <1>5 DEF Settled
<1> QED
  BY <1>1, <1>3, <1>4, <1>5, <1>6

LEMMA UndoTypes ==
    ASSUME CompInv, NEW f \in Fx, Undo(f)
    PROVE  TypeOK' /\ Shape'
<1>1. TypeOK /\ Shape
  BY DEF CompInv
<1>2. /\ Fx' = Fx /\ status'[f] = "pending" /\ \A h \in Fx : h # f => status'[h] = status[h]
      /\ result'[f] = NoResult /\ \A h \in Fx : h # f => result'[h] = result[h]
      /\ DOMAIN result' = Fx
      /\ UNCHANGED <<type, group, rounds>> /\ Entrant' = Entrant /\ Knockouts' = Knockouts
      /\ SeatGets(f, TBD)
      /\ GoesUp(f) => result[Up(f)] = NoResult /\ Up(f) # f /\ Up(f) \in Fx
  BY UndoFacts
<1>3. \A h \in Fx : ~(GoesUp(f) /\ h = Up(f)) => sits'[h] = sits[h]
  BY <1>1, <1>2, OneSeat
<1> DEFINE Values == Entrant \cup (IF Knockouts THEN {Bye, TBD} ELSE {})
<1>4. sits' \in [Fx -> [Seat -> Values]]
  <2>1. sits \in [Fx -> [Seat -> Values]]
    BY <1>1 DEF TypeOK
  <2>2. CASE ~GoesUp(f)
    BY <1>2, <2>1, <2>2 DEF SeatGets
  <2>3. CASE GoesUp(f)
    <3>1. Up(f) \in Fx /\ UpSeat(f) \in Seat /\ TBD \in Values
      BY <1>1, <1>2, <2>3, InBracket, UpThenDown DEF GoesUp
    <3>2. sits[Up(f)] \in [Seat -> Values]
      BY <2>1, <3>1
    <3>3. sits' = [sits EXCEPT ![Up(f)][UpSeat(f)] = TBD]
      BY <1>2, <2>3 DEF SeatGets
    <3> HIDE DEF Values
    <3>4. [sits[Up(f)] EXCEPT ![UpSeat(f)] = TBD] \in [Seat -> Values]
      BY <3>1, <3>2
    <3> QED
      BY <2>1, <3>1, <3>3, <3>4
  <2> QED
    BY <2>2, <2>3
<1>5. status' \in [Fx -> {"pending", "playing", "done"}]
  BY <1>1 DEF Undo, TypeOK
<1>6. result' \in [Fx -> [winner : Entrant \cup {Nobody}, goals : [Seat -> Goals], why : Reasons]]
  <2>1. NoResult \in [winner : Entrant \cup {Nobody}, goals : [Seat -> Goals], why : Reasons]
    BY NoResultType
  <2>2. result' = [result EXCEPT ![f] = NoResult]
    BY DEF Undo
  <2> QED
    BY <1>1, <2>1, <2>2 DEF TypeOK
<1>7. ASSUME NEW h \in Fx
      PROVE  result'[h].winner \in {sits'[h][s] : s \in Seat} \cup {Nobody}
  <2>1. CASE h = f \/ (GoesUp(f) /\ h = Up(f))
    <3>1. result'[h] = NoResult
      BY <1>2, <2>1
    <3> QED
      BY <3>1 DEF NoResult
  <2>2. CASE h # f /\ ~(GoesUp(f) /\ h = Up(f))
    BY <1>1, <1>2, <1>3, <2>2, Types
  <2> QED
    BY <2>1, <2>2
<1>8. TypeOK'
  BY <1>1, <1>2, <1>4, <1>5, <1>6, <1>7 DEF TypeOK
<1>9. Shape'
  BY <1>1, <1>2 DEF Shape
<1> QED
  BY <1>8, <1>9

LEMMA UndoSettled ==
    ASSUME CompInv, NEW f \in Fx, Undo(f)
    PROVE  Settled'
<1>1. TypeOK /\ Shape /\ Settled
  BY DEF CompInv
<1>2. /\ Fx' = Fx /\ status[f] = "done" /\ result[f].why # "bye"
      /\ status'[f] = "pending" /\ \A h \in Fx : h # f => status'[h] = status[h]
      /\ result'[f] = NoResult /\ \A h \in Fx : h # f => result'[h] = result[h]
      /\ Knockouts' = Knockouts
      /\ SeatGets(f, TBD)
      /\ GoesUp(f) => /\ Up(f) # f /\ Up(f)[2] > 0
                      /\ status[Up(f)] = "pending" /\ result[Up(f)] = NoResult
  BY UndoFacts
<1>3. /\ \A h \in Fx : ~(GoesUp(f) /\ h = Up(f)) => sits'[h] = sits[h]
      /\ sits'[f] = sits[f]
  BY <1>1, <1>2, OneSeat
<1>4. ASSUME NEW h \in Fx
      PROVE  /\ status'[h] # "done" => result'[h] = NoResult
             /\ status'[h] = "playing" => Ready(h)'
             /\ Knockouts /\ status'[h] = "done" => result'[h].winner # Nobody
             /\ Knockouts /\ h[2] > 0 /\ status'[h] = "done" => Ready(h)'
             /\ Knockouts /\ h[2] = 0 => Ready(h)' \/ (status'[h] = "done" /\ result'[h].why = "bye")
  <2>1. CASE h = f
    <3>1. Ready(f)' <=> Ready(f)
      BY <1>3 DEF Ready
    <3>2. Knockouts /\ f[2] = 0 => Ready(f)
      BY <1>1, <1>2 DEF Settled
    <3> QED
      BY <1>2, <2>1, <3>1, <3>2
  <2>2. CASE h # f /\ GoesUp(f) /\ h = Up(f)
    <3>1. status'[h] = "pending" /\ result'[h] = NoResult
      BY <1>2, <2>2
    <3>2. h[2] # 0
      BY <1>1, <2>2, InBracket, UpThenDown DEF GoesUp
    <3> QED
      BY <3>1, <3>2
  <2>3. CASE h # f /\ ~(GoesUp(f) /\ h = Up(f))
    <3>1. status'[h] = status[h] /\ result'[h] = result[h]
      BY <1>2, <2>3
    <3>2. Ready(h)' <=> Ready(h)
      BY <1>3, <2>3 DEF Ready
    <3> QED
      BY <1>1, <3>1, <3>2 DEF Settled
  <2> QED
    BY <2>1, <2>2, <2>3
<1> QED
  BY <1>2, <1>4 DEF Settled

LEMMA UndoFed ==
    ASSUME CompInv, NEW f \in Fx, Undo(f)
    PROVE  Fed'
<1>1. TypeOK /\ Shape /\ Fed
  BY DEF CompInv
<1>2. /\ Fx' = Fx
      /\ status'[f] = "pending" /\ \A h \in Fx : h # f => status'[h] = status[h]
      /\ \A h \in Fx : h # f => result'[h] = result[h]
      /\ Knockouts' = Knockouts
      /\ SeatGets(f, TBD)
  BY UndoFacts
<1>3. /\ \A h \in Fx : ~(GoesUp(f) /\ h = Up(f)) => sits'[h] = sits[h]
      /\ GoesUp(f) => \A s \in Seat :
           sits'[Up(f)][s] = IF s = UpSeat(f) THEN TBD ELSE sits[Up(f)][s]
  BY <1>1, <1>2, OneSeat
<1>4. ASSUME Knockouts, NEW h \in Fx, h[2] > 0, NEW s \in Seat
      PROVE  sits'[h][s] = IF status'[Feeder(h, s)] = "done" THEN result'[Feeder(h, s)].winner
                           ELSE TBD
  <2>1. /\ Feeder(h, s) \in Fx /\ GoesUp(Feeder(h, s))
        /\ Up(Feeder(h, s)) = h /\ UpSeat(Feeder(h, s)) = s
    BY <1>1, <1>4, InBracket, DownThenUp
  <2>2. sits[h][s] = IF status[Feeder(h, s)] = "done" THEN result[Feeder(h, s)].winner ELSE TBD
    BY <1>1, <1>4 DEF Fed
  <2>3. CASE Feeder(h, s) = f
    <3>1. sits'[h][s] = TBD
      BY <1>3, <2>1, <2>3
    <3> QED
      BY <1>2, <2>3, <3>1
  <2>4. CASE Feeder(h, s) # f
    <3>1. sits'[h][s] = sits[h][s]
      <4>1. CASE GoesUp(f) /\ h = Up(f)
        <5>1. s # UpSeat(f)
          BY <1>1, <2>4, <4>1, InBracket, UpThenDown DEF GoesUp
        <5> QED
          BY <1>3, <4>1, <5>1
      <4>2. CASE ~(GoesUp(f) /\ h = Up(f))
        BY <1>3, <4>2
      <4> QED
        BY <4>1, <4>2
    <3>2. status'[Feeder(h, s)] = status[Feeder(h, s)] /\ result'[Feeder(h, s)] = result[Feeder(h, s)]
      BY <1>2, <2>1, <2>4
    <3> QED
      BY <2>2, <3>1, <3>2
  <2> QED
    BY <2>3, <2>4
<1> QED
  BY <1>2, <1>4 DEF Fed

-----------------------------------------------------------------------------
(* Matches are started and called off, and the program is started again. *)

LEMMA OnlyStatus ==
    ASSUME CompInv, UNCHANGED <<type, group, rounds, sits, result>>,
           status' \in [Fx -> {"pending", "playing", "done"}],
           \A h \in Fx : /\ status'[h] = "done" <=> status[h] = "done"
                         /\ status'[h] = "playing" => Ready(h)
    PROVE  TypeOK' /\ Shape' /\ Settled' /\ Fed'
<1>1. TypeOK /\ Shape /\ Settled /\ Fed
  BY DEF CompInv
<1>2. Fx' = Fx /\ Entrant' = Entrant /\ Knockouts' = Knockouts
  BY DEF Fx, Entrant, Knockouts
<1>3. \A h \in Fx : Ready(h)' <=> Ready(h)
  BY DEF Ready
<1>4. TypeOK'
  BY <1>1, <1>2 DEF TypeOK
<1>5. Shape'
  BY <1>1, <1>2 DEF Shape
<1>6. Settled'
  BY <1>1, <1>2, <1>3 DEF Settled
<1>7. Fed'
  <2>1. Knockouts => \A h \in Fx : h[2] > 0 => \A s \in Seat : Feeder(h, s) \in Fx
    BY <1>1 DEF Shape
  <2> QED
    BY <1>1, <1>2, <2>1 DEF Fed
<1> QED
  BY <1>4, <1>5, <1>6, <1>7

LEMMA StartInv ==
    ASSUME CompInv, NEW S \in SUBSET Fx, Start(S)
    PROVE  TypeOK' /\ Shape' /\ Settled' /\ Fed'
<1>1. TypeOK /\ Settled
  BY DEF CompInv
<1>2. /\ \A f \in S : Pending(f)
      /\ status' = [f \in Fx |-> IF f \in S THEN "playing" ELSE status[f]]
      /\ UNCHANGED <<type, group, rounds, sits, result>>
  BY DEF Start
<1>3. status' \in [Fx -> {"pending", "playing", "done"}]
  BY <1>1, <1>2 DEF TypeOK
<1>4. ASSUME NEW h \in Fx
      PROVE  /\ status'[h] = "done" <=> status[h] = "done"
             /\ status'[h] = "playing" => Ready(h)
  BY <1>1, <1>2 DEF Pending, Settled
<1> QED
  BY <1>2, <1>3, <1>4, OnlyStatus

LEMMA CallOffInv ==
    ASSUME CompInv, NEW f \in Fx, CallOff(f)
    PROVE  TypeOK' /\ Shape' /\ Settled' /\ Fed'
<1>1. TypeOK /\ Settled
  BY DEF CompInv
<1>2. /\ status[f] = "playing" /\ status' = [status EXCEPT ![f] = "pending"]
      /\ UNCHANGED <<type, group, rounds, sits, result>>
  BY DEF CallOff
<1>3. status' \in [Fx -> {"pending", "playing", "done"}]
  BY <1>1, <1>2 DEF TypeOK
<1>4. ASSUME NEW h \in Fx
      PROVE  /\ status'[h] = "done" <=> status[h] = "done"
             /\ status'[h] = "playing" => Ready(h)
  BY <1>1, <1>2, Types DEF Settled
<1> QED
  BY <1>2, <1>3, <1>4, OnlyStatus

LEMMA RestartInv ==
    ASSUME CompInv, Restart
    PROVE  /\ TypeOK' /\ Shape' /\ Settled' /\ Fed'
           /\ UNCHANGED <<type, group, rounds, sits, result>> /\ Fx' = Fx
           /\ \A h \in Fx : status'[h] = "done" <=> status[h] = "done"
           /\ status' = Unplayed(status)
<1>1. TypeOK /\ Settled /\ DiskCurrent
  BY DEF CompInv
<1>2. UNCHANGED <<type, group, rounds, sits, result>> /\ status' = Unplayed(status)
  BY <1>1 DEF Restart, DiskCurrent
<1>3. /\ status' \in [Fx -> {"pending", "playing", "done"}] /\ Fx' = Fx
      /\ \A h \in Fx : status'[h] = IF status[h] = "playing" THEN "pending" ELSE status[h]
  BY <1>1, <1>2 DEF TypeOK, Unplayed, Fx
<1>4. ASSUME NEW h \in Fx
      PROVE  /\ status'[h] = "done" <=> status[h] = "done"
             /\ status'[h] = "playing" => Ready(h)
  BY <1>3
<1> QED
  BY <1>2, <1>3, <1>4, OnlyStatus

LEMMA CloseInv ==
    ASSUME Close
    PROVE  TypeOK' /\ Shape' /\ Settled' /\ Fed'
<1>1. /\ type' = "none" /\ group' = <<>> /\ rounds' = 0
      /\ sits' = <<>> /\ status' = <<>> /\ result' = <<>>
  BY DEF Close
<1>2. Fx' = {} /\ Entrant' = {} /\ ~Knockouts'
  BY <1>1 DEF Fx, Entrant, Knockouts
<1>3. \A S : <<>> \in [{} -> S]
  OBVIOUS
<1>4. TypeOK'
  BY <1>1, <1>2, <1>3 DEF TypeOK
<1> QED
  BY <1>1, <1>2, <1>4 DEF Shape, Settled, Fed

-----------------------------------------------------------------------------
(* Least numbers, the order of a finite set, and the longest line *)

LEMMA Least ==
    ASSUME NEW T \in SUBSET Nat, T # {}
    PROVE  \E m \in T : \A n \in T : m <= n
<1>1. OpToRel(<, Nat) = {ss \in Nat \X Nat : ss[1] < ss[2]}
  BY Zenon DEF OpToRel
<1>2. \E x \in T : \A y \in T : ~(<<y, x>> \in {ss \in Nat \X Nat : ss[1] < ss[2]})
  BY <1>1, WFMin, NatLessThanWellFounded, Zenon
<1>3. PICK m \in T : \A y \in T : ~(<<y, m>> \in {ss \in Nat \X Nat : ss[1] < ss[2]})
  BY <1>2
<1>4. \A y \in T : y \in Nat /\ m \in Nat /\ ~(y < m)
  BY <1>3
<1> QED
  BY <1>4

(* The jth smallest: below it are j others.  If there were none for some j, *)
(* then there is a least such j; the successor of the one before it would do. *)
LEMMA Nth ==
    ASSUME NEW S \in SUBSET Nat, IsFiniteSet(S), NEW j \in 0..(Cardinality(S) - 1)
    PROVE  \E e \in S : Cardinality({d \in S : d < e}) = j
<1> DEFINE Below(e) == {d \in S : d < e}
           Missing == {i \in 0..(Cardinality(S) - 1) : \A e \in S : Cardinality(Below(e)) # i}
<1>1. Cardinality(S) \in Nat
  BY FS_CardinalityType
<1>2. SUFFICES ASSUME Missing # {} PROVE FALSE
  OBVIOUS
<1>3. Missing \in SUBSET Nat
  BY <1>1
<1>4. PICK i \in Missing : \A n \in Missing : i <= n
  BY <1>2, <1>3, Least
<1>5. /\ i \in Nat /\ i < Cardinality(S) /\ i \in 0..(Cardinality(S) - 1)
      /\ \A e \in S : Cardinality(Below(e)) # i
  BY <1>1, <1>4
<1>6. CASE i = 0
  <2>1. S # {}
    BY <1>1, <1>5, FS_EmptySet
  <2>2. PICK e \in S : \A d \in S : e <= d
    BY <2>1, Least
  <2>3. \A d \in S : ~(d < e)
    BY <2>2
  <2>4. Below(e) = {}
    BY <2>3
  <2> QED
    BY <1>5, <1>6, <2>4, FS_EmptySet
<1>7. CASE i # 0
  <2>1. i - 1 \in 0..(Cardinality(S) - 1) /\ ~(i <= i - 1)
    <3> DEFINE c == Cardinality(S)
    <3>1. c \in Nat /\ i \in Nat /\ i < c
      BY <1>1, <1>5
    <3> HIDE DEF c
    <3>2. i - 1 \in 0..(c - 1) /\ ~(i <= i - 1)
      BY <3>1, <1>7
    <3> QED
      BY <3>2 DEF c
  <2>2. i - 1 \notin Missing
    <3> HIDE DEF Missing
    <3> QED
      BY <1>4, <2>1
  <2>3. PICK e \in S : Cardinality(Below(e)) = i - 1
    BY <2>1, <2>2
  <2> DEFINE Upto == Below(e) \cup {e}
             Above == {d \in S : d > e}
  <2>4. IsFiniteSet(Below(e)) /\ e \notin Below(e)
    BY FS_Subset
  <2>5. Cardinality(Upto) = i
    <3>1. Cardinality(Upto) = Cardinality(Below(e)) + 1
      BY <2>4, FS_AddElement
    <3> QED
      BY <1>5, <2>3, <3>1
  <2>6. Above # {}
    <3> SUFFICES ASSUME Above = {} PROVE FALSE
      OBVIOUS
    <3>1. \A x \in S : x \in Nat /\ e \in Nat /\ ~(x > e)
      OBVIOUS
    <3>2. \A x \in S : x < e \/ x = e
      BY <3>1
    <3>3. S = Upto
      BY <3>2
    <3> HIDE DEF Upto
    <3> QED
      BY <1>1, <1>5, <2>5, <3>3
  <2>7. Above \in SUBSET Nat
    OBVIOUS
  <2>8. PICK d \in Above : \A x \in Above : d <= x
    BY <2>6, <2>7, Least
  <2>9. Below(d) = Upto
    <3>1. d \in S /\ d \in Nat /\ e \in Nat /\ e < d /\ \A x \in S : x > e => d <= x
      BY <2>8
    <3>2. \A x \in S : x < d <=> (x < e \/ x = e)
      BY <3>1
    <3> QED
      BY <3>2
  <2> QED
    BY <1>5, <2>5, <2>8, <2>9
<1> QED
  BY <1>6, <1>7

(* The largest of finitely many numbers: the least that bounds them. *)
LEMMA Greatest ==
    ASSUME NEW T \in SUBSET Nat, T # {}, NEW b \in Nat, \A n \in T : n <= b
    PROVE  \E m \in T : \A n \in T : n <= m
<1> DEFINE Bounds == {c \in Nat : \A n \in T : n <= c}
<1>1. Bounds \in SUBSET Nat /\ Bounds # {}
  OBVIOUS
<1>2. PICK m \in Bounds : \A c \in Bounds : m <= c
  BY <1>1, Least
<1>3. m \in Nat /\ \A n \in T : n <= m
  BY <1>2
<1>4. m \in T
  <2> SUFFICES ASSUME m \notin T PROVE FALSE
    OBVIOUS
  <2>1. \A n \in T : n <= m - 1
    <3> SUFFICES ASSUME NEW n \in T PROVE n <= m - 1
      OBVIOUS
    <3>1. n \in Nat /\ m \in Nat /\ n <= m /\ n # m
      BY <1>3
    <3> QED
      BY <3>1
  <2>2. m - 1 \in Nat
    <3>1. PICK n \in T : n \in Nat /\ n <= m - 1
      BY <2>1
    <3> QED
      BY <1>3, <3>1
  <2>3. m - 1 \in Bounds
    BY <2>1, <2>2
  <2>4. m <= m - 1
    BY <1>2, <2>3
  <2> QED
    BY <1>3, <2>4
<1> QED
  BY <1>3, <1>4

-----------------------------------------------------------------------------
(* A new bracket *)

LEMMA Sizes ==
    /\ \A n \in 1..6 : /\ SizeOf[n] \in Nat /\ SizeOf[n] \div 2 \in Nat
                       /\ SizeOf[n] = 2 * (SizeOf[n] \div 2) /\ SizeOf[n] \div 2 >= 1
    /\ \A n \in 2..6 : SizeOf[n] \div 2 = SizeOf[n - 1]
<1>1. \A n \in 1..6 : n = 1 \/ n = 2 \/ n = 3 \/ n = 4 \/ n = 5 \/ n = 6
  OBVIOUS
<1>2. /\ SizeOf[1] = 2 /\ SizeOf[2] = 4 /\ SizeOf[3] = 8
      /\ SizeOf[4] = 16 /\ SizeOf[5] = 32 /\ SizeOf[6] = 64
  BY DEF SizeOf
<1>3. \A n \in 1..6 : /\ SizeOf[n] \in Nat /\ SizeOf[n] \div 2 \in Nat
                      /\ SizeOf[n] = 2 * (SizeOf[n] \div 2) /\ SizeOf[n] \div 2 >= 1
  <2> SUFFICES ASSUME NEW n \in 1..6
               PROVE  /\ SizeOf[n] \in Nat /\ SizeOf[n] \div 2 \in Nat
                      /\ SizeOf[n] = 2 * (SizeOf[n] \div 2) /\ SizeOf[n] \div 2 >= 1
    OBVIOUS
  <2>1. SizeOf[n] \in {2, 4, 8, 16, 32, 64}
    BY <1>1, <1>2
  <2> HIDE DEF SizeOf
  <2>2. \A z \in {2, 4, 8, 16, 32, 64} : z \in Nat /\ z \div 2 \in Nat /\ z = 2 * (z \div 2) /\ z \div 2 >= 1
    OBVIOUS
  <2> QED
    BY <2>1, <2>2
<1>4. \A n \in 2..6 : n = 2 \/ n = 3 \/ n = 4 \/ n = 5 \/ n = 6
  OBVIOUS
<1>5. \A n \in 2..6 : SizeOf[n] \div 2 = SizeOf[n - 1]
  BY <1>2, <1>4
<1> QED
  BY <1>3, <1>5

LEMMA RoundsEnough ==
    ASSUME NEW k \in 2..64
    PROVE  /\ RoundsFor(k) \in 1..6 /\ BracketSize(k) >= k
           /\ BracketSize(k) \div 2 < k
<1> DEFINE Fits(r) == SizeOf[r] >= k /\ (r > 1 => SizeOf[r - 1] < k)
<1>1. /\ SizeOf[1] = 2 /\ SizeOf[2] = 4 /\ SizeOf[3] = 8
      /\ SizeOf[4] = 16 /\ SizeOf[5] = 32 /\ SizeOf[6] = 64
  BY DEF SizeOf
<1>2. \E r \in 1..6 : Fits(r)
  <2>1. CASE k <= 2
    BY <1>1, <2>1
  <2>2. CASE k > 2 /\ k <= 4
    BY <1>1, <2>2
  <2>3. CASE k > 4 /\ k <= 8
    BY <1>1, <2>3
  <2>4. CASE k > 8 /\ k <= 16
    BY <1>1, <2>4
  <2>5. CASE k > 16 /\ k <= 32
    BY <1>1, <2>5
  <2>6. CASE k > 32
    BY <1>1, <2>6
  <2> QED
    BY <2>1, <2>2, <2>3, <2>4, <2>5, <2>6
<1>3. RoundsFor(k) \in 1..6 /\ Fits(RoundsFor(k))
  BY <1>2, Zenon DEF RoundsFor
<1>4. SizeOf[RoundsFor(k)] \div 2 < k
  <2>1. CASE RoundsFor(k) = 1
    BY <1>1, <2>1
  <2>2. CASE RoundsFor(k) > 1
    BY <1>3, <2>2, Sizes
  <2> QED
    BY <1>3, <2>1, <2>2
<1> QED
  BY <1>3, <1>4 DEF BracketSize

(* A pair is of two entrants, or of one and a bye. *)
LEMMA PairEntrants ==
    ASSUME NEW k \in 2..64, NEW j \in 0..(BracketSize(k) \div 2 - 1)
    PROVE  /\ Pair(k, j) \in [Seat -> 0..(k - 1) \cup {Bye}]
           /\ Pair(k, j)[0] \in 0..(k - 1)
           /\ ~HasBye(Pair(k, j)) => Pair(k, j)[1] \in 0..(k - 1)
<1> DEFINE size == BracketSize(k)
           byes == size - k
           next == byes + 2 * (j - byes)
<1>1. /\ size >= k /\ size \div 2 < k /\ size \in Nat /\ size = 2 * (size \div 2)
      /\ size \div 2 \in Nat
  BY RoundsEnough, Sizes DEF BracketSize
<1>2. Pair(k, j) = [s \in Seat |-> IF j < byes THEN IF s = 0 THEN j ELSE Bye ELSE next + s]
  BY DEF Pair
<1>3. j \in Nat /\ j < size \div 2
  BY <1>1
<1> HIDE DEF size
<1>4. CASE j < byes
  <2>1. j \in 0..(k - 1)
    BY <1>1, <1>3, <1>4
  <2>2. Pair(k, j) = [s \in Seat |-> IF s = 0 THEN j ELSE Bye]
    BY <1>2, <1>4
  <2> QED
    BY <2>1, <2>2 DEF Seat, HasBye
<1>5. CASE ~(j < byes)
  <2>1. next \in 0..(k - 1) /\ next + 1 \in 0..(k - 1)
    BY <1>1, <1>3, <1>5
  <2>2. Pair(k, j) = [s \in Seat |-> next + s]
    BY <1>2, <1>5
  <2> HIDE DEF next
  <2> QED
    BY <2>1, <2>2 DEF Seat
<1> QED
  BY <1>4, <1>5

(* Which fixtures a bracket has. *)
LEMMA BracketFixtures ==
    ASSUME NEW k \in 2..64
    PROVE  /\ \A f \in FixturesFor(k) :
                /\ f = <<0, f[2], f[3]>> /\ f[2] \in 0..(RoundsFor(k) - 1)
                /\ f[3] \in Nat /\ f[3] < SizeOf[RoundsFor(k) - f[2]] \div 2
           /\ \A r \in 0..(RoundsFor(k) - 1), i \in Nat :
                i < SizeOf[RoundsFor(k) - r] \div 2 => <<0, r, i>> \in FixturesFor(k)
<1> DEFINE R == RoundsFor(k)
           Round(r) == {<<0, r, i>> : i \in 0..(SizeOf[R - r] \div 2 - 1)}
<1>1. R \in 1..6 /\ \A n \in 1..6 : SizeOf[n] \div 2 \in Nat
  BY RoundsEnough, Sizes
<1>2. FixturesFor(k) = UNION {Round(r) : r \in 0..(R - 1)}
  BY DEF FixturesFor
<1> HIDE DEF R
<1>3. \A r \in 0..(R - 1) : SizeOf[R - r] \div 2 \in Nat
  BY <1>1
<1>4. ASSUME NEW f \in FixturesFor(k)
      PROVE  /\ f = <<0, f[2], f[3]>> /\ f[2] \in 0..(R - 1)
             /\ f[3] \in Nat /\ f[3] < SizeOf[R - f[2]] \div 2
  <2>1. PICK r \in 0..(R - 1) : f \in Round(r)
    BY <1>2
  <2>2. PICK i \in 0..(SizeOf[R - r] \div 2 - 1) : f = <<0, r, i>>
    BY <2>1
  <2>3. i \in Nat /\ i < SizeOf[R - r] \div 2
    BY <1>3, <2>2
  <2> QED
    BY <2>2, <2>3
<1>5. ASSUME NEW r \in 0..(R - 1), NEW i \in Nat, i < SizeOf[R - r] \div 2
      PROVE  <<0, r, i>> \in FixturesFor(k)
  <2>1. i \in 0..(SizeOf[R - r] \div 2 - 1)
    BY <1>3, <1>5
  <2>2. <<0, r, i>> \in Round(r)
    BY <2>1
  <2> QED
    BY <1>2, <2>2
<1> QED
  BY <1>4, <1>5 DEF R

(* The ways up and down stay in the bracket. *)
LEMMA BracketWays ==
    ASSUME NEW k \in 2..64, NEW f \in FixturesFor(k)
    PROVE  /\ f[2] > 0 => \A s \in Seat : Feeder(f, s) \in FixturesFor(k)
           /\ f[2] + 1 < RoundsFor(k) => Up(f) \in FixturesFor(k)
<1> DEFINE R == RoundsFor(k)
<1>1. R \in 1..6
  BY RoundsEnough
<1>2. f[2] \in 0..(R - 1) /\ f[3] \in Nat /\ f[3] < SizeOf[R - f[2]] \div 2
  BY BracketFixtures
<1>3. \A r \in 0..(R - 1), i \in Nat :
        i < SizeOf[R - r] \div 2 => <<0, r, i>> \in FixturesFor(k)
  BY BracketFixtures
<1> HIDE DEF R
<1>4. ASSUME f[2] > 0, NEW s \in Seat
      PROVE  Feeder(f, s) \in FixturesFor(k)
  <2> DEFINE n == R - f[2]
  <2>1. f[2] - 1 \in 0..(R - 1) /\ R - (f[2] - 1) = n + 1 /\ n \in 1..6 /\ n + 1 \in 2..6
        /\ (n + 1) - 1 = n
    <3> DEFINE r == f[2]
    <3>1. r \in 0..(R - 1) /\ r > 0
      BY <1>2, <1>4
    <3> HIDE DEF r
    <3>2. r - 1 \in 0..(R - 1) /\ R - (r - 1) = (R - r) + 1 /\ R - r \in 1..6
      BY <1>1, <3>1
    <3>3. (R - r) + 1 \in 2..6 /\ ((R - r) + 1) - 1 = R - r
      BY <1>1, <3>1
    <3> QED
      BY <3>2, <3>3 DEF r
  <2>2. SizeOf[n + 1] \div 2 = 2 * (SizeOf[n] \div 2) /\ SizeOf[n] \div 2 \in Nat
    BY <2>1, Sizes
  <2>3. 2 * f[3] + s \in Nat /\ 2 * f[3] + s < 2 * (SizeOf[n] \div 2)
    <3> DEFINE half == SizeOf[n] \div 2
    <3>1. half \in Nat /\ f[3] \in Nat /\ f[3] < half /\ s \in {0, 1}
      BY <1>2, <2>2 DEF Seat
    <3> HIDE DEF half
    <3>2. 2 * f[3] + s \in Nat /\ 2 * f[3] + s < 2 * half
      BY <3>1
    <3> QED
      BY <3>2 DEF half
  <2>4. 2 * f[3] + s < SizeOf[R - (f[2] - 1)] \div 2
    BY <2>1, <2>2, <2>3
  <2> QED
    BY <1>3, <2>1, <2>3, <2>4 DEF Feeder
<1>5. ASSUME f[2] + 1 < R
      PROVE  Up(f) \in FixturesFor(k)
  <2> DEFINE n == R - f[2]
  <2>1. f[2] + 1 \in 0..(R - 1) /\ R - (f[2] + 1) = n - 1 /\ n - 1 \in 1..6 /\ n \in 2..6
    BY <1>1, <1>2, <1>5
  <2>2. SizeOf[n] \div 2 = 2 * (SizeOf[n - 1] \div 2) /\ SizeOf[n - 1] \div 2 \in Nat
    BY <2>1, Sizes
  <2>3. f[3] \div 2 \in Nat /\ f[3] \div 2 < SizeOf[n - 1] \div 2
    <3> DEFINE half == SizeOf[n - 1] \div 2
    <3>1. half \in Nat /\ f[3] \in Nat /\ f[3] < 2 * half
      BY <1>2, <2>2
    <3> HIDE DEF half
    <3>2. f[3] \div 2 \in Nat /\ f[3] \div 2 < half
      BY <3>1
    <3> QED
      BY <3>2 DEF half
  <2> QED
    BY <1>3, <2>1, <2>3 DEF Up
<1> QED
  BY <1>4, <1>5 DEF R

(* Who sits where in a new bracket: at the start only a bye has a winner. *)
StartsWith(first, g) == IF g[2] = 0 /\ HasBye(first[g[3]]) THEN first[g[3]][0] ELSE TBD

LEMMA BracketSits ==
    ASSUME NEW k \in 2..64, NEW p \in Shuffles(k), NEW f \in FixturesFor(k)
    PROVE  /\ f[2] = 0 => /\ SitsFor(k, p)[f] = FirstRound(k, p)[f[3]]
                          /\ FirstRound(k, p)[f[3]] \in [Seat -> 0..(k - 1) \cup {Bye}]
                          /\ FirstRound(k, p)[f[3]][0] \in 0..(k - 1)
                          /\ ~HasBye(FirstRound(k, p)[f[3]]) => FirstRound(k, p)[f[3]][1] \in 0..(k - 1)
           /\ f[2] # 0 => SitsFor(k, p)[f] = [s \in Seat |-> StartsWith(FirstRound(k, p), Feeder(f, s))]
<1>1. SitsFor(k, p)[f] = IF f[2] = 0 THEN FirstRound(k, p)[f[3]]
                         ELSE [s \in Seat |-> StartsWith(FirstRound(k, p), Feeder(f, s))]
  BY DEF SitsFor, StartsWith
<1>2. ASSUME f[2] = 0
      PROVE  /\ FirstRound(k, p)[f[3]] \in [Seat -> 0..(k - 1) \cup {Bye}]
             /\ FirstRound(k, p)[f[3]][0] \in 0..(k - 1)
             /\ ~HasBye(FirstRound(k, p)[f[3]]) => FirstRound(k, p)[f[3]][1] \in 0..(k - 1)
  <2> DEFINE slots == 0..(BracketSize(k) \div 2 - 1)
  <2>1. RoundsFor(k) \in 1..6 /\ BracketSize(k) = SizeOf[RoundsFor(k)] /\ BracketSize(k) \div 2 \in Nat
    BY RoundsEnough, Sizes DEF BracketSize
  <2>2. f[3] \in Nat /\ f[3] < BracketSize(k) \div 2
    <3>1. RoundsFor(k) - f[2] = RoundsFor(k)
      BY <1>2, <2>1
    <3> QED
      BY <2>1, <3>1, BracketFixtures
  <2>3. f[3] \in slots
    BY <2>1, <2>2
  <2>4. p \in [slots -> slots]
    BY DEF Shuffles
  <2>5. FirstRound(k, p)[f[3]] = Pair(k, p[f[3]]) /\ p[f[3]] \in slots
    <3> HIDE DEF slots
    <3> QED
      BY <2>3, <2>4 DEF FirstRound
  <2> QED
    BY <2>5, PairEntrants
<1> QED
  BY <1>1, <1>2

LEMMA BracketInv ==
    ASSUME NEW k \in Counts, NEW p \in Shuffles(k), Create(NewTournament(k, p))
    PROVE  TypeOK' /\ Shape' /\ Settled' /\ Fed'
<1> DEFINE all == FixturesFor(k)
           sits0 == SitsFor(k, p)
           first == FirstRound(k, p)
           up(g) == StartsWith(first, g)
           bye(f) == f[2] = 0 /\ HasBye(sits0[f])
<1>1. k \in 2..64
  BY CompetitionAssumption
<1>2. /\ type' = "tournament" /\ group' = [e \in 0..(k - 1) |-> 0] /\ rounds' = RoundsFor(k)
      /\ sits' = sits0
      /\ status' = [f \in all |-> IF bye(f) THEN "done" ELSE "pending"]
      /\ result' = [f \in all |-> IF bye(f) THEN ByeOf(sits0[f][0]) ELSE NoResult]
  BY DEF Create, NewTournament, File
<1>3. Fx' = all /\ Entrant' = 0..(k - 1) /\ Knockouts' /\ DOMAIN sits0 = all
  BY <1>2 DEF Fx, Entrant, Knockouts, SitsFor
<1>4. ASSUME NEW f \in all
      PROVE  /\ f = <<0, f[2], f[3]>> /\ f[2] \in 0..(RoundsFor(k) - 1) /\ f[3] \in Nat
             /\ f[2] > 0 => \A s \in Seat : Feeder(f, s) \in all
             /\ f[2] + 1 < RoundsFor(k) => Up(f) \in all
             /\ RoundsFor(k) \in Nat
  <2>1. /\ f = <<0, f[2], f[3]>> /\ f[2] \in 0..(RoundsFor(k) - 1) /\ f[3] \in Nat
    BY <1>1, BracketFixtures
  <2>2. /\ f[2] > 0 => \A s \in Seat : Feeder(f, s) \in all
        /\ f[2] + 1 < RoundsFor(k) => Up(f) \in all
    BY <1>1, BracketWays
  <2>3. RoundsFor(k) \in Nat
    BY <1>1, RoundsEnough
  <2> QED
    BY <2>1, <2>2, <2>3
<1>5. ASSUME NEW f \in all
      PROVE  /\ f[2] = 0 => /\ sits0[f] = first[f[3]]
                            /\ first[f[3]] \in [Seat -> 0..(k - 1) \cup {Bye}]
                            /\ first[f[3]][0] \in 0..(k - 1)
                            /\ ~HasBye(first[f[3]]) => first[f[3]][1] \in 0..(k - 1)
             /\ f[2] # 0 => sits0[f] = [s \in Seat |-> StartsWith(first, Feeder(f, s))]
  BY <1>1, BracketSits
<1> HIDE DEF all, sits0, first
<1> USE DEF StartsWith
<1>6. ASSUME NEW f \in all
      PROVE  bye(f) <=> f[2] = 0 /\ HasBye(first[f[3]])
  BY <1>5
<1>7. ASSUME NEW f \in all
      PROVE  sits0[f] \in [Seat -> 0..(k - 1) \cup {Bye, TBD}]
  <2>1. CASE f[2] = 0
    <3>1. sits0[f] \in [Seat -> 0..(k - 1) \cup {Bye}]
      BY <1>5, <2>1
    <3> QED
      BY <3>1
  <2>2. CASE f[2] # 0
    <3>1. \A s \in Seat : Feeder(f, s) \in all
      BY <1>4, <2>2
    <3>2. \A s \in Seat : up(Feeder(f, s)) \in 0..(k - 1) \cup {TBD}
      BY <1>5, <3>1
    <3>3. sits0[f] = [s \in Seat |-> up(Feeder(f, s))]
      BY <1>5, <2>2
    <3> HIDE DEF up
    <3>4. \A s \in Seat : sits0[f][s] \in 0..(k - 1) \cup {TBD}
      BY <3>2, <3>3
    <3>5. sits0[f] = [s \in Seat |-> sits0[f][s]]
      BY <3>3
    <3> QED
      BY <3>4, <3>5
  <2> QED
    BY <2>1, <2>2
<1>8. ASSUME NEW f \in all, bye(f)
      PROVE  /\ sits0[f][0] \in 0..(k - 1)
             /\ ByeOf(sits0[f][0]).winner = sits0[f][0] /\ ByeOf(sits0[f][0]).why = "bye"
             /\ ByeOf(sits0[f][0]) \in [winner : 0..(k - 1), goals : [Seat -> Goals], why : Reasons]
  <2>1. f[2] = 0 /\ sits0[f] = first[f[3]] /\ first[f[3]][0] \in 0..(k - 1)
    BY <1>5, <1>8
  <2>2. \A e \in 0..(k - 1) : /\ ByeOf(e).winner = e /\ ByeOf(e).why = "bye"
            /\ ByeOf(e) \in [winner : 0..(k - 1), goals : [Seat -> Goals], why : Reasons]
    BY NoResultType DEF ByeOf, Reasons
  <2> QED
    BY <2>1, <2>2
<1>9. ASSUME NEW f \in all, f[2] = 0
      PROVE  bye(f) \/ Ready(f)'
  <2>1. CASE HasBye(first[f[3]])
    BY <1>6, <1>9, <2>1
  <2>2. CASE ~HasBye(first[f[3]])
    <3>1. \A s \in Seat : sits0[f][s] \in 0..(k - 1)
      BY <1>5, <1>9, <2>2 DEF Seat
    <3>2. \A z \in 0..(k - 1) : z >= 0
      BY <1>1
    <3> QED
      BY <1>2, <3>1, <3>2 DEF Ready
  <2> QED
    BY <2>1, <2>2
<1>10. TypeOK'
  <2>1. sits' \in [Fx' -> [Seat -> Entrant' \cup (IF Knockouts' THEN {Bye, TBD} ELSE {})]]
    <3>1. sits0 = [f \in all |-> sits0[f]]
      BY <1>3 DEF sits0, SitsFor, all
    <3> QED
      BY <1>2, <1>3, <1>7, <3>1
  <2>2. status' \in [Fx' -> {"pending", "playing", "done"}]
    BY <1>2, <1>3
  <2>3. result' \in [Fx' -> [winner : Entrant' \cup {Nobody}, goals : [Seat -> Goals], why : Reasons]]
    <3> SUFFICES ASSUME NEW f \in all
                 PROVE  (IF bye(f) THEN ByeOf(sits0[f][0]) ELSE NoResult)
                          \in [winner : 0..(k - 1) \cup {Nobody}, goals : [Seat -> Goals], why : Reasons]
      BY <1>2, <1>3, Zenon
    <3>1. NoResult \in [winner : 0..(k - 1) \cup {Nobody}, goals : [Seat -> Goals], why : Reasons]
      BY NoResultType
    <3>2. CASE bye(f)
      <4>1. ByeOf(sits0[f][0]) \in [winner : 0..(k - 1), goals : [Seat -> Goals], why : Reasons]
        BY <1>8, <3>2
      <4> HIDE DEF bye
      <4> QED
        BY <3>2, <4>1
    <3> QED
      BY <3>1, <3>2
  <2>4. \A f \in Fx' : result'[f].winner \in {sits'[f][s] : s \in Seat} \cup {Nobody}
    <3> SUFFICES ASSUME NEW f \in all
                 PROVE  result'[f].winner \in {sits0[f][s] : s \in Seat} \cup {Nobody}
      BY <1>2, <1>3
    <3>1. CASE bye(f)
      <4>1. result'[f] = ByeOf(sits0[f][0])
        BY <1>2, <3>1
      <4> QED
        <5>1. result'[f].winner = sits0[f][0]
          BY <1>8, <3>1, <4>1
        <5> QED
          BY <5>1 DEF Seat
    <3>2. CASE ~bye(f)
      <4>1. result'[f] = NoResult
        BY <1>2, <3>2
      <4> QED
        BY <4>1 DEF NoResult
    <3> QED
      BY <3>1, <3>2
  <2>5. type' = "tournament" /\ \A e \in Entrant' : group'[e] \in Nat
    BY <1>2, <1>3
  <2>6. rounds' \in Nat
    <3>1. RoundsFor(k) \in Nat
      BY <1>1, RoundsEnough
    <3> QED
      BY <1>2, <3>1
  <2> QED
    BY <2>1, <2>2, <2>3, <2>4, <2>5, <2>6 DEF TypeOK
<1>11. Shape'
  <2>1. Entrant' \subseteq Nat
    BY <1>1, <1>3
  <2> QED
    BY <1>2, <1>3, <1>4, <2>1 DEF Shape
<1>12. Settled'
  <2> SUFFICES ASSUME NEW f \in all
               PROVE  /\ status'[f] # "done" => result'[f] = NoResult
                      /\ status'[f] = "playing" => Ready(f)'
                      /\ status'[f] = "done" => result'[f].winner # Nobody
                      /\ f[2] > 0 /\ status'[f] = "done" => Ready(f)'
                      /\ f[2] = 0 => Ready(f)' \/ (status'[f] = "done" /\ result'[f].why = "bye")
    BY <1>2, <1>3 DEF Settled
  <2>1. CASE bye(f)
    <3>1. /\ status'[f] = "done" /\ f[2] = 0 /\ sits0[f][0] \in 0..(k - 1)
          /\ result'[f].winner = sits0[f][0] /\ result'[f].why = "bye"
      <4>1. result'[f] = ByeOf(sits0[f][0])
        BY <1>2, <2>1
      <4> QED
        BY <1>2, <1>8, <2>1, <4>1
    <3>2. Nobody \notin 0..(k - 1)
      BY <1>1 DEF Nobody
    <3> QED
      BY <3>1, <3>2
  <2>2. CASE ~bye(f)
    <3>1. status'[f] = "pending" /\ result'[f] = NoResult
      BY <1>2, <2>2
    <3> QED
      BY <1>9, <2>2, <3>1
  <2> QED
    BY <2>1, <2>2
<1>13. Fed'
  <2> SUFFICES ASSUME NEW f \in all, f[2] > 0, NEW s \in Seat
               PROVE  sits0[f][s] = IF status'[Feeder(f, s)] = "done"
                                    THEN result'[Feeder(f, s)].winner ELSE TBD
    BY <1>2, <1>3 DEF Fed
  <2>1. Feeder(f, s) \in all
    BY <1>4
  <2>2. sits0[f][s] = up(Feeder(f, s))
    <3>1. sits0[f] = [z \in Seat |-> up(Feeder(f, z))]
      <4>1. f[2] # 0
        BY <1>4
      <4> QED
        BY <1>5, <4>1
    <3> HIDE DEF up
    <3> QED
      BY <3>1
  <2>3. CASE bye(Feeder(f, s))
    <3>1. status'[Feeder(f, s)] = "done" /\ result'[Feeder(f, s)].winner = sits0[Feeder(f, s)][0]
      <4>1. status'[Feeder(f, s)] = "done" /\ result'[Feeder(f, s)] = ByeOf(sits0[Feeder(f, s)][0])
        BY <1>2, <2>1, <2>3
      <4> QED
        BY <1>8, <2>1, <2>3, <4>1
    <3>2. up(Feeder(f, s)) = sits0[Feeder(f, s)][0]
      BY <1>5, <1>6, <2>1, <2>3
    <3> QED
      BY <2>2, <3>1, <3>2
  <2>4. CASE ~bye(Feeder(f, s))
    <3>1. status'[Feeder(f, s)] = "pending"
      BY <1>2, <2>1, <2>4
    <3>2. up(Feeder(f, s)) = TBD
      BY <1>6, <2>1, <2>4
    <3> QED
      BY <2>2, <3>1, <3>2
  <2> QED
    BY <2>3, <2>4
<1> QED
  BY <1>10, <1>11, <1>12, <1>13

-----------------------------------------------------------------------------
(* A new league *)

LEMMA GroupingsType ==
    ASSUME NEW q \in Leagues, NEW gr \in Groupings(q)
    PROVE  /\ q.count \in 2..64 /\ q.groups \in 1..32
           /\ gr \in [0..(q.count - 1) -> 0..(q.groups - 1)]
           /\ \A g \in 0..(q.groups - 1) : \E e \in 0..(q.count - 1) : gr[e] = g
<1>1. q.count \in 2..64 /\ q.groups \in 1..32 /\ 2 * q.groups <= q.count
  BY CompetitionAssumption
<1>2. CASE q.manual /\ q.groups > 1
  <2>1. /\ gr \in [0..(q.count - 1) -> 0..(q.groups - 1)]
        /\ \A g \in 0..(q.groups - 1) : Size(gr, g) >= 2
    BY <1>2 DEF Groupings
  <2>2. ASSUME NEW g \in 0..(q.groups - 1) PROVE \E e \in 0..(q.count - 1) : gr[e] = g
    <3>1. SUFFICES ASSUME {e \in DOMAIN gr : gr[e] = g} = {} PROVE FALSE
      BY <2>1
    <3>2. Size(gr, g) = 0
      BY <3>1, FS_EmptySet DEF Size
    <3> QED
      BY <2>1, <3>2
  <2> QED
    BY <1>1, <2>1, <2>2
<1>3. CASE ~(q.manual /\ q.groups > 1)
  <2> DEFINE c == q.count
             n == q.groups
  <2>1. gr = [e \in 0..(c - 1) |-> e % n]
    BY <1>3 DEF Groupings
  <2>2. c \in Nat /\ n \in Nat /\ n > 0 /\ n <= c
    BY <1>1
  <2> HIDE DEF c, n
  <2>3. \A e \in 0..(c - 1) : e % n \in 0..(n - 1)
    BY <2>2
  <2>4. \A g \in 0..(n - 1) : g \in 0..(c - 1) /\ g % n = g
    BY <2>2
  <2>5. gr \in [0..(c - 1) -> 0..(n - 1)] /\ \A g \in 0..(n - 1) : \E e \in 0..(c - 1) : gr[e] = g
    BY <2>1, <2>3, <2>4
  <2> QED
    BY <1>1, <2>5 DEF c, n
<1> QED
  BY <1>2, <1>3

(* A line holds entrants and perhaps a bye, and is of even length. *)
LEMMA LineEntrants ==
    ASSUME NEW n \in Nat, NEW gr, DOMAIN gr = 0..(n - 1), NEW g, \E e \in DOMAIN gr : gr[e] = g
    PROVE  /\ Line(gr, g) \in Seq(0..(n - 1) \cup {Bye})
           /\ Len(Line(gr, g)) \in 1..(n + 1)
<1> DEFINE S == {e \in DOMAIN gr : gr[e] = g}
           m == Size(gr, g)
           jth(j) == CHOOSE e \in DOMAIN gr :
                       gr[e] = g /\ Cardinality({d \in DOMAIN gr : gr[d] = g /\ d < e}) = j - 1
           nth == [j \in 1..m |-> jth(j)]
<1>1. IsFiniteSet(0..(n - 1)) /\ Cardinality(0..(n - 1)) = n
  <2>1. 0 \in Int /\ n - 1 \in Int
    OBVIOUS
  <2>2. IsFiniteSet(0..(n - 1)) /\ Cardinality(0..(n - 1)) = IF 0 <= n - 1 THEN (n - 1) - 0 + 1 ELSE 0
    BY <2>1, FS_Interval
  <2> QED
    BY <2>2
<1>2. S \in SUBSET (0..(n - 1)) /\ S \in SUBSET Nat
  OBVIOUS
<1>3. IsFiniteSet(S) /\ Cardinality(S) \in Nat /\ Cardinality(S) <= n
  BY <1>1, <1>2, FS_Subset, FS_CardinalityType
<1>4. m = Cardinality(S) /\ S # {}
  BY DEF Size
<1>5. Cardinality(S) # 0
  BY <1>3, <1>4, FS_EmptySet
<1>6. m \in 1..n
  BY <1>3, <1>4, <1>5
<1>7. ASSUME NEW j \in 1..m
      PROVE  jth(j) \in 0..(n - 1)
  <2>1. j - 1 \in 0..(Cardinality(S) - 1)
    BY <1>3, <1>4
  <2>2. PICK e \in S : Cardinality({d \in S : d < e}) = j - 1
    BY <1>2, <1>3, <2>1, Nth
  <2>3. {d \in S : d < e} = {d \in DOMAIN gr : gr[d] = g /\ d < e}
    OBVIOUS
  <2>4. e \in DOMAIN gr /\ gr[e] = g /\ Cardinality({d \in DOMAIN gr : gr[d] = g /\ d < e}) = j - 1
    BY <2>2, <2>3
  <2> QED
    BY <2>4
<1> DEFINE A == 0..(n - 1) \cup {Bye}
<1>8. nth \in Seq(A) /\ Len(nth) = m
  <2>1. nth \in [1..m -> A] /\ m \in Nat
    <3>1. \A j \in 1..m : jth(j) \in A
      BY <1>7
    <3> HIDE DEF jth, m, A
    <3>2. m \in Nat
      BY <1>6
    <3> QED
      BY <3>1, <3>2
  <2> HIDE DEF nth, m, A
  <2> QED
    BY <2>1
<1>9. Line(gr, g) = IF m % 2 = 1 THEN Append(nth, Bye) ELSE nth
  BY DEF Line
<1>10. Bye \in A
  OBVIOUS
<1> HIDE DEF nth, m, A
<1>11. Line(gr, g) \in Seq(A) /\ Len(Line(gr, g)) \in 1..(n + 1)
  <2>1. Append(nth, Bye) \in Seq(A) /\ Len(Append(nth, Bye)) = m + 1
    BY <1>6, <1>8, <1>10
  <2>2. m + 1 \in 1..(n + 1) /\ m \in 1..(n + 1)
    BY <1>6
  <2> QED
    BY <1>8, <1>9, <2>1, <2>2
<1> QED
  BY <1>11 DEF A

(* However far a line has moved, the same stand in it. *)
LEMMA OppositeEntrants ==
    ASSUME NEW A, NEW line \in Seq(A), NEW r \in Nat, NEW i \in 0..(Len(line) \div 2 - 1)
    PROVE  Opposite(line, r, i) \in [Seat -> A]
<1> DEFINE n == Len(line)
           at(j) == IF j = 1 THEN 1 ELSE 2 + ((j - 2 - r) % (n - 1))
           now == LineIn(line, r)
<1>1. n \in Nat /\ DOMAIN line = 1..n /\ \A j \in 1..n : line[j] \in A
  OBVIOUS
<1>2. now = [j \in 1..n |-> line[at(j)]]
  BY <1>1 DEF LineIn
<1> HIDE DEF n
<1>3. ASSUME NEW j \in 1..n PROVE at(j) \in 1..n
  <2>1. CASE j = 1
    BY <1>1, <2>1
  <2>2. CASE j # 1
    <3> DEFINE z == j - 2 - r
               w == n - 1
    <3>1. z \in Int /\ w \in Int /\ w > 0 /\ n = w + 1
      BY <1>1, <2>2
    <3> HIDE DEF z, w
    <3>2. z % w \in 0..(w - 1)
      BY <3>1
    <3>3. 2 + (z % w) \in 1..n
      BY <3>1, <3>2
    <3> QED
      BY <2>2, <3>3 DEF z, w
  <2> QED
    BY <2>1, <2>2
<1>4. \A j \in 1..n : now[j] \in A
  <2> HIDE DEF at
  <2> QED
    BY <1>1, <1>2, <1>3
<1>5. i + 1 \in 1..n /\ n - i \in 1..n
  <2>1. i \in 0..(n \div 2 - 1)
    BY DEF n
  <2>2. n \div 2 \in Nat /\ n \div 2 <= n
    BY <1>1
  <2> QED
    BY <1>1, <2>1, <2>2
<1>6. Opposite(line, r, i) = [s \in Seat |-> IF s = r % 2 THEN now[i + 1] ELSE now[n - i]]
  BY DEF Opposite, n
<1> HIDE DEF now
<1> QED
  BY <1>4, <1>5, <1>6

(* The rounds of a league are those of its longest line. *)
LEMMA RoundsLongest ==
    ASSUME NEW lens, NEW b \in Nat, DOMAIN lens # {}, \A g \in DOMAIN lens : lens[g] \in 1..b
    PROVE  RoundsOf(lens) \in Nat /\ \A g \in DOMAIN lens : lens[g] - 1 <= RoundsOf(lens)
<1> DEFINE T == {lens[g] - 1 : g \in DOMAIN lens}
<1>1. T \in SUBSET Nat /\ T # {} /\ \A n \in T : n <= b
  OBVIOUS
<1>2. PICK m \in T : \A n \in T : n <= m
  <2> HIDE DEF T
  <2> QED
    BY <1>1, Greatest
<1>3. m \in T /\ \A g \in DOMAIN lens : lens[g] - 1 <= m
  BY <1>2
<1>4. RoundsOf(lens) = CHOOSE r \in T : \A g \in DOMAIN lens : lens[g] - 1 <= r
  BY DEF RoundsOf
<1> HIDE DEF T
<1>5. RoundsOf(lens) \in T /\ \A g \in DOMAIN lens : lens[g] - 1 <= RoundsOf(lens)
  BY <1>3, <1>4
<1> QED
  BY <1>1, <1>5

(* The lines of a league, and the rounds they need. *)
LEMMA LeagueLine ==
    ASSUME NEW q \in Leagues, NEW gr \in Groupings(q), NEW g \in 0..(q.groups - 1)
    PROVE  /\ Line(gr, g) \in Seq(0..(q.count - 1) \cup {Bye})
           /\ Len(Line(gr, g)) \in 1..65
<1> DEFINE c == q.count
           n == q.groups
<1>1. /\ c \in 2..64 /\ gr \in [0..(c - 1) -> 0..(n - 1)]
      /\ \A h \in 0..(n - 1) : \E e \in 0..(c - 1) : gr[e] = h
      /\ g \in 0..(n - 1)
  BY GroupingsType
<1> HIDE DEF c, n
<1>2. c \in Nat /\ DOMAIN gr = 0..(c - 1) /\ \E e \in DOMAIN gr : gr[e] = g
  BY <1>1
<1>3. Line(gr, g) \in Seq(0..(c - 1) \cup {Bye}) /\ Len(Line(gr, g)) \in 1..(c + 1)
  BY <1>2, LineEntrants
<1>4. \A z \in 1..(c + 1) : z \in 1..65
  BY <1>1
<1> QED
  BY <1>3, <1>4 DEF c

LEMMA LeagueRounds ==
    ASSUME NEW q \in Leagues, NEW gr \in Groupings(q)
    PROVE  LET last == RoundsOf([g \in 0..(q.groups - 1) |-> Len(Line(gr, g))])
           IN  last \in Nat /\ \A g \in 0..(q.groups - 1) : Len(Line(gr, g)) - 1 <= last
<1> DEFINE lens == [g \in 0..(q.groups - 1) |-> Len(Line(gr, g))]
<1>1. q.groups \in 1..32
  BY GroupingsType
<1>2. DOMAIN lens # {} /\ \A g \in DOMAIN lens : lens[g] \in 1..65
  <2>1. 0 \in 0..(q.groups - 1)
    BY <1>1
  <2>2. \A g \in 0..(q.groups - 1) : Len(Line(gr, g)) \in 1..65
    BY LeagueLine
  <2> QED
    BY <2>1, <2>2
<1>3. DOMAIN lens = 0..(q.groups - 1) /\ \A g \in DOMAIN lens : lens[g] = Len(Line(gr, g))
  OBVIOUS
<1> HIDE DEF lens
<1>4. 65 \in Nat
  OBVIOUS
<1>5. RoundsOf(lens) \in Nat /\ \A g \in DOMAIN lens : lens[g] - 1 <= RoundsOf(lens)
  BY <1>2, <1>4, RoundsLongest
<1> QED
  BY <1>3, <1>5 DEF lens

LEMMA SidesAreFunction ==
    ASSUME NEW q, NEW gr
    PROVE  SidesOf(q, gr) = [f \in DOMAIN SidesOf(q, gr) |-> SidesOf(q, gr)[f]]
<1> DEFINE lines == [g \in 0..(q.groups - 1) |-> Line(gr, g)]
           m(g) == Len(lines[g])
           places == UNION {{<<g, r, i>> : r \in 0..(m(g) - 2), i \in 0..(m(g) \div 2 - 1)}
                              : g \in DOMAIN lines}
           two == [f \in places |-> Opposite(lines[f[1]], f[2], f[3])]
           made == {f \in places : \A s \in Seat : two[f][s] # Bye}
<1>1. SidesOf(q, gr) = [f \in made |-> two[f]]
  BY DEF SidesOf
<1> HIDE DEF made, two
<1> QED
  BY <1>1

(* The fixtures of a new league are between two entrants of a group and lie *)
(* in the rounds.                                                           *)
LEMMA LeagueSits ==
    ASSUME NEW q \in Leagues, NEW gr \in Groupings(q),
           NEW f \in DOMAIN SidesOf(q, gr)
    PROVE  /\ SidesOf(q, gr)[f] \in [Seat -> 0..(q.count - 1)]
           /\ f[2] \in 0..(RoundsOf([g \in 0..(q.groups - 1) |-> Len(Line(gr, g))]) - 1)
<1> DEFINE lines == [g \in 0..(q.groups - 1) |-> Line(gr, g)]
           m(g) == Len(lines[g])
           from(g) == {<<g, r, i>> : r \in 0..(m(g) - 2), i \in 0..(m(g) \div 2 - 1)}
           places == UNION {{<<g, r, i>> : r \in 0..(m(g) - 2), i \in 0..(m(g) \div 2 - 1)}
                              : g \in DOMAIN lines}
           two == [h \in places |-> Opposite(lines[h[1]], h[2], h[3])]
           made == {h \in places : \A s \in Seat : two[h][s] # Bye}
           A == 0..(q.count - 1) \cup {Bye}
           last == RoundsOf([g \in 0..(q.groups - 1) |-> Len(Line(gr, g))])
<1>1. SidesOf(q, gr) = [h \in made |-> two[h]]
  BY DEF SidesOf
<1>2. places = UNION {from(g) : g \in 0..(q.groups - 1)}
  OBVIOUS
<1> HIDE DEF places
<1>3. \A h \in places : two[h] = Opposite(lines[h[1]], h[2], h[3])
  OBVIOUS
<1> HIDE DEF two
<1>4. f \in places /\ SidesOf(q, gr)[f] = two[f] /\ \A s \in Seat : two[f][s] # Bye
  BY <1>1
<1>5. PICK g \in 0..(q.groups - 1) : f \in from(g)
  <2> HIDE DEF from
  <2> QED
    BY <1>2, <1>4
<1>6. lines[g] = Line(gr, g)
  OBVIOUS
<1> HIDE DEF lines
<1>7. PICK r \in 0..(m(g) - 2), i \in 0..(m(g) \div 2 - 1) : f = <<g, r, i>>
  <2> HIDE DEF m
  <2> QED
    BY <1>5
<1>8. f[1] = g /\ f[2] = r /\ f[3] = i
  BY <1>7
<1>9. Line(gr, g) \in Seq(A) /\ Len(Line(gr, g)) \in 1..65
  BY LeagueLine
<1>10. r \in Nat /\ r <= Len(Line(gr, g)) - 2
  BY <1>6, <1>7, <1>9
<1>11. two[f] = Opposite(Line(gr, g), r, i)
  BY <1>3, <1>4, <1>6, <1>8
<1> HIDE DEF A
<1>12. two[f] \in [Seat -> A]
  BY <1>6, <1>7, <1>9, <1>10, <1>11, OppositeEntrants
<1>13. SidesOf(q, gr)[f] \in [Seat -> 0..(q.count - 1)]
  BY <1>4, <1>12 DEF A
<1>14. last \in Nat /\ Len(Line(gr, g)) - 1 <= last
  BY LeagueRounds
<1> HIDE DEF last
<1>15. f[2] \in 0..(last - 1)
  BY <1>8, <1>9, <1>10, <1>14
<1> QED
  BY <1>13, <1>15 DEF last

LEMMA LeagueInv ==
    ASSUME NEW q \in Leagues, NEW gr \in Groupings(q), Create(NewLeague(q, gr))
    PROVE  TypeOK' /\ Shape' /\ Settled' /\ Fed'
<1> DEFINE sits0 == SidesOf(q, gr)
           all == DOMAIN sits0
           last == RoundsOf([g \in 0..(q.groups - 1) |-> Len(Line(gr, g))])
<1>1. /\ type' = "league" /\ group' = gr /\ rounds' = last /\ sits' = sits0
      /\ status' = [f \in all |-> "pending"] /\ result' = [f \in all |-> NoResult]
  BY DEF Create, NewLeague, File
<1>2. q.count \in 2..64 /\ gr \in [0..(q.count - 1) -> 0..(q.groups - 1)] /\ q.groups \in 1..32
      /\ \A g \in 0..(q.groups - 1) : \E e \in 0..(q.count - 1) : gr[e] = g
  BY GroupingsType
<1>3. Fx' = all /\ Entrant' = 0..(q.count - 1) /\ ~Knockouts'
  BY <1>1, <1>2 DEF Fx, Entrant, Knockouts
<1>4. \A f \in all : sits0[f] \in [Seat -> 0..(q.count - 1)] /\ f[2] \in 0..(last - 1)
  BY LeagueSits
<1>5. last \in Nat
  BY LeagueRounds
<1>6. sits0 = [f \in all |-> sits0[f]]
  BY SidesAreFunction
<1> HIDE DEF sits0, last
<1>7. TypeOK'
  <2>1. sits' \in [Fx' -> [Seat -> Entrant' \cup (IF Knockouts' THEN {Bye, TBD} ELSE {})]]
    BY <1>1, <1>3, <1>4, <1>6
  <2>2. status' \in [Fx' -> {"pending", "playing", "done"}]
    BY <1>1, <1>3
  <2>3. result' \in [Fx' -> [winner : Entrant' \cup {Nobody}, goals : [Seat -> Goals], why : Reasons]]
    BY <1>1, <1>3, NoResultType
  <2>4. \A f \in Fx' : result'[f].winner \in {sits'[f][s] : s \in Seat} \cup {Nobody}
    BY <1>1, <1>3 DEF NoResult
  <2>5. type' = "league" /\ rounds' \in Nat /\ \A e \in Entrant' : group'[e] \in Nat
    BY <1>1, <1>2, <1>3, <1>5
  <2> QED
    BY <2>1, <2>2, <2>3, <2>4, <2>5 DEF TypeOK
<1>8. Shape'
  BY <1>1, <1>2, <1>3, <1>4 DEF Shape
<1>9. Settled' /\ Fed'
  BY <1>1, <1>3 DEF Settled, Fed
<1> QED
  BY <1>7, <1>8, <1>9

-----------------------------------------------------------------------------
(* The file *)

LEMMA SavedIsCurrent ==
    ASSUME Save
    PROVE  DiskCurrent'
<1>1. disk' = [type |-> type', group |-> group', rounds |-> rounds',
               sits |-> sits', status |-> status', result |-> result']
  BY DEF Save, File
<1> QED
  BY <1>1 DEF DiskCurrent

LEMMA UnplayedTwice ==
    ASSUME NEW st
    PROVE  Unplayed(Unplayed(st)) = Unplayed(st)
BY DEF Unplayed

LEMMA RestartCurrent ==
    ASSUME CompInv, Restart
    PROVE  DiskCurrent'
<1>1. /\ UNCHANGED <<type, group, rounds, sits, result>>
      /\ status' = Unplayed(status)
  BY RestartInv
<1>2. disk' = disk /\ DiskCurrent
  BY DEF Restart, CompInv
<1>3. Unplayed(disk'.status) = Unplayed(status')
  BY <1>1, <1>2, UnplayedTwice DEF DiskCurrent
<1> QED
  BY <1>1, <1>2, <1>3 DEF DiskCurrent

LEMMA CloseCurrent ==
    ASSUME Close
    PROVE  DiskCurrent'
BY DEF Close, DiskCurrent, NoFile, File

-----------------------------------------------------------------------------
(* The invariant *)

LEMMA InitInv == Init => CompInv
<1> SUFFICES ASSUME Init PROVE CompInv
  OBVIOUS
<1>1. /\ type = "none" /\ group = <<>> /\ rounds = 0
      /\ sits = <<>> /\ status = <<>> /\ result = <<>> /\ disk = NoFile
  BY DEF Init
<1>2. Fx = {} /\ Entrant = {} /\ ~Knockouts
  BY <1>1 DEF Fx, Entrant, Knockouts
<1>3. \A S : <<>> \in [{} -> S]
  OBVIOUS
<1>4. TypeOK
  BY <1>1, <1>2, <1>3 DEF TypeOK
<1>5. DiskCurrent
  BY <1>1 DEF DiskCurrent, NoFile, File
<1> QED
  BY <1>1, <1>2, <1>4, <1>5 DEF CompInv, Shape, Settled, Fed

LEMMA CreateInv ==
    ASSUME NEW c \in New, Create(c)
    PROVE  CompInv'
<1> DEFINE brackets == UNION {{NewTournament(k, p) : p \in Shuffles(k)} : k \in Counts}
           tables == UNION {{NewLeague(q, gr) : gr \in Groupings(q)} : q \in Leagues}
<1>1. CASE c \in brackets
  <2>1. PICK k \in Counts : c \in {NewTournament(k, p) : p \in Shuffles(k)}
    BY <1>1
  <2>2. PICK p \in Shuffles(k) : c = NewTournament(k, p)
    BY <2>1
  <2>3. Create(NewTournament(k, p))
    BY <2>2
  <2>4. Save
    BY DEF Create
  <2> QED
    BY <2>3, <2>4, BracketInv, SavedIsCurrent DEF CompInv
<1>2. CASE c \in tables
  <2>1. PICK q \in Leagues : c \in {NewLeague(q, gr) : gr \in Groupings(q)}
    BY <1>2
  <2>2. PICK gr \in Groupings(q) : c = NewLeague(q, gr)
    BY <2>1
  <2>3. Create(NewLeague(q, gr))
    BY <2>2
  <2>4. Save
    BY DEF Create
  <2> QED
    BY <2>3, <2>4, LeagueInv, SavedIsCurrent DEF CompInv
<1>3. New = brackets \cup tables
  BY DEF New
<1> HIDE DEF brackets, tables
<1> QED
  BY <1>1, <1>2, <1>3

LEMMA CurrentFixtures == Current \subseteq Fx
BY DEF Current, Unfinished

LEMMA DecideInv ==
    ASSUME CompInv, NEW f, NEW w, NEW goals, NEW why, Decides(f, w, goals, why)
    PROVE  CompInv'
<1>1. Save
  BY DEF Decides
<1> QED
  BY <1>1, DecideTypes, DecideSettled, DecideFed, SavedIsCurrent DEF CompInv

(* Each step is one of these. *)
LEMMA Steps ==
    ASSUME CompInv, Next
    PROVE  \/ \E c \in New : Create(c)
           \/ \E S \in SUBSET Fx : Start(S)
           \/ \E f \in Fx : CallOff(f)
           \/ \E f \in Fx : Undo(f)
           \/ \E f, w, goals, why : Decides(f, w, goals, why)
           \/ Close
           \/ Restart
<1>1. TypeOK /\ Settled
  BY DEF CompInv
<1>2. CASE \E S \in SUBSET Current : Start(S)
  BY <1>2, CurrentFixtures
<1>3. ASSUME NEW f \in Fx, Start({f})
      PROVE  \E S \in SUBSET Fx : Start(S)
  <2>1. {f} \in SUBSET Fx
    OBVIOUS
  <2> QED
    BY <1>3, <2>1
<1>4. ASSUME NEW f \in Fx, NEW w \in {sits[f][s] : s \in Seat} \cup {Nobody}, TeacherDecides(f, w)
      PROVE  \E h, v, goals, why : Decides(h, v, goals, why)
  <2>1. Decides(f, w, NoResult.goals, "teacher")
    BY <1>1, <1>4, TeacherDecidesDecides
  <2> QED
    BY <2>1
<1>5. ASSUME NEW f \in Fx, NEW w \in {sits[f][s] : s \in Seat} \cup {Nobody},
             NEW goals \in [Seat -> Goals], Record(f, w, goals)
      PROVE  \E h, v, gs, why : Decides(h, v, gs, why)
  <2>1. Decides(f, w, goals, "match")
    BY <1>1, <1>5, RecordDecides
  <2> QED
    BY <2>1
<1> QED
  BY <1>2, <1>3, <1>4, <1>5 DEF Next

LEMMA NextInv == CompInv /\ [Next]_vars => CompInv'
<1> SUFFICES ASSUME CompInv, [Next]_vars PROVE CompInv'
  OBVIOUS
<1>1. CASE UNCHANGED vars
  <2>1. /\ UNCHANGED <<type, group, rounds, sits, status, result, disk>>
    BY <1>1 DEF vars, memory
  <2>2. TypeOK' <=> TypeOK
    BY <2>1 DEF TypeOK, Fx, Entrant, Knockouts
  <2>3. Shape' <=> Shape
    BY <2>1 DEF Shape, Fx, Entrant, Knockouts
  <2>4. Settled' <=> Settled
    BY <2>1 DEF Settled, Fx, Knockouts, Ready
  <2>5. Fed' <=> Fed
    BY <2>1 DEF Fed, Fx, Knockouts
  <2>6. DiskCurrent' <=> DiskCurrent
    BY <2>1 DEF DiskCurrent
  <2> QED
    BY <2>2, <2>3, <2>4, <2>5, <2>6 DEF CompInv
<1>2. CASE \E c \in New : Create(c)
  BY <1>2, CreateInv
<1>3. ASSUME NEW S \in SUBSET Fx, Start(S) PROVE CompInv'
  <2>1. Save
    BY <1>3 DEF Start
  <2> QED
    BY <1>3, <2>1, StartInv, SavedIsCurrent DEF CompInv
<1>4. ASSUME NEW f \in Fx, CallOff(f) PROVE CompInv'
  <2>1. Save
    BY <1>4 DEF CallOff
  <2> QED
    BY <1>4, <2>1, CallOffInv, SavedIsCurrent DEF CompInv
<1>5. ASSUME NEW f \in Fx, Undo(f) PROVE CompInv'
  <2>1. Save
    BY <1>5 DEF Undo
  <2> QED
    BY <1>5, <2>1, UndoTypes, UndoSettled, UndoFed, SavedIsCurrent DEF CompInv
<1>6. CASE \E f, w, goals, why : Decides(f, w, goals, why)
  BY <1>6, DecideInv
<1>7. CASE Close
  BY <1>7, CloseInv, CloseCurrent DEF CompInv
<1>8. CASE Restart
  BY <1>8, RestartInv, RestartCurrent DEF CompInv
<1> QED
  BY <1>1, <1>2, <1>3, <1>4, <1>5, <1>6, <1>7, <1>8, Steps

(* From the start and after every step. *)
THEOREM CompetitionCorrect == Spec => []CompInv
<1>1. Init => CompInv
  BY InitInv
<1>2. CompInv /\ [Next]_vars => CompInv'
  BY NextInv
<1> QED
  BY <1>1, <1>2, PTL DEF Spec

(* TypeOK of Competition: every seat is an entrant, a bye or still open,    *)
(* and a result names one of the two who played for it.                     *)
THEOREM TypesHold == Spec => []TypeOK
<1>1. CompInv => TypeOK
  BY DEF CompInv
<1> QED
  BY <1>1, CompetitionCorrect, PTL

(* Fed of Competition: results given by matches and by the teacher, taken   *)
(* back and given again in any order always reach the next round.           *)
THEOREM BracketFed == Spec => []Fed
<1>1. CompInv => Fed
  BY DEF CompInv
<1> QED
  BY <1>1, CompetitionCorrect, PTL

(* DiskCurrent of Competition: whenever the program stops, the file holds   *)
(* everything but that some matches were under way.                         *)
THEOREM FileCurrent == Spec => []DiskCurrent
<1>1. CompInv => DiskCurrent
  BY DEF CompInv
<1> QED
  BY <1>1, CompetitionCorrect, PTL

-----------------------------------------------------------------------------
(* Never stuck *)

(* The current round is the least with an open fixture. *)
LEMMA CurrentRound ==
    ASSUME CompInv, ~Finished
    PROVE  \E r \in 0..(rounds - 1) : /\ Current = Unfinished(r)
                                      /\ \A q \in 0..(rounds - 1) : q < r => Unfinished(q) = {}
<1>1. rounds \in Nat
  BY DEF CompInv, TypeOK
<1>2. Open # {} /\ Open \in SUBSET Nat /\ Open \subseteq 0..(rounds - 1)
  BY <1>1 DEF Finished, Open
<1>3. \E m \in Open : \A n \in Open : m <= n
  BY <1>2, Least
<1> DEFINE r == CHOOSE r \in Open : \A q \in Open : r <= q
<1>4. r \in Open /\ \A q \in Open : r <= q
  BY <1>3
<1>5. Current = Unfinished(r)
  BY DEF Current
<1> HIDE DEF r
<1>6. ASSUME NEW q \in 0..(rounds - 1), q < r PROVE Unfinished(q) = {}
  <2> SUFFICES ASSUME Unfinished(q) # {} PROVE FALSE
    OBVIOUS
  <2>1. q \in Open
    BY DEF Open
  <2>2. r <= q /\ r \in Nat /\ q \in Nat
    BY <1>2, <1>4, <2>1
  <2> QED
    BY <1>6, <2>2
<1> QED
  BY <1>2, <1>4, <1>5, <1>6

LEMMA CurrentReady ==
    ASSUME CompInv, NEW f \in Current
    PROVE  Ready(f)
<1>1. TypeOK /\ Shape /\ Settled /\ Fed
  BY DEF CompInv
<1>2. ~Finished
  BY DEF Current
<1>3. PICK r \in 0..(rounds - 1) : /\ Current = Unfinished(r)
                                   /\ \A q \in 0..(rounds - 1) : q < r => Unfinished(q) = {}
  BY <1>2, CurrentRound
<1>4. f \in Fx /\ f[2] = r /\ status[f] # "done"
  BY <1>3 DEF Unfinished
<1>5. CASE ~Knockouts
  <2>1. \A s \in Seat : sits[f][s] \in Entrant
    BY <1>1, <1>4, <1>5, Types
  <2> QED
    BY <1>1, <1>4, <2>1, ReadyEntrants
<1>6. CASE Knockouts /\ f[2] = 0
  BY <1>1, <1>4, <1>6 DEF Settled
<1>7. CASE Knockouts /\ f[2] # 0
  <2>1. rounds \in Nat /\ f[2] \in Nat /\ f[2] > 0 /\ f = <<0, f[2], f[3]>> /\ f[3] \in Nat
    BY <1>1, <1>4, <1>7, InBracket
  <2>2. ASSUME NEW s \in Seat PROVE sits[f][s] \in Entrant
    <3> DEFINE g == Feeder(f, s)
    <3>1. g \in Fx /\ g[2] = f[2] - 1
      BY <1>1, <1>4, <1>7, <2>1, InBracket, DownThenUp
    <3>2. g[2] \in 0..(rounds - 1) /\ g[2] < r
      BY <1>3, <1>4, <2>1, <3>1
    <3> HIDE DEF g
    <3>3. status[g] = "done"
      BY <1>3, <3>1, <3>2 DEF Unfinished
    <3>4. sits[f][s] = result[g].winner
      BY <1>1, <1>4, <1>7, <2>1, <3>3 DEF Fed, g
    <3>5. result[g].winner # Nobody
      BY <1>1, <1>7, <3>1, <3>3 DEF Settled
    <3>6. result[g].winner \in Entrant \cup {Nobody}
      BY <1>1, <3>1, Types
    <3> QED
      BY <3>4, <3>5, <3>6
  <2> QED
    BY <1>1, <1>4, <2>2, ReadyEntrants
<1> QED
  BY <1>5, <1>6, <1>7

(* NotStuck of Competition: in the current round every open fixture has     *)
(* both its entrants, and the competition is over exactly when every        *)
(* fixture of every group has a result.                                     *)
THEOREM NeverStuck == Spec => []NotStuck
<1>1. ASSUME CompInv PROVE NotStuck
  <2>1. \A f \in Current : Ready(f)
    BY <1>1, CurrentReady
  <2>2. \A f \in Fx : f[2] \in 0..(rounds - 1)
    BY <1>1 DEF CompInv, Shape
  <2>3. Finished <=> \A f \in Fx : status[f] = "done"
    BY <2>2 DEF Finished, Open, Unfinished
  <2> QED
    BY <2>1, <2>3 DEF NotStuck
<1>2. CompInv => NotStuck
  BY <1>1
<1> QED
  BY <1>2, CompetitionCorrect, PTL

-----------------------------------------------------------------------------
(* A result on which the next match was started *)

LEMMA ResultKept ==
    ASSUME CompInv, Next, NEW f \in Fx, status[f] = "done", GoesUp(f), status[Up(f)] # "pending",
           ~Finished, group' = group, type' = type
    PROVE  status'[f] = "done" /\ result'[f] = result[f]
<1>1. CASE \E c \in New : Create(c)
  BY <1>1 DEF Create
<1>2. ASSUME NEW S \in SUBSET Fx, Start(S) PROVE status'[f] = "done" /\ result'[f] = result[f]
  BY <1>2 DEF Start, Pending
<1>3. ASSUME NEW h \in Fx, CallOff(h) PROVE status'[f] = "done" /\ result'[f] = result[f]
  <2>1. h # f /\ status' = [status EXCEPT ![h] = "pending"] /\ result' = result
    BY <1>3 DEF CallOff
  <2> QED
    BY <2>1
<1>4. ASSUME NEW h \in Fx, Undo(h) PROVE status'[f] = "done" /\ result'[f] = result[f]
  <2>1. h # f
    BY <1>4 DEF Undo, MayUndo
  <2> QED
    BY <1>4, <2>1, UndoFacts
<1>5. ASSUME NEW h, NEW w, NEW goals, NEW why, Decides(h, w, goals, why)
      PROVE  status'[f] = "done" /\ result'[f] = result[f]
  <2>1. /\ h # f /\ status' = [status EXCEPT ![h] = "done"]
        /\ result' = [result EXCEPT ![h] = [winner |-> w, goals |-> goals, why |-> why]]
    BY <1>5 DEF Decides, Decided
  <2> QED
    BY <2>1
<1>6. CASE Close
  BY <1>6 DEF Close
<1>7. CASE Restart
  BY <1>7, RestartInv
<1> QED
  BY <1>1, <1>2, <1>3, <1>4, <1>5, <1>6, <1>7, Steps

(* ResultStands of Competition: a result on which the next match was        *)
(* started stands for good.                                                 *)
THEOREM ResultsStand == Spec => ResultStands
<1>1. CompInv /\ [Next]_vars
        => [\A f \in Fx : /\ status[f] = "done" /\ GoesUp(f) /\ status[Up(f)] # "pending"
                          /\ ~Finished /\ group' = group /\ type' = type
              => status'[f] = "done" /\ result'[f] = result[f]]_vars
  BY ResultKept
<1> QED
  BY <1>1, CompetitionCorrect, PTL DEF Spec, ResultStands
=============================================================================
