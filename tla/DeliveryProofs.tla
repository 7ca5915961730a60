--------------------------- MODULE DeliveryProofs ---------------------------
(***************************************************************************)
(* Proofs about Delivery for every size of the buffer and every number of  *)
(* matches: the types, the screen that agrees with the hub when all has    *)
(* arrived (InStep), and shows of a match only what is later (NeverBack).  *)
(*                                                                         *)
(* What is under way decides what the page will show, so the invariant     *)
(* speaks of all pages that may come about on the way: at every place of   *)
(* the channel stands a set of pages, that of the page at its head, each   *)
(* one leading to the next by the message between.  A page that leaves its *)
(* match may do so at any place, so a page without a match is in each set. *)
(***************************************************************************)
EXTENDS Delivery, SequenceTheorems, TLAPS

(* A page, [match, shown], and what a message makes of it (onMsg). *)
Pages(n) == [match : 0..n, shown : Frames \cup {NoFrame}]
Out      == [match |-> 0, shown |-> NoFrame]
Here     == [match |-> pmatch, shown |-> shown]

After(x, msg) ==
    IF msg.t = "match"
    THEN [match |-> msg.match, shown |-> IF msg.match = x.match THEN x.shown ELSE NoFrame]
    ELSE IF msg.t = "s"
    THEN [match |-> x.match, shown |-> IF x.match = 0 THEN x.shown ELSE msg.frame]
    ELSE IF msg.t = "cancelled" THEN Out ELSE x

(* The second state is of the same match and not earlier; an end is final. *)
Follows(a, b) == a.match = b.match /\ a.ver <= b.ver /\ (a.phase = "end" => a = b)
Onward(x, y)  == x.match = y.match /\ x.shown # NoFrame /\ y.shown # NoFrame
                   => Follows(x.shown, y.shown)

(* In the student's match a page shows nothing that the hub, whose state is *)
(* h, has not seen; when all has arrived it is in no other match, and shows *)
(* the end of one that is over.                                             *)
Own(x, h)   == h.match # 0 /\ x.match = h.match => x.shown = NoFrame \/ Follows(x.shown, h)
Final(x, h) ==
    /\ h.match = 0 => x.match = 0 \/ x.shown.phase = "end"
    /\ h.match # 0 => /\ x.match \in {0, h.match}
                      /\ h.phase = "end" /\ x.match = h.match => x.shown = h

(* The pages on the way through q, of which p is the first. *)
OnTheWay(R, q, p, h, n, mode) ==
    /\ R \in [0..Len(q) -> SUBSET Pages(n)] /\ p \in R[0]
    /\ \A k \in 0..Len(q) : Out \in R[k] /\ \A x \in R[k] : Own(x, h)
    /\ \A k \in 1..Len(q) : \A x \in R[k - 1] :
         After(x, q[k]) \in R[k] /\ (mode = "sure" => Onward(x, After(x, q[k])))
    /\ mode = "sure" => \A x \in R[Len(q)] : Final(x, h)

Leads(q, p, h, n, mode) == \E R : OnTheWay(R, q, p, h, n, mode)

(* The last word on whether the page is in a match is that it is; the last  *)
(* lobby list is that of now.                                               *)
EndsIn(q, m) ==
    \E i \in 0..Len(q) : /\ IF i = 0 THEN m # 0 ELSE q[i].t = "match"
                         /\ \A j \in (i + 1)..Len(q) : q[j].t # "cancelled"
EndsWith(q, l, now) ==
    \E i \in 0..Len(q) : /\ IF i = 0 THEN l = now ELSE q[i].t = "lobby" /\ q[i].lobby = now
                         /\ \A j \in (i + 1)..Len(q) : q[j].t # "lobby"

Says(h) == IF h.match # 0 THEN "match" ELSE "idle"

(* Nothing that is not sent again was dropped; no "leave" is under way, and *)
(* the lobby list is not about to be sent.                                  *)
Sure    == IF conn = "up" /\ ~apart THEN "sure" ELSE "open"
SureIn  == IF conn = "up" /\ ~apart /\ ~leaving THEN "sure" ELSE "open"
SureOf  == IF conn = "up" /\ ~apart /\ ~dirty THEN "sure" ELSE "open"

Good(q, p, l, h, n, mode, in, of) ==
    /\ Leads(q, p, h, n, mode)
    /\ in = "sure" /\ h.match # 0 => EndsIn(q, p.match)
    /\ of = "sure" => EndsWith(q, l, Says(h))

Arriving == Good(chan, Here, plob, Frame, last, Sure, SureIn, SureOf)
Quiet    == (cur = 0 => ~main) /\ (conn # "up" => chan = <<>>)

DeliveryInv == TypeOK /\ Quiet /\ Arriving

-----------------------------------------------------------------------------
(* What the hub's step and the message it sends have to do with the pages *)

Keeps(h, g, n)          == \A x \in Pages(n) : Own(x, h) => Own(x, g)
KeepsFinal(h, g, n)     == \A x \in Pages(n) : Own(x, h) /\ Final(x, h) => Final(x, g)
Carries(h, g, msg, n, k) == \A x \in Pages(n) : Own(x, h) =>
                              /\ Own(x, g) /\ After(x, msg) \in Pages(k) /\ Own(After(x, msg), g)
Finishes(h, g, msg, n)  == \A x \in Pages(n) : Own(x, h) /\ Final(x, h) =>
                              Onward(x, After(x, msg)) /\ Final(After(x, msg), g)

LEMMA OutIsFine ==
    ASSUME NEW n \in Nat, NEW h
    PROVE  Out \in Pages(n) /\ Own(Out, h) /\ Final(Out, h)
BY DEF Out, Pages, Own, Final

LEMMA MorePages ==
    ASSUME NEW n \in Nat, NEW k \in Nat, n <= k
    PROVE  Pages(n) \subseteq Pages(k)
BY DEF Pages

(* The hub goes on and sends nothing that arrives. *)
LEMMA NothingSent ==
    ASSUME NEW q, Len(q) \in Nat, NEW p, NEW l, NEW h, NEW n \in Nat, NEW mode, NEW in, NEW of,
           Good(q, p, l, h, n, mode, in, of),
           NEW g, NEW k \in Nat, n <= k, NEW mode2, NEW in2, NEW of2,
           Keeps(h, g, n),
           mode2 = "sure" => mode = "sure" /\ KeepsFinal(h, g, n),
           in2 = "sure" /\ g.match # 0 => in = "sure" /\ h.match # 0,
           of2 = "sure" => of = "sure" /\ Says(g) = Says(h)
    PROVE  Good(q, p, l, g, k, mode2, in2, of2)
<1>1. PICK R : OnTheWay(R, q, p, h, n, mode)
  BY DEF Good, Leads
<1>2. OnTheWay(R, q, p, g, k, mode2)
  <2>1. R \in [0..Len(q) -> SUBSET Pages(k)] /\ p \in R[0]
    BY <1>1, MorePages DEF OnTheWay
  <2>2. \A i \in 0..Len(q) : R[i] \subseteq Pages(n)
    BY <1>1 DEF OnTheWay
  <2>3. \A i \in 0..Len(q) : Out \in R[i] /\ \A x \in R[i] : Own(x, g)
    BY <1>1, <2>2 DEF OnTheWay, Keeps
  <2>4. mode2 = "sure" => \A x \in R[Len(q)] : Final(x, g)
    BY <1>1, <2>2 DEF OnTheWay, KeepsFinal
  <2> QED
    BY <1>1, <2>1, <2>3, <2>4 DEF OnTheWay
<1>3. Leads(q, p, g, k, mode2)
  BY <1>2 DEF Leads
<1> QED
  BY <1>3 DEF Good

LEMMA WayLengthened ==
    ASSUME NEW q \in Seq(Messages), NEW msg \in Messages, NEW p, NEW h, NEW n \in Nat, NEW mode,
           Leads(q, p, h, n, mode),
           NEW g, NEW k \in Nat, n <= k, NEW mode2,
           Carries(h, g, msg, n, k),
           mode2 = "sure" => mode = "sure" /\ Finishes(h, g, msg, n)
    PROVE  Leads(Append(q, msg), p, g, k, mode2)
<1>1. PICK R : OnTheWay(R, q, p, h, n, mode)
  BY DEF Leads
<1> DEFINE m == Len(q)
           ahead == {After(x, msg) : x \in R[m]} \cup {Out}
           S == [i \in 0..(m + 1) |-> IF i <= m THEN R[i] ELSE ahead]
<1>2. m \in Nat /\ Len(Append(q, msg)) = m + 1 /\ Append(q, msg)[m + 1] = msg
      /\ \A i \in 1..m : Append(q, msg)[i] = q[i]
  OBVIOUS
<1>3. /\ R \in [0..m -> SUBSET Pages(n)] /\ p \in R[0]
      /\ \A i \in 0..m : Out \in R[i] /\ \A x \in R[i] : Own(x, h)
      /\ \A i \in 1..m : \A x \in R[i - 1] :
           After(x, q[i]) \in R[i] /\ (mode = "sure" => Onward(x, After(x, q[i])))
      /\ mode = "sure" => \A x \in R[m] : Final(x, h)
  BY <1>1 DEF OnTheWay
<1> HIDE DEF m
<1>4. \A i \in 0..m : R[i] \subseteq Pages(n) /\ R[i] \subseteq Pages(k)
  BY <1>3, MorePages
<1>5. \A i \in 0..m : \A x \in R[i] : Own(x, g)
  BY <1>3, <1>4 DEF Carries
<1>6. \A x \in R[m] : After(x, msg) \in Pages(k) /\ Own(After(x, msg), g)
  BY <1>2, <1>3, <1>4 DEF Carries
<1>7. mode2 = "sure" => \A x \in R[m] : Onward(x, After(x, msg)) /\ Final(After(x, msg), g)
  BY <1>2, <1>3, <1>4 DEF Finishes
<1>8. Out \in Pages(k) /\ Own(Out, g) /\ Final(Out, g)
  BY OutIsFine
<1>9. /\ ahead \subseteq Pages(k) /\ Out \in ahead
      /\ \A x \in ahead : Own(x, g)
      /\ mode2 = "sure" => \A x \in ahead : Final(x, g)
      /\ \A x \in R[m] : After(x, msg) \in ahead
  BY <1>6, <1>7, <1>8
<1> HIDE DEF ahead
<1>10. S[m + 1] = ahead /\ \A i \in 0..m : S[i] = R[i]
  BY <1>2
<1>11. S \in [0..(m + 1) -> SUBSET Pages(k)]
  BY <1>4, <1>9
<1> HIDE DEF S
<1>12. OnTheWay(S, Append(q, msg), p, g, k, mode2)
  <2>1. p \in S[0]
    BY <1>2, <1>3, <1>10
  <2>2. ASSUME NEW i \in 0..(m + 1) PROVE Out \in S[i] /\ \A x \in S[i] : Own(x, g)
    <3>1. CASE i = m + 1
      BY <1>9, <1>10, <3>1
    <3>2. CASE i # m + 1
      <4>1. i \in 0..m
        BY <1>2, <3>2
      <4> QED
        BY <1>3, <1>5, <1>10, <4>1
    <3> QED
      BY <3>1, <3>2
  <2>3. ASSUME NEW i \in 1..(m + 1), NEW x \in S[i - 1]
        PROVE  /\ After(x, Append(q, msg)[i]) \in S[i]
               /\ mode2 = "sure" => Onward(x, After(x, Append(q, msg)[i]))
    <3>1. CASE i = m + 1
      <4>1. i - 1 = m /\ x \in R[m] /\ Append(q, msg)[i] = msg
        BY <1>2, <1>10, <3>1
      <4> QED
        BY <1>7, <1>9, <1>10, <3>1, <4>1
    <3>2. CASE i # m + 1
      <4>1. i \in 1..m /\ i \in 0..m /\ i - 1 \in 0..m
        BY <1>2, <3>2
      <4>2. x \in R[i - 1] /\ Append(q, msg)[i] = q[i] /\ S[i] = R[i]
        BY <1>2, <1>10, <4>1
      <4> QED
        BY <1>3, <4>1, <4>2
    <3> QED
      BY <3>1, <3>2
  <2>4. mode2 = "sure" => \A x \in S[m + 1] : Final(x, g)
    BY <1>9, <1>10
  <2> QED
    BY <1>2, <1>11, <2>1, <2>2, <2>3, <2>4 DEF OnTheWay
<1> QED
  BY <1>12 DEF Leads

(* The hub goes on and a message is queued. *)
LEMMA OneSent ==
    ASSUME NEW q \in Seq(Messages), NEW msg \in Messages, NEW p, NEW l, NEW h, NEW n \in Nat,
           NEW mode, NEW in, NEW of,
           Good(q, p, l, h, n, mode, in, of),
           NEW g, NEW k \in Nat, n <= k, NEW mode2, NEW in2, NEW of2,
           Carries(h, g, msg, n, k),
           mode2 = "sure" => mode = "sure" /\ Finishes(h, g, msg, n),
           in2 = "sure" /\ g.match # 0 =>
             msg.t = "match" \/ (in = "sure" /\ h.match # 0 /\ msg.t # "cancelled"),
           of2 = "sure" => \/ msg.t = "lobby" /\ msg.lobby = Says(g)
                           \/ of = "sure" /\ Says(g) = Says(h) /\ msg.t # "lobby"
    PROVE  Good(Append(q, msg), p, l, g, k, mode2, in2, of2)
<1> DEFINE m == Len(q)
           q2 == Append(q, msg)
<1>1. m \in Nat /\ Len(q2) = m + 1 /\ q2[m + 1] = msg /\ \A i \in 1..m : q2[i] = q[i]
  OBVIOUS
<1>2. /\ Leads(q, p, h, n, mode)
      /\ in = "sure" /\ h.match # 0 => EndsIn(q, p.match)
      /\ of = "sure" => EndsWith(q, l, Says(h))
  BY DEF Good
<1>3. Leads(q2, p, g, k, mode2)
  BY <1>2, WayLengthened
<1> HIDE DEF q2
<1>4. ASSUME EndsIn(q, p.match), msg.t # "cancelled" PROVE EndsIn(q2, p.match)
  <2>1. PICK i \in 0..m : /\ IF i = 0 THEN p.match # 0 ELSE q[i].t = "match"
                          /\ \A j \in (i + 1)..m : q[j].t # "cancelled"
    BY <1>4 DEF EndsIn
  <2> HIDE DEF m
  <2>2. i \in 0..(m + 1) /\ IF i = 0 THEN p.match # 0 ELSE q2[i].t = "match"
    BY <1>1, <2>1
  <2>3. \A j \in (i + 1)..(m + 1) : j = m + 1 \/ (j \in 1..m /\ j \in (i + 1)..m)
    BY <1>1
  <2>4. \A j \in (i + 1)..(m + 1) : q2[j].t # "cancelled"
    BY <1>1, <1>4, <2>1, <2>3
  <2> QED
    BY <1>1, <2>2, <2>4 DEF EndsIn
<1>5. ASSUME msg.t = "match" PROVE EndsIn(q2, p.match)
  <2>1. m + 1 \in 0..Len(q2) /\ m + 1 # 0 /\ \A j \in ((m + 1) + 1)..Len(q2) : FALSE
    BY <1>1
  <2> QED
    BY <1>1, <1>5, <2>1 DEF EndsIn
<1>6. ASSUME EndsWith(q, l, Says(h)), Says(g) = Says(h), msg.t # "lobby"
      PROVE  EndsWith(q2, l, Says(g))
  <2>1. PICK i \in 0..m : /\ IF i = 0 THEN l = Says(h) ELSE q[i].t = "lobby" /\ q[i].lobby = Says(h)
                          /\ \A j \in (i + 1)..m : q[j].t # "lobby"
    BY <1>6 DEF EndsWith
  <2> HIDE DEF m
  <2>2. i \in 0..(m + 1) /\ IF i = 0 THEN l = Says(g) ELSE q2[i].t = "lobby" /\ q2[i].lobby = Says(g)
    BY <1>1, <1>6, <2>1
  <2>3. \A j \in (i + 1)..(m + 1) : j = m + 1 \/ (j \in 1..m /\ j \in (i + 1)..m)
    BY <1>1
  <2>4. \A j \in (i + 1)..(m + 1) : q2[j].t # "lobby"
    BY <1>1, <1>6, <2>1, <2>3
  <2> QED
    BY <1>1, <2>2, <2>4 DEF EndsWith
<1>7. ASSUME msg.t = "lobby", msg.lobby = Says(g) PROVE EndsWith(q2, l, Says(g))
  <2>1. m + 1 \in 0..Len(q2) /\ m + 1 # 0 /\ \A j \in ((m + 1) + 1)..Len(q2) : FALSE
    BY <1>1
  <2> QED
    BY <1>1, <1>7, <2>1 DEF EndsWith
<1>8. in2 = "sure" /\ g.match # 0 => EndsIn(q2, p.match)
  BY <1>2, <1>4, <1>5
<1>9. of2 = "sure" => EndsWith(q2, l, Says(g))
  BY <1>2, <1>6, <1>7
<1> QED
  BY <1>3, <1>8, <1>9 DEF Good, q2

-----------------------------------------------------------------------------
(* The page *)

LEMMA OneReceived ==
    ASSUME NEW q \in Seq(Messages), q # <<>>, NEW p, NEW l, NEW h, NEW n \in Nat,
           NEW mode, NEW in, NEW of,
           Good(q, p, l, h, n, mode, in, of)
    PROVE  LET msg == Head(q)
               seen == IF msg.t = "lobby" THEN msg.lobby ELSE l
           IN  /\ Good(Tail(q), After(p, msg), seen, h, n, mode, in, of)
               /\ After(p, msg) \in Pages(n)
               /\ mode = "sure" => Onward(p, After(p, msg))
<1> DEFINE m == Len(q)
           msg == Head(q)
           seen == IF msg.t = "lobby" THEN msg.lobby ELSE l
           q2 == Tail(q)
           p2 == After(p, msg)
<1>1. m \in Nat /\ m >= 1 /\ Len(q2) = m - 1 /\ q[1] = msg /\ msg \in Messages
      /\ \A i \in 1..(m - 1) : q2[i] = q[i + 1]
  OBVIOUS
<1> HIDE DEF m, msg, q2
<1>2. PICK R : OnTheWay(R, q, p, h, n, mode)
  BY DEF Good, Leads
<1>3. /\ R \in [0..m -> SUBSET Pages(n)] /\ p \in R[0]
      /\ \A i \in 0..m : Out \in R[i] /\ \A x \in R[i] : Own(x, h)
      /\ \A i \in 1..m : \A x \in R[i - 1] :
           After(x, q[i]) \in R[i] /\ (mode = "sure" => Onward(x, After(x, q[i])))
      /\ mode = "sure" => \A x \in R[m] : Final(x, h)
  BY <1>2 DEF OnTheWay, m
<1>4. p2 \in R[1] /\ p2 \in Pages(n) /\ (mode = "sure" => Onward(p, p2))
  <2>1. 1 \in 1..m /\ 1 - 1 = 0 /\ 1 \in 0..m
    BY <1>1
  <2>2. p2 \in R[1] /\ (mode = "sure" => Onward(p, p2))
    BY <1>1, <1>3, <2>1
  <2> QED
    BY <1>3, <2>1, <2>2
<1> HIDE DEF p2
<1> DEFINE S == [i \in 0..(m - 1) |-> R[i + 1]]
<1>5. OnTheWay(S, q2, p2, h, n, mode)
  <2>1. \A i \in 0..(m - 1) : i + 1 \in 0..m /\ S[i] = R[i + 1]
    BY <1>1
  <2>2. S \in [0..(m - 1) -> SUBSET Pages(n)]
    <3>1. \A i \in 0..(m - 1) : R[i + 1] \in SUBSET Pages(n)
      BY <1>3, <2>1
    <3> QED
      BY <3>1
  <2> HIDE DEF S
  <2>3. p2 \in S[0]
    BY <1>1, <1>4, <2>1
  <2>4. \A i \in 0..(m - 1) : Out \in S[i] /\ \A x \in S[i] : Own(x, h)
    BY <1>3, <2>1
  <2>5. ASSUME NEW i \in 1..(m - 1), NEW x \in S[i - 1]
        PROVE  After(x, q2[i]) \in S[i] /\ (mode = "sure" => Onward(x, After(x, q2[i])))
    <3>1. i - 1 \in 0..(m - 1) /\ i \in 0..(m - 1) /\ i + 1 \in 1..m /\ (i - 1) + 1 = i
          /\ (i + 1) - 1 = i
      BY <1>1
    <3>2. x \in R[i] /\ q2[i] = q[i + 1] /\ S[i] = R[i + 1]
      BY <1>1, <2>1, <3>1
    <3>3. x \in R[(i + 1) - 1]
      BY <3>1, <3>2
    <3> QED
      BY <1>3, <3>1, <3>2, <3>3
  <2>6. mode = "sure" => \A x \in S[m - 1] : Final(x, h)
    <3>1. m - 1 \in 0..(m - 1) /\ (m - 1) + 1 = m
      BY <1>1
    <3> QED
      BY <1>3, <2>1, <3>1
  <2> QED
    BY <1>1, <2>2, <2>3, <2>4, <2>5, <2>6 DEF OnTheWay
<1>6. Leads(q2, p2, h, n, mode)
  BY <1>5 DEF Leads
<1>7. ASSUME EndsIn(q, p.match) PROVE EndsIn(q2, p2.match)
  <2>1. PICK i \in 0..m : /\ IF i = 0 THEN p.match # 0 ELSE q[i].t = "match"
                          /\ \A j \in (i + 1)..m : q[j].t # "cancelled"
    BY <1>7 DEF EndsIn, m
  <2>2. CASE i > 1
    <3>1. i - 1 \in 0..(m - 1) /\ i - 1 # 0 /\ q2[i - 1].t = "match"
      BY <1>1, <2>1, <2>2
    <3>2. \A j \in ((i - 1) + 1)..(m - 1) : q2[j] = q[j + 1] /\ j + 1 \in (i + 1)..m
      BY <1>1, <2>2
    <3>3. \A j \in ((i - 1) + 1)..(m - 1) : q2[j].t # "cancelled"
      BY <2>1, <3>2
    <3> QED
      BY <1>1, <3>1, <3>3 DEF EndsIn
  <2>3. CASE i <= 1
    <3>1. p2.match # 0
      <4>1. CASE i = 0
        <5>1. msg.t # "cancelled" /\ p.match # 0
          BY <1>1, <2>1, <4>1
        <5> QED
          BY <1>1, <5>1 DEF p2, After, Messages
      <4>2. CASE i = 1
        <5>1. msg.t = "match"
          BY <1>1, <2>1, <4>2
        <5> QED
          BY <1>1, <5>1 DEF p2, After, Messages
      <4> QED
        BY <2>3, <4>1, <4>2
    <3>2. \A j \in (0 + 1)..(m - 1) : q2[j] = q[j + 1] /\ j + 1 \in (i + 1)..m
      BY <1>1, <2>3
    <3>3. \A j \in (0 + 1)..(m - 1) : q2[j].t # "cancelled"
      BY <2>1, <3>2
    <3>4. 0 \in 0..(m - 1)
      BY <1>1
    <3> QED
      BY <1>1, <3>1, <3>3, <3>4 DEF EndsIn
  <2> QED
    BY <1>1, <2>2, <2>3
<1>8. ASSUME EndsWith(q, l, Says(h)) PROVE EndsWith(q2, seen, Says(h))
  <2>1. PICK i \in 0..m : /\ IF i = 0 THEN l = Says(h) ELSE q[i].t = "lobby" /\ q[i].lobby = Says(h)
                          /\ \A j \in (i + 1)..m : q[j].t # "lobby"
    BY <1>8 DEF EndsWith, m
  <2>2. CASE i > 1
    <3>1. i - 1 \in 0..(m - 1) /\ i - 1 # 0 /\ q2[i - 1].t = "lobby" /\ q2[i - 1].lobby = Says(h)
      BY <1>1, <2>1, <2>2
    <3>2. \A j \in ((i - 1) + 1)..(m - 1) : q2[j] = q[j + 1] /\ j + 1 \in (i + 1)..m
      BY <1>1, <2>2
    <3>3. \A j \in ((i - 1) + 1)..(m - 1) : q2[j].t # "lobby"
      BY <2>1, <3>2
    <3> QED
      BY <1>1, <3>1, <3>3 DEF EndsWith
  <2>3. CASE i <= 1
    <3>1. seen = Says(h)
      <4>1. CASE i = 0
        <5>1. msg.t # "lobby" /\ l = Says(h)
          BY <1>1, <2>1, <4>1
        <5> QED
          BY <5>1
      <4>2. CASE i = 1
        BY <1>1, <2>1, <4>2
      <4> QED
        BY <2>3, <4>1, <4>2
    <3>2. \A j \in (0 + 1)..(m - 1) : q2[j] = q[j + 1] /\ j + 1 \in (i + 1)..m
      BY <1>1, <2>3
    <3>3. \A j \in (0 + 1)..(m - 1) : q2[j].t # "lobby"
      BY <2>1, <3>2
    <3>4. 0 \in 0..(m - 1)
      BY <1>1
    <3> QED
      BY <1>1, <3>1, <3>3, <3>4 DEF EndsWith
  <2> QED
    BY <1>1, <2>2, <2>3
<1>9. Good(q2, p2, seen, h, n, mode, in, of)
  <2> HIDE DEF seen
  <2> QED
    BY <1>6, <1>7, <1>8 DEF Good
<1> QED
  BY <1>4, <1>9 DEF p2, q2, msg

(* Nothing under way: only the page itself counts. *)
LEMMA Empty ==
    ASSUME NEW p, NEW h, NEW n \in Nat, NEW mode, p \in Pages(n), Own(p, h),
           mode = "sure" => Final(p, h)
    PROVE  Leads(<<>>, p, h, n, mode)
<1> DEFINE R == [i \in {0} |-> {p, Out}]
<1>1. Out \in Pages(n) /\ Own(Out, h) /\ Final(Out, h)
  BY OutIsFine
<1>2. Len(<<>>) = 0 /\ 0..0 = {0} /\ 1..0 = {}
  OBVIOUS
<1>3. OnTheWay(R, <<>>, p, h, n, mode)
  BY <1>1, <1>2 DEF OnTheWay
<1> QED
  BY <1>3 DEF Leads

LEMMA PageOwn ==
    ASSUME NEW q, Len(q) \in Nat, NEW p, NEW h, NEW n \in Nat, NEW mode,
           Leads(q, p, h, n, mode)
    PROVE  p \in Pages(n) /\ Own(p, h)
<1>1. PICK R : OnTheWay(R, q, p, h, n, mode)
  BY DEF Leads
<1> QED
  BY <1>1 DEF OnTheWay

LEMMA Arrived ==
    ASSUME NEW p, NEW h, NEW n \in Nat, Leads(<<>>, p, h, n, "sure")
    PROVE  Final(p, h)
<1>1. PICK R : OnTheWay(R, <<>>, p, h, n, "sure")
  BY DEF Leads
<1>2. Len(<<>>) = 0
  OBVIOUS
<1> QED
  BY <1>1, <1>2 DEF OnTheWay

LEMMA Leaves ==
    ASSUME NEW q, Len(q) \in Nat, NEW p, NEW h, NEW n \in Nat, NEW mode,
           Leads(q, p, h, n, mode)
    PROVE  Leads(q, Out, h, n, mode)
<1>1. PICK R : OnTheWay(R, q, p, h, n, mode)
  BY DEF Leads
<1>2. OnTheWay(R, q, Out, h, n, mode)
  BY <1>1 DEF OnTheWay
<1> QED
  BY <1>2 DEF Leads

-----------------------------------------------------------------------------
(* The messages of the hub *)

LEMMA FrameIs == Frame.match = cur /\ Frame.ver = ver /\ Frame.phase = phase
BY DEF Frame

LEMMA FrameWas ==
    ASSUME UNCHANGED <<cur, ver, phase>>
    PROVE  Frame' = Frame
BY DEF Frame

LEMMA KeepsSame == \A h, n : Keeps(h, h, n) /\ KeepsFinal(h, h, n)
BY DEF Keeps, KeepsFinal

LEMMA KeepsGone ==
    ASSUME NEW h, NEW g, NEW n, g.match = 0
    PROVE  Keeps(h, g, n) /\ (h.match # 0 /\ h.phase = "end" => KeepsFinal(h, g, n))
BY DEF Keeps, KeepsFinal, Own, Final, Pages

(* A match goes on: what a page shows of it is still not later. *)
LEMMA KeepsOn ==
    ASSUME NEW h, NEW g, NEW n, g.match = h.match, h.ver \in Nat, g.ver \in Nat, h.ver <= g.ver,
           h.phase # "end", g.phase # "end"
    PROVE  Keeps(h, g, n) /\ KeepsFinal(h, g, n)
<1>1. ASSUME NEW x \in Pages(n), Own(x, h) PROVE Own(x, g)
  <2> SUFFICES ASSUME g.match # 0, x.match = g.match, x.shown # NoFrame PROVE Follows(x.shown, g)
    BY DEF Own
  <2>1. Follows(x.shown, h)
    BY <1>1 DEF Own
  <2>2. x.shown \in Frames
    BY DEF Pages
  <2>3. x.shown.ver \in Nat
    BY <2>2 DEF Frames
  <2> QED
    BY <2>1, <2>3 DEF Follows
<1>2. ASSUME NEW x \in Pages(n), Final(x, h) PROVE Final(x, g)
  BY <1>2 DEF Final
<1> QED
  BY <1>1, <1>2 DEF Keeps, KeepsFinal

LEMMA StartCarries ==
    ASSUME NEW n \in Nat, NEW h, NEW g, g.match = n + 1, g.phase # "end"
    PROVE  /\ Keeps(h, g, n) /\ Carries(h, g, StartMsg(n + 1), n, n + 1)
           /\ Finishes(h, g, StartMsg(n + 1), n)
<1> SUFFICES ASSUME NEW x \in Pages(n)
             PROVE  LET y == After(x, StartMsg(n + 1))
                    IN  Own(x, g) /\ y \in Pages(n + 1) /\ Own(y, g) /\ Onward(x, y) /\ Final(y, g)
  BY DEF Keeps, Carries, Finishes
<1>1. x.match \in 0..n /\ x.match # n + 1
  BY DEF Pages
<1>2. After(x, StartMsg(n + 1)) = [match |-> n + 1, shown |-> NoFrame]
  BY <1>1 DEF After, StartMsg
<1>3. n + 1 \in 0..(n + 1)
  OBVIOUS
<1> QED
  BY <1>1, <1>2, <1>3 DEF Own, Onward, Final, Pages

LEMMA StateCarries ==
    ASSUME NEW n \in Nat, NEW h, NEW g, NEW fr \in Frames,
           h.match # 0, fr.match = h.match, fr.ver = h.ver, h.phase # "end" \/ fr = h,
           g = fr \/ (g.match = 0 /\ fr.phase = "end")
    PROVE  /\ Carries(h, g, [t |-> "s", frame |-> fr], n, n)
           /\ Finishes(h, g, [t |-> "s", frame |-> fr], n)
<1> DEFINE y(x) == [match |-> x.match, shown |-> IF x.match = 0 THEN x.shown ELSE fr]
<1>1. \A x : After(x, [t |-> "s", frame |-> fr]) = y(x)
  BY DEF After
<1>2. fr.ver \in Nat
  BY DEF Frames
<1>3. ASSUME NEW x \in Pages(n), Own(x, h), x.match = h.match, x.shown # NoFrame
      PROVE  Follows(x.shown, fr)
  BY <1>3 DEF Own, Follows
<1>4. ASSUME NEW x \in Pages(n), Own(x, h)
      PROVE  Own(x, g) /\ y(x) \in Pages(n) /\ Own(y(x), g)
  <2>1. Own(x, g)
    BY <1>3, <1>4 DEF Own
  <2>2. y(x) \in Pages(n)
    BY DEF Pages
  <2>3. Own(y(x), g)
    BY <1>2 DEF Own, Follows
  <2> QED
    BY <2>1, <2>2, <2>3
<1>5. ASSUME NEW x \in Pages(n), Own(x, h), Final(x, h)
      PROVE  Onward(x, y(x)) /\ Final(y(x), g)
  <2>1. x.match = 0 \/ x.match = h.match
    BY <1>5 DEF Final
  <2>2. CASE x.match = 0
    <3>1. y(x).match = 0 /\ y(x).shown = x.shown
      BY <2>2
    <3>2. Onward(x, y(x))
      <4> SUFFICES ASSUME x.shown # NoFrame PROVE Follows(x.shown, x.shown)
        BY <3>1 DEF Onward
      <4>1. x.shown \in Frames
        BY DEF Pages
      <4> QED
        BY <4>1 DEF Frames, Follows
    <3> QED
      BY <3>1, <3>2 DEF Final
  <2>3. CASE x.match = h.match
    <3>1. y(x).match = h.match /\ y(x).shown = fr
      BY <2>3
    <3>2. Onward(x, y(x))
      BY <1>3, <1>5, <2>3, <3>1 DEF Onward
    <3> QED
      BY <3>1, <3>2 DEF Final
  <2> QED
    BY <2>1, <2>2, <2>3
<1> QED
  BY <1>1, <1>4, <1>5 DEF Carries, Finishes

LEMMA CancelCarries ==
    ASSUME NEW n \in Nat, NEW h, NEW g, Keeps(h, g, n)
    PROVE  Carries(h, g, CancelMsg, n, n) /\ Finishes(h, g, CancelMsg, n)
<1>1. \A x : After(x, CancelMsg) = Out
  BY DEF After, CancelMsg
<1>2. Out \in Pages(n) /\ Own(Out, g) /\ Final(Out, g) /\ \A x : Onward(x, Out)
  BY OutIsFine DEF Onward, Out
<1> QED
  BY <1>1, <1>2 DEF Keeps, Carries, Finishes

LEMMA LobbyCarries ==
    ASSUME NEW n \in Nat, NEW h, NEW l
    PROVE  /\ Carries(h, h, [t |-> "lobby", lobby |-> l], n, n)
           /\ Finishes(h, h, [t |-> "lobby", lobby |-> l], n)
<1>1. \A x : After(x, [t |-> "lobby", lobby |-> l]) = x
  BY DEF After
<1>2. ASSUME NEW x \in Pages(n) PROVE Onward(x, x)
  <2> SUFFICES ASSUME x.shown # NoFrame PROVE Follows(x.shown, x.shown)
    BY DEF Onward
  <2>1. x.shown \in Frames
    BY DEF Pages
  <2> QED
    BY <2>1 DEF Frames, Follows
<1> QED
  BY <1>1, <1>2 DEF Carries, Finishes

(* What is sent is a message. *)
LEMMA MessagesSent ==
    ASSUME TypeOK
    PROVE  /\ CancelMsg \in Messages /\ LobbyMsg \in Messages
           /\ \A m \in 1..MatchCap : StartMsg(m) \in Messages
           /\ cur # 0 => \A ph \in {"on", "pause", "end"} :
                 /\ [Frame EXCEPT !.phase = ph] \in Frames
                 /\ StateMsg(ph) = [t |-> "s", frame |-> [Frame EXCEPT !.phase = ph]]
                 /\ StateMsg(ph) \in Messages
                 /\ [Frame EXCEPT !.phase = ph].match = cur
                 /\ [Frame EXCEPT !.phase = ph].ver = ver
                 /\ [Frame EXCEPT !.phase = ph].phase = ph
                 /\ [Frame EXCEPT !.phase = ph] = [match |-> cur, ver |-> ver, phase |-> ph]
<1>1. CancelMsg \in Messages /\ LobbyMsg \in Messages
  BY DEF CancelMsg, LobbyMsg, LobbyNow, Messages, Lobbies
<1>2. \A m \in 1..MatchCap : StartMsg(m) \in Messages
  BY DEF StartMsg, Messages
<1>3. ASSUME cur # 0, NEW ph \in {"on", "pause", "end"}
      PROVE  /\ [Frame EXCEPT !.phase = ph] = [match |-> cur, ver |-> ver, phase |-> ph]
             /\ [match |-> cur, ver |-> ver, phase |-> ph] \in Frames
  <2>1. cur \in 1..MatchCap /\ ver \in 0..VerCap
    BY <1>3, DeliveryAssumption DEF TypeOK
  <2> QED
    BY <2>1 DEF Frame, Frames
<1>4. \A ph : StateMsg(ph) = [t |-> "s", frame |-> [Frame EXCEPT !.phase = ph]]
  BY DEF StateMsg
<1>5. \A fr \in Frames : [t |-> "s", frame |-> fr] \in Messages
  BY DEF Messages
<1> QED
  BY <1>1, <1>2, <1>3, <1>4, <1>5

-----------------------------------------------------------------------------
(* What becomes of the messages of a handler: they are queued as long as    *)
(* there is room.                                                           *)

LEMMA SentTypes ==
    ASSUME TypeOK, NEW msgs \in Seq(Messages), NEW stray, Send(msgs, stray)
    PROVE  chan' \in Seq(Messages) /\ Len(chan') <= Cap /\ apart' \in BOOLEAN
<1> DEFINE fit == Least(Cap - Len(chan), Len(msgs))
<1>1. chan \in Seq(Messages) /\ Len(chan) \in Nat /\ Len(chan) <= Cap /\ Cap \in Nat
      /\ Len(msgs) \in Nat
  BY DeliveryAssumption DEF TypeOK
<1>2. fit \in 0..Len(msgs) /\ Len(chan) + fit <= Cap
  BY <1>1 DEF Least
<1>3. chan' = IF conn = "up" THEN chan \o SubSeq(msgs, 1, fit) ELSE chan
  BY DEF Send
<1>4. apart' \in BOOLEAN
  BY Zenon DEF Send, TypeOK
<1> HIDE DEF fit
<1>5. SubSeq(msgs, 1, fit) \in Seq(Messages) /\ Len(SubSeq(msgs, 1, fit)) = fit
  <2>1. SubSeq(msgs, 1, fit) = [i \in 1..fit |-> msgs[i]]
    BY <1>1, <1>2
  <2>2. \A i \in 1..fit : msgs[i] \in Messages
    BY <1>1, <1>2
  <2> QED
    BY <1>1, <1>2, <2>1, <2>2
<1>6. /\ chan \o SubSeq(msgs, 1, fit) \in Seq(Messages)
      /\ Len(chan \o SubSeq(msgs, 1, fit)) = Len(chan) + fit
  BY <1>1, <1>5
<1> QED
  BY <1>1, <1>2, <1>3, <1>4, <1>6

LEMMA Pieces ==
    ASSUME NEW q \in Seq(Messages), NEW a \in Messages, NEW b \in Messages
    PROVE  /\ q \o SubSeq(<<a>>, 1, 1) = Append(q, a)
           /\ q \o SubSeq(<<a, b>>, 1, 1) = Append(q, a)
           /\ q \o SubSeq(<<a, b>>, 1, 2) = Append(Append(q, a), b)
           /\ <<a>> \o <<b>> = <<a, b>> /\ <<a>> \o <<>> = <<a>> /\ <<>> \o <<a>> = <<a>>
<1>1. <<a>> \in Seq(Messages) /\ <<b>> \in Seq(Messages) /\ <<a, b>> \in Seq(Messages)
      /\ Len(<<a>>) = 1 /\ Len(<<a, b>>) = 2 /\ Len(<<b>>) = 1
      /\ <<a, b>>[1] = a /\ <<a, b>>[2] = b
  OBVIOUS
<1>2. SubSeq(<<a>>, 1, 1) = <<a>> /\ SubSeq(<<a, b>>, 1, 2) = <<a, b>>
  BY <1>1, SubSeqFull
<1>3. SubSeq(<<a, b>>, 1, 1) = SubSeq(<<a, b>>, 1, 0) \o <<(<<a, b>>)[1]>>
  <2>1. 1 \in 1..Len(<<a, b>>) /\ 1 \in 1..Len(<<a, b>>) /\ 1 - 1 = 0
    BY <1>1
  <2> QED
    BY <1>1, <2>1, SubSeqRecursiveSecond
<1>4. SubSeq(<<a, b>>, 1, 0) = <<>>
  BY SubSeqEmpty
<1>5. SubSeq(<<a, b>>, 1, 1) = <<a>>
  BY <1>1, <1>3, <1>4, ConcatEmptySeq
<1>6. q \o <<a>> = Append(q, a)
      /\ Append(q, a) \o <<b>> = Append(Append(q, a), b)
  <2>1. Append(q, a) \in Seq(Messages)
    OBVIOUS
  <2> QED
    BY <1>1, <2>1, AppendIsConcat
<1>7. <<a, b>> = <<a>> \o <<b>>
  <2>1. 1 \in 1..Len(<<a, b>>) /\ 2 \in 1..Len(<<a, b>>) /\ 2 - 1 = 1
    BY <1>1
  <2>2. SubSeq(<<a, b>>, 1, 2) = SubSeq(<<a, b>>, 1, 1) \o <<(<<a, b>>)[2]>>
    BY <1>1, <2>1, SubSeqRecursiveSecond
  <2> QED
    BY <1>1, <1>2, <1>5, <2>2
<1>8. (q \o <<a>>) \o <<b>> = q \o (<<a>> \o <<b>>)
  BY <1>1, ConcatAssociative
<1>9. <<a>> \o <<>> = <<a>> /\ <<>> \o <<a>> = <<a>>
  BY <1>1, ConcatEmptySeq
<1> QED
  BY <1>2, <1>5, <1>6, <1>7, <1>8, <1>9

LEMMA SentTypesOne ==
    ASSUME TypeOK, NEW msg \in Messages, NEW stray, Send(<<msg>>, stray)
    PROVE  chan' \in Seq(Messages) /\ Len(chan') <= Cap /\ apart' \in BOOLEAN
<1>1. <<msg>> \in Seq(Messages)
  OBVIOUS
<1> QED
  BY <1>1, SentTypes

LEMMA SentNone ==
    ASSUME TypeOK, NEW stray, Send(<<>>, stray)
    PROVE  chan' = chan /\ (conn = "up" /\ ~apart' => ~apart /\ ~stray)
<1>1. Len(chan) \in Nat /\ Len(chan) <= Cap /\ Cap \in Nat /\ chan \in Seq(Messages)
  BY DeliveryAssumption DEF TypeOK
<1> DEFINE fit == Least(Cap - Len(chan), Len(<<>>))
<1>2. fit = 0
  BY <1>1 DEF Least
<1>3. SubSeq(<<>>, 1, 0) = <<>> /\ chan \o <<>> = chan
  BY <1>1
<1>4. chan' = chan
  <2>1. chan' = IF conn = "up" THEN chan \o SubSeq(<<>>, 1, fit) ELSE chan
    BY Zenon DEF Send
  <2> HIDE DEF fit
  <2> QED
    BY <1>2, <1>3, <2>1
<1>5. conn = "up" /\ ~apart' => ~apart /\ ~stray
  BY Zenon DEF Send
<1> QED
  BY <1>4, <1>5

LEMMA SentOne ==
    ASSUME TypeOK, NEW msg \in Messages, NEW stray, Send(<<msg>>, stray)
    PROVE  /\ conn = "up" /\ ~apart' => ~apart /\ ~stray
           /\ \/ conn = "up" /\ chan' = Append(chan, msg)
              \/ chan' = chan /\ (conn = "up" /\ ~apart' => SentAgain(msg))
<1> DEFINE fit == Least(Cap - Len(chan), Len(<<msg>>))
<1>1. Len(chan) \in Nat /\ Len(chan) <= Cap /\ Cap \in Nat /\ chan \in Seq(Messages)
  BY DeliveryAssumption DEF TypeOK
<1>2. fit = 0 \/ fit = 1
  BY <1>1 DEF Least
<1>3. /\ chan' = IF conn = "up" THEN chan \o SubSeq(<<msg>>, 1, fit) ELSE chan
      /\ conn = "up" /\ ~apart' => ~apart /\ ~stray
      /\ conn = "up" /\ ~apart' => \A i \in (fit + 1)..Len(<<msg>>) : SentAgain(<<msg>>[i])
  BY Zenon DEF Send
<1> HIDE DEF fit
<1>4. CASE fit = 0
  <2>1. SubSeq(<<msg>>, 1, 0) = <<>> /\ chan \o <<>> = chan
    BY <1>1
  <2>2. 1 \in (0 + 1)..Len(<<msg>>) /\ <<msg>>[1] = msg
    OBVIOUS
  <2> QED
    BY <1>3, <1>4, <2>1, <2>2
<1>5. CASE fit = 1
  <2>1. chan \o SubSeq(<<msg>>, 1, 1) = Append(chan, msg)
    BY <1>1, Pieces
  <2> QED
    BY <1>3, <1>5, <2>1
<1> QED
  BY <1>2, <1>4, <1>5

LEMMA SentTwo ==
    ASSUME TypeOK, NEW a \in Messages, NEW b \in Messages, NEW stray, Send(<<a, b>>, stray)
    PROVE  /\ conn = "up" /\ ~apart' => ~apart /\ ~stray
           /\ \/ conn = "up" /\ chan' = Append(Append(chan, a), b)
              \/ conn = "up" /\ chan' = Append(chan, a) /\ (~apart' => SentAgain(b))
              \/ chan' = chan /\ (conn = "up" /\ ~apart' => SentAgain(a) /\ SentAgain(b))
<1> DEFINE fit == Least(Cap - Len(chan), Len(<<a, b>>))
<1>1. Len(chan) \in Nat /\ Len(chan) <= Cap /\ Cap \in Nat /\ chan \in Seq(Messages)
  BY DeliveryAssumption DEF TypeOK
<1>2. fit = 0 \/ fit = 1 \/ fit = 2
  BY <1>1 DEF Least
<1>3. /\ chan' = IF conn = "up" THEN chan \o SubSeq(<<a, b>>, 1, fit) ELSE chan
      /\ conn = "up" /\ ~apart' => ~apart /\ ~stray
      /\ conn = "up" /\ ~apart' => \A i \in (fit + 1)..Len(<<a, b>>) : SentAgain(<<a, b>>[i])
  BY Zenon DEF Send
<1> HIDE DEF fit
<1>4. CASE fit = 0
  <2>1. SubSeq(<<a, b>>, 1, 0) = <<>> /\ chan \o <<>> = chan
    BY <1>1
  <2>2. /\ 1 \in (0 + 1)..Len(<<a, b>>) /\ <<a, b>>[1] = a
        /\ 2 \in (0 + 1)..Len(<<a, b>>) /\ <<a, b>>[2] = b
    OBVIOUS
  <2> QED
    BY <1>3, <1>4, <2>1, <2>2
<1>5. CASE fit = 1
  <2>1. chan \o SubSeq(<<a, b>>, 1, 1) = Append(chan, a)
    BY <1>1, Pieces
  <2>2. 2 \in (1 + 1)..Len(<<a, b>>) /\ <<a, b>>[2] = b
    OBVIOUS
  <2> QED
    BY <1>3, <1>5, <2>1, <2>2
<1>6. CASE fit = 2
  <2>1. chan \o SubSeq(<<a, b>>, 1, 2) = Append(Append(chan, a), b)
    BY <1>1, Pieces
  <2> QED
    BY <1>3, <1>6, <2>1
<1> QED
  BY <1>2, <1>4, <1>5, <1>6

-----------------------------------------------------------------------------
(* The hub's steps, the page and the connection standing still *)

LEMMA ModesAre ==
    /\ Sure = "sure" <=> conn = "up" /\ ~apart
    /\ SureIn = "sure" <=> conn = "up" /\ ~apart /\ ~leaving
    /\ SureOf = "sure" <=> conn = "up" /\ ~apart /\ ~dirty
BY Zenon DEF Sure, SureIn, SureOf

LEMMA ModesWillBe ==
    /\ Sure' = "sure" <=> conn' = "up" /\ ~apart'
    /\ SureIn' = "sure" <=> conn' = "up" /\ ~apart' /\ ~leaving'
    /\ SureOf' = "sure" <=> conn' = "up" /\ ~apart' /\ ~dirty'
BY Zenon DEF Sure, SureIn, SureOf

LEMMA ArrivingWill ==
    Good(chan', Here', plob', Frame', last', Sure', SureIn', SureOf') => Arriving'
BY DEF Arriving

LEMMA NumbersAre ==
    ASSUME TypeOK
    PROVE  /\ chan \in Seq(Messages) /\ Len(chan) \in Nat /\ last \in Nat /\ ver \in Nat
           /\ cur \in 0..last /\ last \in 0..MatchCap /\ MatchCap \in Nat
           /\ Frame.match = cur /\ Frame.ver = ver /\ Frame.phase = phase
BY DeliveryAssumption, FrameIs DEF TypeOK

(* Nothing is sent. *)
LEMMA HubQuiet ==
    ASSUME TypeOK, Arriving, chan' = chan, UNCHANGED pageVars, last' \in Nat, last <= last',
           Keeps(Frame, Frame', last),
           conn' = "up" /\ ~apart' => conn = "up" /\ ~apart /\ KeepsFinal(Frame, Frame', last),
           conn' = "up" /\ ~apart' /\ ~leaving' /\ Frame'.match # 0 => ~leaving /\ Frame.match # 0,
           conn' = "up" /\ ~apart' /\ ~dirty' => ~dirty /\ Says(Frame') = Says(Frame)
    PROVE  Arriving'
<1>1. Good(chan, Here, plob, Frame, last, Sure, SureIn, SureOf)
  BY DEF Arriving
<1>2. Here' = Here /\ plob' = plob
  BY DEF Here, pageVars
<1>3. Good(chan, Here, plob, Frame', last', Sure', SureIn', SureOf')
  <2>1. Sure' = "sure" => Sure = "sure" /\ KeepsFinal(Frame, Frame', last)
    BY ModesAre, ModesWillBe, Zenon
  <2>2. SureIn' = "sure" /\ Frame'.match # 0 => SureIn = "sure" /\ Frame.match # 0
    BY ModesAre, ModesWillBe, Zenon
  <2>3. SureOf' = "sure" => SureOf = "sure" /\ Says(Frame') = Says(Frame)
    BY ModesAre, ModesWillBe, Zenon
  <2> QED
    BY <1>1, <2>1, <2>2, <2>3, NothingSent, NumbersAre
<1> QED
  BY <1>2, <1>3, ArrivingWill

(* One message is sent, which may be dropped. *)
LEMMA HubOne ==
    ASSUME TypeOK, Arriving, NEW msg \in Messages, NEW stray, Send(<<msg>>, stray),
           UNCHANGED pageVars, conn' = conn, last' \in Nat, last <= last',
           Keeps(Frame, Frame', last), Carries(Frame, Frame', msg, last, last'),
           Finishes(Frame, Frame', msg, last),
           SentAgain(msg) => KeepsFinal(Frame, Frame', last),
           ~stray /\ ~leaving' /\ Frame'.match # 0 =>
             /\ msg.t = "match" \/ (~leaving /\ Frame.match # 0 /\ msg.t # "cancelled")
             /\ SentAgain(msg) => ~leaving /\ Frame.match # 0,
           ~dirty' => \/ msg.t = "lobby" /\ msg.lobby = Says(Frame')
                      \/ ~dirty /\ Says(Frame') = Says(Frame) /\ msg.t # "lobby",
           SentAgain(msg) => msg.t # "lobby"
    PROVE  Arriving'
<1>1. Good(chan, Here, plob, Frame, last, Sure, SureIn, SureOf)
  BY DEF Arriving
<1>2. Here' = Here /\ plob' = plob /\ conn' = conn
  BY DEF Here, pageVars
<1>3. conn = "up" /\ ~apart' => ~apart /\ ~stray
  BY SentOne
<1>4. Sure' = "sure" => Sure = "sure"
  BY <1>2, <1>3, ModesAre, ModesWillBe, Zenon
<1>5. CASE conn = "up" /\ chan' = Append(chan, msg)
  <2>1. SureIn' = "sure" /\ Frame'.match # 0 =>
          msg.t = "match" \/ (SureIn = "sure" /\ Frame.match # 0 /\ msg.t # "cancelled")
    BY <1>2, <1>3, ModesAre, ModesWillBe, Zenon
  <2>2. SureOf' = "sure" =>
          \/ msg.t = "lobby" /\ msg.lobby = Says(Frame')
          \/ SureOf = "sure" /\ Says(Frame') = Says(Frame) /\ msg.t # "lobby"
    BY <1>2, <1>3, ModesAre, ModesWillBe, Zenon
  <2>3. Good(Append(chan, msg), Here, plob, Frame', last', Sure', SureIn', SureOf')
    BY <1>1, <1>4, <2>1, <2>2, OneSent, NumbersAre
  <2> QED
    BY <1>2, <1>5, <2>3, ArrivingWill
<1>6. CASE chan' = chan /\ (conn = "up" /\ ~apart' => SentAgain(msg))
  <2>1. conn' = "up" /\ ~apart' => conn = "up" /\ ~apart /\ KeepsFinal(Frame, Frame', last)
    BY <1>2, <1>3, <1>6, Zenon
  <2>2. conn' = "up" /\ ~apart' /\ ~leaving' /\ Frame'.match # 0 => ~leaving /\ Frame.match # 0
    BY <1>2, <1>3, <1>6, Zenon
  <2>3. conn' = "up" /\ ~apart' /\ ~dirty' => ~dirty /\ Says(Frame') = Says(Frame)
    BY <1>2, <1>3, <1>6, Zenon
  <2> QED
    BY <1>6, <2>1, <2>2, <2>3, HubQuiet
<1> QED
  BY <1>5, <1>6, SentOne

(* Two messages are sent; h is the state between them. *)
LEMMA HubTwo ==
    ASSUME TypeOK, Arriving, NEW a \in Messages, NEW b \in Messages, NEW stray,
           Send(<<a, b>>, stray), ~SentAgain(b),
           UNCHANGED pageVars, conn' = conn, last' \in Nat, last <= last',
           NEW h, Carries(Frame, h, a, last, last), Finishes(Frame, h, a, last),
           Carries(h, Frame', b, last, last'), Finishes(h, Frame', b, last),
           Keeps(Frame, Frame', last), Keeps(h, Frame', last),
           h.match # 0 => Frame.match # 0 /\ a.t # "cancelled",
           ~leaving' /\ Frame'.match # 0 =>
             b.t = "match" \/ (~leaving /\ h.match # 0 /\ b.t # "cancelled"),
           ~dirty' => b.t = "lobby" /\ b.lobby = Says(Frame')
    PROVE  Arriving'
<1>1. Good(chan, Here, plob, Frame, last, Sure, SureIn, SureOf)
  BY DEF Arriving
<1>2. Here' = Here /\ plob' = plob /\ conn' = conn
  BY DEF Here, pageVars
<1>3. conn = "up" /\ ~apart' => ~apart /\ ~stray
  BY SentTwo
<1>4. Sure' = "sure" => Sure = "sure"
  BY <1>2, <1>3, ModesAre, ModesWillBe, Zenon
<1>5. Good(Append(chan, a), Here, plob, h, last, Sure, SureIn, "open")
  <2>1. SureIn = "sure" /\ h.match # 0 =>
          a.t = "match" \/ (SureIn = "sure" /\ Frame.match # 0 /\ a.t # "cancelled")
    OBVIOUS
  <2>2. last <= last /\ "open" # "sure"
    BY NumbersAre
  <2> QED
    BY <1>1, <2>1, <2>2, OneSent, NumbersAre
<1>6. Append(chan, a) \in Seq(Messages) /\ Len(Append(chan, a)) \in Nat
  BY NumbersAre
<1>7. CASE conn = "up" /\ chan' = Append(Append(chan, a), b)
  <2>1. SureIn' = "sure" /\ Frame'.match # 0 =>
          b.t = "match" \/ (SureIn = "sure" /\ h.match # 0 /\ b.t # "cancelled")
    BY <1>2, <1>3, ModesAre, ModesWillBe, Zenon
  <2>2. SureOf' = "sure" => b.t = "lobby" /\ b.lobby = Says(Frame')
    BY ModesWillBe, Zenon
  <2>3. Good(Append(Append(chan, a), b), Here, plob, Frame', last', Sure', SureIn', SureOf')
    <3> DEFINE q == Append(chan, a)
    <3>1. q \in Seq(Messages) /\ Good(q, Here, plob, h, last, Sure, SureIn, "open")
      BY <1>5, <1>6
    <3>2. last \in Nat
      BY NumbersAre
    <3> HIDE DEF q
    <3>3. Good(Append(q, b), Here, plob, Frame', last', Sure', SureIn', SureOf')
      BY <1>4, <2>1, <2>2, <3>1, <3>2, OneSent
    <3> QED
      BY <3>3 DEF q
  <2> QED
    BY <1>2, <1>7, <2>3, ArrivingWill
<1>8. CASE conn = "up" /\ chan' = Append(chan, a) /\ (~apart' => SentAgain(b))
  <2>1. Sure' # "sure" /\ SureIn' # "sure" /\ SureOf' # "sure"
    BY <1>8, ModesWillBe, Zenon
  <2>2. Good(Append(chan, a), Here, plob, Frame', last', Sure', SureIn', SureOf')
    BY <1>5, <1>6, <2>1, NothingSent, NumbersAre
  <2> QED
    BY <1>2, <1>8, <2>2, ArrivingWill
<1>9. CASE chan' = chan /\ (conn = "up" /\ ~apart' => SentAgain(a) /\ SentAgain(b))
  <2>1. conn' = "up" => apart'
    BY <1>2, <1>9, Zenon
  <2> QED
    BY <1>9, <2>1, HubQuiet, Zenon
<1> QED
  BY <1>7, <1>8, <1>9, SentTwo

LEMMA FrameWill == Frame'.match = cur' /\ Frame'.ver = ver' /\ Frame'.phase = phase'
BY DEF Frame

LEMMA SaysNow == Says(Frame) = LobbyNow
BY FrameIs DEF Says, LobbyNow

LEMMA CarriesKeeps ==
    ASSUME NEW h, NEW g, NEW msg, NEW n, NEW k, Carries(h, g, msg, n, k)
    PROVE  Keeps(h, g, n)
BY DEF Carries, Keeps

(* Without a connection nothing is sent. *)
LEMMA SentNowhere ==
    ASSUME NEW msgs, NEW stray, Send(msgs, stray), conn # "up"
    PROVE  chan' = chan
BY DEF Send

LEMMA QuietKept ==
    ASSUME Quiet, NEW msgs, NEW stray, Send(msgs, stray), conn' = conn, cur' = 0 => ~main'
    PROVE  Quiet'
<1>1. conn # "up" => chan' = chan
  BY SentNowhere
<1>2. conn' # "up" => chan' = <<>>
  BY <1>1 DEF Quiet
<1> QED
  BY <1>2 DEF Quiet

(* One message that is not sent again, and a lobby list to come *)
LEMMA HubOnce ==
    ASSUME TypeOK, Arriving, NEW msg \in Messages, NEW stray, Send(<<msg>>, stray),
           ~SentAgain(msg), dirty', UNCHANGED pageVars, conn' = conn, last' \in Nat, last <= last',
           Carries(Frame, Frame', msg, last, last'), Finishes(Frame, Frame', msg, last),
           \/ Frame'.match = 0 \/ msg.t = "match" \/ stray
           \/ leaving' = leaving /\ Frame.match # 0 /\ msg.t # "cancelled"
    PROVE  Arriving'
<1>1. Keeps(Frame, Frame', last)
  BY CarriesKeeps
<1>2. /\ SentAgain(msg) => KeepsFinal(Frame, Frame', last)
      /\ SentAgain(msg) => msg.t # "lobby"
  OBVIOUS
<1>3. ~stray /\ ~leaving' /\ Frame'.match # 0 =>
        /\ msg.t = "match" \/ (~leaving /\ Frame.match # 0 /\ msg.t # "cancelled")
        /\ SentAgain(msg) => ~leaving /\ Frame.match # 0
  OBVIOUS
<1>4. ~dirty' => \/ msg.t = "lobby" /\ msg.lobby = Says(Frame')
                 \/ ~dirty /\ Says(Frame') = Says(Frame) /\ msg.t # "lobby"
  OBVIOUS
<1> QED
  BY <1>1, <1>2, <1>3, <1>4, HubOne

(* The match of this moment is sent as one that is in phase ph. *)
LEMMA StateSent ==
    ASSUME TypeOK, cur # 0, NEW ph \in {"on", "pause", "end"}, phase # "end" \/ ph = "end",
           NEW g, g = [match |-> cur, ver |-> ver, phase |-> ph] \/ (g.match = 0 /\ ph = "end")
    PROVE  /\ StateMsg(ph) \in Messages /\ StateMsg(ph).t = "s"
           /\ SentAgain(StateMsg(ph)) <=> ph # "end"
           /\ Carries(Frame, g, StateMsg(ph), last, last)
           /\ Finishes(Frame, g, StateMsg(ph), last)
<1> DEFINE fr == [match |-> cur, ver |-> ver, phase |-> ph]
<1>1. fr \in Frames /\ StateMsg(ph) = [t |-> "s", frame |-> fr] /\ StateMsg(ph) \in Messages
  BY MessagesSent
<1>2. fr.match = cur /\ fr.ver = ver /\ fr.phase = ph
  OBVIOUS
<1>3. phase # "end" \/ fr = Frame
  BY DEF Frame
<1>4. g = fr \/ (g.match = 0 /\ fr.phase = "end")
  OBVIOUS
<1> HIDE DEF fr
<1>5. Carries(Frame, g, [t |-> "s", frame |-> fr], last, last)
      /\ Finishes(Frame, g, [t |-> "s", frame |-> fr], last)
  BY <1>1, <1>2, <1>3, <1>4, NumbersAre, StateCarries
<1> QED
  BY <1>1, <1>2, <1>5 DEF SentAgain

-----------------------------------------------------------------------------
(* The hub's actions *)

LEMMA StartKeeps == ASSUME DeliveryInv, NEW fx \in BOOLEAN, Start(fx) PROVE DeliveryInv'
<1>1. TypeOK /\ Quiet /\ Arriving
  BY DEF DeliveryInv
<1> DEFINE msg == StartMsg(last + 1)
<1>2. /\ last \in Nat /\ last + 1 \in 1..MatchCap /\ last <= last'
      /\ last' = last + 1 /\ cur' = last + 1 /\ phase' = "on" /\ dirty'
      /\ leaving' = leaving /\ conn' = conn /\ UNCHANGED pageVars /\ Send(<<msg>>, FALSE)
  <2>1. /\ last < MatchCap /\ last' = last + 1 /\ cur' = last + 1 /\ phase' = "on" /\ dirty'
        /\ leaving' = leaving /\ conn' = conn /\ UNCHANGED pageVars /\ Send(<<msg>>, FALSE)
    BY DEF Start
  <2>2. last \in Nat /\ MatchCap \in Nat
    BY <1>1, NumbersAre
  <2>3. last + 1 \in 1..MatchCap /\ last <= last'
    BY <2>1, <2>2
  <2> QED
    BY <2>1, <2>2, <2>3
<1>3. msg \in Messages /\ msg.t = "match" /\ ~SentAgain(msg)
  BY <1>1, <1>2, MessagesSent DEF StartMsg, SentAgain
<1>4. Frame'.match = last + 1 /\ Frame'.phase = "on"
  BY <1>2, FrameWill
<1>5. Keeps(Frame, Frame', last) /\ Carries(Frame, Frame', msg, last, last')
      /\ Finishes(Frame, Frame', msg, last)
  BY <1>2, <1>4, StartCarries
<1> HIDE DEF msg
<1>6. Arriving'
  <2>1. last' \in Nat
    BY <1>2
  <2> QED
    BY <1>1, <1>2, <1>3, <1>5, <2>1, HubOnce
<1>7. chan' \in Seq(Messages) /\ Len(chan') <= Cap /\ apart' \in BOOLEAN
  BY <1>1, <1>2, <1>3, SentTypesOne
<1>8. TypeOK'
  BY <1>1, <1>7, DeliveryAssumption DEF TypeOK, Start, LeftBehind, pageVars
<1>9. Quiet'
  <2>1. cur' # 0
    BY <1>2
  <2> QED
    BY <1>1, <1>2, <2>1, QuietKept
<1> QED
  BY <1>6, <1>8, <1>9 DEF DeliveryInv

LEMMA AskRematchKeeps == ASSUME DeliveryInv, AskRematch PROVE DeliveryInv'
<1>1. TypeOK /\ Quiet /\ Arriving
  BY DEF DeliveryInv
<1> DEFINE msg == StateMsg("end")
<1>2. /\ last \in Nat /\ last' = last /\ cur' = cur /\ phase = "end" /\ cur # 0
      /\ dirty' = dirty /\ leaving' = leaving /\ conn' = conn
      /\ UNCHANGED pageVars /\ Send(<<msg>>, FALSE) /\ Frame' = Frame
  BY <1>1, NumbersAre, FrameWas DEF AskRematch, hubVars, TypeOK
<1>3. Frame' = [match |-> cur, ver |-> ver, phase |-> "end"]
  BY <1>2 DEF Frame
<1>4. /\ msg \in Messages /\ msg.t = "s" /\ ~SentAgain(msg)
      /\ Carries(Frame, Frame', msg, last, last') /\ Finishes(Frame, Frame', msg, last)
  BY <1>1, <1>2, <1>3, StateSent
<1>5. Keeps(Frame, Frame', last)
  BY <1>2, KeepsSame
<1> HIDE DEF msg
<1>6. Arriving'
  <2>1. last <= last' /\ last' \in Nat /\ Frame.match # 0
    BY <1>2, FrameIs
  <2>2. /\ SentAgain(msg) => KeepsFinal(Frame, Frame', last)
        /\ SentAgain(msg) => msg.t # "lobby"
    BY <1>4
  <2>3. ~FALSE /\ ~leaving' /\ Frame'.match # 0 =>
          /\ msg.t = "match" \/ (~leaving /\ Frame.match # 0 /\ msg.t # "cancelled")
          /\ SentAgain(msg) => ~leaving /\ Frame.match # 0
    BY <1>2, <1>4, <2>1
  <2>4. ~dirty' => \/ msg.t = "lobby" /\ msg.lobby = Says(Frame')
                   \/ ~dirty /\ Says(Frame') = Says(Frame) /\ msg.t # "lobby"
    BY <1>2, <1>4
  <2> QED
    BY <1>1, <1>2, <1>4, <1>5, <2>1, <2>2, <2>3, <2>4, HubOne
<1>7. chan' \in Seq(Messages) /\ Len(chan') <= Cap /\ apart' \in BOOLEAN
  BY <1>1, <1>2, <1>4, SentTypesOne
<1>8. TypeOK'
  BY <1>1, <1>7 DEF TypeOK, AskRematch, hubVars, pageVars
<1>9. Quiet'
  BY <1>1, <1>2, QuietKept DEF AskRematch, hubVars, Quiet
<1> QED
  BY <1>6, <1>8, <1>9 DEF DeliveryInv

LEMMA RematchKeeps == ASSUME DeliveryInv, Rematch PROVE DeliveryInv'
<1>1. TypeOK /\ Quiet /\ Arriving
  BY DEF DeliveryInv
<1> DEFINE a == StateMsg("end")
           b == StartMsg(last + 1)
<1>2. /\ last \in Nat /\ last + 1 \in 1..MatchCap /\ last' = last + 1 /\ cur' = last + 1
      /\ phase = "end" /\ cur # 0 /\ phase' = "on" /\ dirty' /\ leaving' = leaving
      /\ conn' = conn /\ UNCHANGED pageVars /\ Send(<<a, b>>, FALSE)
  <2>1. /\ last < MatchCap /\ last' = last + 1 /\ cur' = last + 1 /\ phase = "end" /\ phase' = "on"
        /\ dirty' /\ leaving' = leaving /\ conn' = conn /\ UNCHANGED pageVars
        /\ Send(<<a, b>>, FALSE)
    BY DEF Rematch
  <2>2. last \in Nat /\ MatchCap \in Nat /\ (phase = "none" <=> cur = 0)
    BY <1>1, NumbersAre DEF TypeOK
  <2>3. last + 1 \in 1..MatchCap /\ cur # 0
    BY <2>1, <2>2
  <2> QED
    BY <2>1, <2>2, <2>3
<1>3. Frame = [match |-> cur, ver |-> ver, phase |-> "end"]
  BY <1>2 DEF Frame
<1>4. /\ a \in Messages /\ a.t = "s" /\ ~SentAgain(a)
      /\ Carries(Frame, Frame, a, last, last) /\ Finishes(Frame, Frame, a, last)
  BY <1>1, <1>2, <1>3, StateSent
<1>5. b \in Messages /\ b.t = "match" /\ ~SentAgain(b)
  BY <1>1, <1>2, MessagesSent DEF StartMsg, SentAgain
<1>6. Frame'.match = last + 1 /\ Frame'.phase = "on" /\ Frame.match = cur
  BY <1>2, FrameWill, FrameIs
<1>7. Keeps(Frame, Frame', last) /\ Carries(Frame, Frame', b, last, last')
      /\ Finishes(Frame, Frame', b, last)
  BY <1>2, <1>6, StartCarries
<1> HIDE DEF a, b
<1>8. Arriving'
  <2>1. last' \in Nat /\ last <= last'
    BY <1>2
  <2>2. Frame.match # 0 => Frame.match # 0 /\ a.t # "cancelled"
    BY <1>4
  <2>3. ~leaving' /\ Frame'.match # 0 =>
          b.t = "match" \/ (~leaving /\ Frame.match # 0 /\ b.t # "cancelled")
    BY <1>5
  <2>4. ~dirty' => b.t = "lobby" /\ b.lobby = Says(Frame')
    BY <1>2
  <2> QED
    BY <1>1, <1>2, <1>4, <1>5, <1>7, <2>1, <2>2, <2>3, <2>4, HubTwo
<1>9. chan' \in Seq(Messages) /\ Len(chan') <= Cap /\ apart' \in BOOLEAN
  <2>1. <<a, b>> \in Seq(Messages)
    BY <1>4, <1>5
  <2> QED
    BY <1>1, <1>2, <2>1, SentTypes
<1>10. TypeOK'
  BY <1>1, <1>9, DeliveryAssumption DEF TypeOK, Rematch, pageVars
<1>11. Quiet'
  <2>1. cur' # 0
    BY <1>2
  <2> QED
    BY <1>1, <1>2, <2>1, QuietKept
<1> QED
  BY <1>8, <1>10, <1>11 DEF DeliveryInv

LEMMA ChangeKeeps == ASSUME DeliveryInv, Change PROVE DeliveryInv'
<1>1. TypeOK /\ Quiet /\ Arriving
  BY DEF DeliveryInv
<1>2. /\ last' = last /\ last \in Nat /\ cur' = cur /\ ver \in Nat /\ ver' \in Nat /\ ver <= ver'
      /\ phase \in {"on", "pause"} /\ phase' \in {"on", "pause"} /\ leaving' = leaving
      /\ conn' = conn /\ apart' = apart /\ chan' = chan /\ UNCHANGED pageVars
      /\ (~dirty' => ~dirty)
  <2>1. last \in Nat /\ ver \in Nat
    BY <1>1, NumbersAre
  <2>2. ~dirty' => ~dirty
    BY Zenon DEF Change
  <2> QED
    BY <2>1, <2>2 DEF Change
<1>3. Keeps(Frame, Frame', last) /\ KeepsFinal(Frame, Frame', last)
      /\ Frame'.match = Frame.match
  BY <1>2, KeepsOn, FrameIs, FrameWill
<1>4. Arriving'
  BY <1>1, <1>2, <1>3, HubQuiet DEF Says
<1>5. TypeOK'
  <2>1. dirty' \in BOOLEAN
    BY <1>1 DEF TypeOK, Change
  <2>2. ver' \in 0..VerCap /\ phase' \in {"on", "pause"} /\ phase # "none"
    BY <1>1, DeliveryAssumption DEF TypeOK, Change
  <2> QED
    BY <1>1, <2>1, <2>2 DEF TypeOK, Change, pageVars
<1>6. Quiet'
  BY <1>1 DEF Quiet, Change
<1> QED
  BY <1>4, <1>5, <1>6 DEF DeliveryInv

LEMMA EndKeeps == ASSUME DeliveryInv, End PROVE DeliveryInv'
<1>1. TypeOK /\ Quiet /\ Arriving
  BY DEF DeliveryInv
<1> DEFINE msg == StateMsg("end")
<1>2. /\ last \in Nat /\ last' = last /\ cur' = cur /\ phase = "on" /\ cur # 0 /\ ver' = ver
      /\ phase' = "end" /\ dirty' /\ leaving' = leaving /\ conn' = conn
      /\ UNCHANGED pageVars /\ Send(<<msg>>, FALSE)
  BY <1>1, NumbersAre DEF End, TypeOK
<1>3. Frame' = [match |-> cur, ver |-> ver, phase |-> "end"]
  BY <1>2 DEF Frame
<1>4. /\ msg \in Messages /\ msg.t = "s" /\ ~SentAgain(msg)
      /\ Carries(Frame, Frame', msg, last, last') /\ Finishes(Frame, Frame', msg, last)
  BY <1>1, <1>2, <1>3, StateSent
<1>5. Frame.match # 0 /\ last <= last' /\ last' \in Nat
  BY <1>2, FrameIs
<1> HIDE DEF msg
<1>6. Arriving'
  BY <1>1, <1>2, <1>4, <1>5, HubOnce
<1>7. chan' \in Seq(Messages) /\ Len(chan') <= Cap /\ apart' \in BOOLEAN
  BY <1>1, <1>2, <1>4, SentTypesOne
<1>8. TypeOK'
  BY <1>1, <1>7 DEF TypeOK, End, pageVars
<1>9. Quiet'
  BY <1>1, <1>2, QuietKept DEF End
<1> QED
  BY <1>6, <1>8, <1>9 DEF DeliveryInv

LEMMA CancelKeeps == ASSUME DeliveryInv, Cancel PROVE DeliveryInv'
<1>1. TypeOK /\ Quiet /\ Arriving
  BY DEF DeliveryInv
<1>2. /\ last \in Nat /\ last' = last /\ cur' = 0 /\ dirty' /\ leaving' = leaving
      /\ conn' = conn /\ UNCHANGED pageVars /\ Send(<<CancelMsg>>, FALSE)
  BY <1>1, NumbersAre DEF Cancel, NoMatch
<1>3. CancelMsg \in Messages /\ ~SentAgain(CancelMsg)
  BY <1>1, MessagesSent DEF CancelMsg, SentAgain
<1>4. Frame'.match = 0
  BY <1>2, FrameWill
<1>5. Keeps(Frame, Frame', last)
  BY <1>4, KeepsGone
<1>6. Carries(Frame, Frame', CancelMsg, last, last') /\ Finishes(Frame, Frame', CancelMsg, last)
  BY <1>2, <1>5, CancelCarries
<1>7. Arriving'
  <2>1. last' \in Nat /\ last <= last'
    BY <1>2
  <2> QED
    BY <1>1, <1>2, <1>3, <1>4, <1>6, <2>1, HubOnce
<1>8. chan' \in Seq(Messages) /\ Len(chan') <= Cap /\ apart' \in BOOLEAN
  BY <1>1, <1>2, <1>3, SentTypesOne
<1>9. TypeOK'
  <2>1. 0 \in 0..last /\ 0 \in 0..VerCap
    BY <1>2, DeliveryAssumption
  <2> QED
    BY <1>1, <1>8, <2>1 DEF TypeOK, Cancel, NoMatch, pageVars
<1>10. Quiet'
  BY <1>1, <1>2, QuietKept DEF Cancel, NoMatch
<1> QED
  BY <1>7, <1>9, <1>10 DEF DeliveryInv

(* The match is as it was and nothing is sent. *)
LEMMA HubIdle ==
    ASSUME TypeOK, Arriving, chan' = chan, UNCHANGED pageVars, Frame' = Frame, last' = last,
           conn' = conn, conn = "up" /\ ~apart' => ~apart,
           ~leaving' /\ cur # 0 => ~leaving, ~dirty' => ~dirty
    PROVE  Arriving'
<1>1. last' \in Nat /\ last <= last' /\ Frame.match = cur
  BY NumbersAre
<1>2. Keeps(Frame, Frame', last) /\ KeepsFinal(Frame, Frame', last)
  BY KeepsSame
<1>3. conn' = "up" /\ ~apart' => conn = "up" /\ ~apart /\ KeepsFinal(Frame, Frame', last)
  BY <1>2, Zenon
<1>4. conn' = "up" /\ ~apart' /\ ~leaving' /\ Frame'.match # 0 => ~leaving /\ Frame.match # 0
  BY <1>1
<1>5. conn' = "up" /\ ~apart' /\ ~dirty' => ~dirty /\ Says(Frame') = Says(Frame)
  BY Zenon
<1> QED
  BY <1>1, <1>2, <1>3, <1>4, <1>5, HubQuiet

LEMMA DropKeeps == ASSUME DeliveryInv, Drop PROVE DeliveryInv'
<1>1. TypeOK /\ Quiet /\ Arriving
  BY DEF DeliveryInv
<1>2. /\ last \in Nat /\ last' = last /\ cur # 0 /\ cur' = 0 /\ dirty' /\ chan' = chan
      /\ conn' = conn /\ apart' = apart /\ UNCHANGED pageVars
      /\ phase = "end" \/ (phase = "pause" /\ conn = "none")
  BY <1>1, NumbersAre DEF Drop, NoMatch
<1>3. Frame'.match = 0 /\ Frame.match = cur /\ Frame.phase = phase
  BY <1>2, FrameWill, FrameIs
<1>4. Keeps(Frame, Frame', last) /\ (phase = "end" => KeepsFinal(Frame, Frame', last))
  BY <1>2, <1>3, KeepsGone
<1>5. Arriving'
  <2>1. last' \in Nat /\ last <= last'
    BY <1>2
  <2>2. conn' = "up" /\ ~apart' => conn = "up" /\ ~apart /\ KeepsFinal(Frame, Frame', last)
    BY <1>2, <1>4
  <2>3. conn' = "up" /\ ~apart' /\ ~leaving' /\ Frame'.match # 0 => ~leaving /\ Frame.match # 0
    BY <1>3
  <2>4. conn' = "up" /\ ~apart' /\ ~dirty' => ~dirty /\ Says(Frame') = Says(Frame)
    BY <1>2
  <2> QED
    BY <1>1, <1>2, <1>4, <2>1, <2>2, <2>3, <2>4, HubQuiet
<1>6. TypeOK'
  <2>1. 0 \in 0..last /\ 0 \in 0..VerCap
    BY <1>2, DeliveryAssumption
  <2> QED
    BY <1>1, <2>1 DEF TypeOK, Drop, NoMatch, pageVars
<1>7. Quiet'
  BY <1>1 DEF Quiet, Drop, NoMatch
<1> QED
  BY <1>5, <1>6, <1>7 DEF DeliveryInv

LEMMA DropBehindKeeps == ASSUME DeliveryInv, DropBehind PROVE DeliveryInv'
<1>1. TypeOK /\ Quiet /\ Arriving
  BY DEF DeliveryInv
<1>2. /\ UNCHANGED <<cur, last, main, phase, ver>> /\ dirty' /\ leaving' = leaving
      /\ conn' = conn /\ apart' = apart /\ chan' = chan /\ UNCHANGED pageVars
  BY DEF DropBehind
<1>3. Frame' = Frame
  BY <1>2, FrameWas
<1>4. Arriving'
  BY <1>1, <1>2, <1>3, HubIdle
<1>5. TypeOK'
  BY <1>1 DEF TypeOK, DropBehind, pageVars
<1>6. Quiet'
  BY <1>1, <1>2 DEF Quiet
<1> QED
  BY <1>4, <1>5, <1>6 DEF DeliveryInv

LEMMA LobbyChangeKeeps == ASSUME DeliveryInv, LobbyChange PROVE DeliveryInv'
<1>1. TypeOK /\ Quiet /\ Arriving
  BY DEF DeliveryInv
<1>2. /\ UNCHANGED <<cur, last, main, phase, ver>> /\ dirty' /\ leaving' = leaving
      /\ conn' = conn /\ apart' = apart /\ chan' = chan /\ UNCHANGED pageVars
  BY DEF LobbyChange
<1>3. Frame' = Frame
  BY <1>2, FrameWas
<1>4. Arriving'
  BY <1>1, <1>2, <1>3, HubIdle
<1>5. TypeOK'
  BY <1>1 DEF TypeOK, LobbyChange, pageVars
<1>6. Quiet'
  BY <1>1, <1>2 DEF Quiet
<1> QED
  BY <1>4, <1>5, <1>6 DEF DeliveryInv

LEMMA CloseArenaKeeps == ASSUME DeliveryInv, CloseArena PROVE DeliveryInv'
<1>1. TypeOK /\ Quiet /\ Arriving
  BY DEF DeliveryInv
<1> DEFINE mine   == IF cur # 0 /\ ~main THEN <<CancelMsg>> ELSE <<>>
           other  == IF behind THEN <<CancelMsg>> ELSE <<>>
           stray  == behind /\ main
<1>2. /\ Send(mine \o other, stray) /\ dirty' /\ last' = last /\ conn' = conn
      /\ leaving' = leaving /\ UNCHANGED pageVars /\ behind' = FALSE
      /\ IF cur # 0 /\ ~main THEN NoMatch ELSE UNCHANGED <<cur, main, phase, ver>>
  BY DEF CloseArena
<1>3. last \in Nat /\ last' \in Nat /\ last <= last' /\ Frame.match = cur
  BY <1>1, <1>2, NumbersAre
<1>4. CancelMsg \in Messages /\ ~SentAgain(CancelMsg) /\ CancelMsg.t = "cancelled"
  BY <1>1, MessagesSent DEF CancelMsg, SentAgain
<1>5. \/ mine \o other = <<CancelMsg, CancelMsg>> /\ cur # 0 /\ ~main
      \/ mine \o other = <<CancelMsg>> /\ ((cur # 0 /\ ~main) \/ behind)
      \/ mine \o other = <<>> /\ ~(cur # 0 /\ ~main) /\ ~behind
  <2>1. <<CancelMsg>> \o <<CancelMsg>> = <<CancelMsg, CancelMsg>>
        /\ <<CancelMsg>> \o <<>> = <<CancelMsg>> /\ <<>> \o <<CancelMsg>> = <<CancelMsg>>
    BY <1>1, <1>4, NumbersAre, Pieces
  <2>2. <<>> \o <<>> = <<>>
    OBVIOUS
  <2> QED
    BY <2>1, <2>2
<1> HIDE DEF mine, other, stray
<1>6. Keeps(Frame, Frame', last) /\ (cur # 0 /\ ~main => Frame'.match = 0)
      /\ (~(cur # 0 /\ ~main) => Frame' = Frame)
  <2>1. CASE cur # 0 /\ ~main
    <3>1. Frame'.match = 0
      BY <1>2, <2>1, FrameWill DEF NoMatch
    <3> QED
      BY <2>1, <3>1, KeepsGone
  <2>2. CASE ~(cur # 0 /\ ~main)
    <3>1. Frame' = Frame
      BY <1>2, <2>2, FrameWas
    <3> QED
      BY <2>2, <3>1, KeepsSame
  <2> QED
    BY <2>1, <2>2
<1>7. Carries(Frame, Frame', CancelMsg, last, last) /\ Finishes(Frame, Frame', CancelMsg, last)
  BY <1>3, <1>6, CancelCarries
<1>8. Keeps(Frame', Frame', last) /\ Carries(Frame', Frame', CancelMsg, last, last)
      /\ Finishes(Frame', Frame', CancelMsg, last)
  BY <1>3, KeepsSame, CancelCarries
<1>9. ASSUME mine \o other = <<CancelMsg, CancelMsg>> /\ cur # 0 /\ ~main
      PROVE  Arriving' /\ chan' \in Seq(Messages) /\ Len(chan') <= Cap /\ apart' \in BOOLEAN
  <2>1. Frame'.match = 0 /\ Send(<<CancelMsg, CancelMsg>>, stray)
    BY <1>2, <1>6, <1>9
  <2>2. Frame'.match # 0 => Frame.match # 0 /\ CancelMsg.t # "cancelled"
    BY <2>1
  <2>3. ~leaving' /\ Frame'.match # 0 =>
          CancelMsg.t = "match" \/ (~leaving /\ Frame'.match # 0 /\ CancelMsg.t # "cancelled")
    BY <2>1
  <2>4. ~dirty' => CancelMsg.t = "lobby" /\ CancelMsg.lobby = Says(Frame')
    BY <1>2
  <2>5. Arriving'
    BY <1>1, <1>2, <1>3, <1>4, <1>6, <1>7, <1>8, <2>1, <2>2, <2>3, <2>4, HubTwo
  <2>6. <<CancelMsg, CancelMsg>> \in Seq(Messages)
    BY <1>4
  <2> QED
    BY <1>1, <2>1, <2>5, <2>6, SentTypes
<1>10. ASSUME mine \o other = <<CancelMsg>> /\ ((cur # 0 /\ ~main) \/ behind)
      PROVE  Arriving' /\ chan' \in Seq(Messages) /\ Len(chan') <= Cap /\ apart' \in BOOLEAN
  <2>1. Send(<<CancelMsg>>, stray)
    BY <1>2, <1>10
  <2>2. Frame'.match = 0 \/ stray
    <3>1. CASE cur = 0
      BY <1>3, <1>6, <3>1
    <3>2. CASE cur # 0 /\ ~main
      BY <1>6, <3>2
    <3>3. CASE cur # 0 /\ main
      BY <1>10, <3>3 DEF stray
    <3> QED
      BY <3>1, <3>2, <3>3
  <2>3. Arriving'
    BY <1>1, <1>2, <1>3, <1>4, <1>7, <2>1, <2>2, HubOnce
  <2> QED
    BY <1>1, <1>4, <2>1, <2>3, SentTypesOne
<1>11. ASSUME mine \o other = <<>> /\ ~(cur # 0 /\ ~main) /\ ~behind
      PROVE  Arriving' /\ chan' \in Seq(Messages) /\ Len(chan') <= Cap /\ apart' \in BOOLEAN
  <2>1. Send(<<>>, stray) /\ Frame' = Frame
    BY <1>2, <1>6, <1>11
  <2>2. chan' = chan /\ (conn = "up" /\ ~apart' => ~apart)
    BY <1>1, <2>1, SentNone
  <2>3. Arriving'
    BY <1>1, <1>2, <2>1, <2>2, HubIdle
  <2>4. <<>> \in Seq(Messages)
    OBVIOUS
  <2> QED
    BY <1>1, <2>1, <2>3, <2>4, SentTypes
<1>12. Arriving' /\ chan' \in Seq(Messages) /\ Len(chan') <= Cap /\ apart' \in BOOLEAN
  BY <1>5, <1>9, <1>10, <1>11
<1>13. TypeOK'
  <2>1. 0 \in 0..last /\ 0 \in 0..VerCap
    BY <1>3, DeliveryAssumption
  <2>2. /\ cur' \in 0..last /\ main' \in BOOLEAN /\ phase' \in {"none", "on", "pause", "end"}
        /\ (phase' = "none" <=> cur' = 0) /\ ver' \in 0..VerCap
    BY <1>1, <1>2, <2>1 DEF TypeOK, NoMatch
  <2> QED
    BY <1>1, <1>2, <1>12, <2>2 DEF TypeOK, pageVars
<1>14. Quiet'
  <2>1. cur' = 0 => ~main'
    BY <1>1, <1>2 DEF NoMatch, Quiet
  <2> QED
    BY <1>1, <1>2, <2>1, QuietKept
<1> QED
  BY <1>12, <1>13, <1>14 DEF DeliveryInv

LEMMA HandleLeaveKeeps == ASSUME DeliveryInv, HandleLeave PROVE DeliveryInv'
<1>1. TypeOK /\ Quiet /\ Arriving
  BY DEF DeliveryInv
<1>2. /\ last \in Nat /\ last' = last /\ last' \in Nat /\ last <= last' /\ conn' = conn
      /\ ~leaving' /\ leaving' \in BOOLEAN /\ UNCHANGED pageVars
      /\ Frame'.match = cur' /\ Frame.match = cur
      /\ Frame.phase = phase /\ phase \in {"none", "on", "pause", "end"}
      /\ (phase = "none" <=> cur = 0)
  <2>1. last \in Nat /\ Frame.match = cur /\ Frame.phase = phase /\ Frame'.match = cur'
    BY <1>1, NumbersAre, FrameWill
  <2>2. last' = last /\ conn' = conn /\ leaving' = FALSE /\ UNCHANGED pageVars
    BY DEF HandleLeave
  <2>3. phase \in {"none", "on", "pause", "end"} /\ (phase = "none" <=> cur = 0)
    BY <1>1 DEF TypeOK
  <2>4. ~leaving' /\ leaving' \in BOOLEAN
    BY <2>2
  <2>5. last' \in Nat /\ last <= last'
    BY <2>1, <2>2
  <2> QED
    BY <2>1, <2>2, <2>3, <2>4, <2>5
<1> DEFINE Rest == Arriving' /\ chan' \in Seq(Messages) /\ Len(chan') <= Cap /\ apart' \in BOOLEAN
           Types == /\ cur' \in 0..last /\ main' \in BOOLEAN /\ ver' \in 0..VerCap
                    /\ phase' \in {"none", "on", "pause", "end"} /\ (phase' = "none" <=> cur' = 0)
                    /\ behind' \in BOOLEAN /\ dirty' \in BOOLEAN /\ (cur' = 0 => ~main')
                    /\ \E msgs \in {<<>>, <<CancelMsg>>, <<StateMsg("end")>>} : Send(msgs, FALSE)
<1>3. /\ 0 \in 0..last /\ 0 \in 0..VerCap /\ <<>> \in Seq(Messages)
  BY <1>2, DeliveryAssumption
<1>4. ASSUME phase = "none" PROVE Rest /\ Types
  <2>1. Send(<<>>, FALSE) /\ UNCHANGED <<cur, main, phase, ver, behind, dirty>>
    BY <1>4 DEF HandleLeave
  <2>2. chan' = chan /\ (conn = "up" /\ ~apart' => ~apart)
    BY <1>1, <2>1, SentNone
  <2>3. Frame' = Frame
    BY <2>1, FrameWas
  <2>4. (~leaving' /\ cur # 0 => ~leaving) /\ (~dirty' => ~dirty)
    BY <1>2, <1>4, <2>1
  <2>5. Arriving'
    BY <1>1, <1>2, <2>2, <2>3, <2>4, HubIdle
  <2>6. Types
    BY <1>1, <2>1 DEF TypeOK, Quiet
  <2>7. chan' \in Seq(Messages) /\ Len(chan') <= Cap /\ apart' \in BOOLEAN
    BY <1>1, <1>3, <2>1, SentTypes
  <2> QED
    BY <2>5, <2>6, <2>7
<1>5. ASSUME phase = "pause" PROVE Rest /\ Types
  <2>1. Send(<<CancelMsg>>, FALSE) /\ NoMatch /\ dirty' /\ dirty' \in BOOLEAN /\ behind' = behind
    BY <1>5 DEF HandleLeave
  <2>2. CancelMsg \in Messages /\ ~SentAgain(CancelMsg)
    BY <1>1, MessagesSent DEF CancelMsg, SentAgain
  <2>3. Frame'.match = 0
    BY <1>2, <2>1 DEF NoMatch
  <2>4. Keeps(Frame, Frame', last)
    BY <2>3, KeepsGone
  <2>5. Carries(Frame, Frame', CancelMsg, last, last') /\ Finishes(Frame, Frame', CancelMsg, last)
    BY <1>2, <2>4, CancelCarries
  <2>6. Arriving'
    BY <1>1, <1>2, <2>1, <2>2, <2>3, <2>5, HubOnce
  <2>7. Types
    BY <1>1, <1>3, <2>1 DEF TypeOK, NoMatch
  <2>8. chan' \in Seq(Messages) /\ Len(chan') <= Cap /\ apart' \in BOOLEAN
    BY <1>1, <2>1, <2>2, SentTypesOne
  <2> QED
    BY <2>6, <2>7, <2>8
<1>6. ASSUME phase = "on" PROVE Rest /\ Types
  <2> DEFINE msg == StateMsg("end")
  <2>1. Send(<<msg>>, FALSE) /\ NoMatch /\ dirty' /\ dirty' \in BOOLEAN /\ behind' = (behind \/ ~main)
    BY <1>6 DEF HandleLeave
  <2>2. Frame'.match = 0
    BY <1>2, <2>1 DEF NoMatch
  <2>3. /\ msg \in Messages /\ ~SentAgain(msg)
        /\ Carries(Frame, Frame', msg, last, last') /\ Finishes(Frame, Frame', msg, last)
    <3>1. cur # 0 /\ phase # "end"
      BY <1>2, <1>6
    <3> QED
      BY <1>1, <1>2, <2>2, <3>1, StateSent
  <2>4. Types
    <3>1. behind' \in BOOLEAN
      BY <2>1
    <3> QED
      BY <1>1, <1>3, <2>1, <3>1 DEF TypeOK, NoMatch
  <2> HIDE DEF msg
  <2>5. Arriving'
    BY <1>1, <1>2, <2>1, <2>2, <2>3, HubOnce
  <2>6. chan' \in Seq(Messages) /\ Len(chan') <= Cap /\ apart' \in BOOLEAN
    BY <1>1, <2>1, <2>3, SentTypesOne
  <2> QED
    BY <2>4, <2>5, <2>6
<1>7. ASSUME phase = "end" PROVE Rest /\ Types
  <2>1. Send(<<>>, FALSE) /\ NoMatch /\ dirty' /\ dirty' \in BOOLEAN /\ behind' \in {behind, behind \/ ~main}
    BY <1>7 DEF HandleLeave, LeftBehind
  <2>2. chan' = chan /\ (conn = "up" /\ ~apart' => ~apart)
    BY <1>1, <2>1, SentNone
  <2>3. Frame'.match = 0
    BY <1>2, <2>1 DEF NoMatch
  <2>4. Keeps(Frame, Frame', last) /\ KeepsFinal(Frame, Frame', last)
    BY <1>2, <1>7, <2>3, KeepsGone
  <2>5. conn' = "up" /\ ~apart' => conn = "up" /\ ~apart /\ KeepsFinal(Frame, Frame', last)
    BY <1>2, <2>2, <2>4
  <2>6. conn' = "up" /\ ~apart' /\ ~leaving' /\ Frame'.match # 0 => ~leaving /\ Frame.match # 0
    BY <2>3
  <2>7. conn' = "up" /\ ~apart' /\ ~dirty' => ~dirty /\ Says(Frame') = Says(Frame)
    BY <2>1
  <2>8. Arriving'
    BY <1>1, <1>2, <2>2, <2>4, <2>5, <2>6, <2>7, HubQuiet
  <2>9. Types
    <3>1. behind' \in BOOLEAN
      BY <1>1, <2>1 DEF TypeOK
    <3> QED
      BY <1>1, <1>3, <2>1, <3>1 DEF TypeOK, NoMatch
  <2>10. chan' \in Seq(Messages) /\ Len(chan') <= Cap /\ apart' \in BOOLEAN
    BY <1>1, <1>3, <2>1, SentTypes
  <2> QED
    BY <2>8, <2>9, <2>10
<1>8. Rest /\ Types
  BY <1>2, <1>4, <1>5, <1>6, <1>7
<1>9. TypeOK'
  BY <1>1, <1>2, <1>8 DEF TypeOK, pageVars
<1>10. Quiet'
  BY <1>1, <1>2, <1>8, QuietKept
<1> QED
  BY <1>8, <1>9, <1>10 DEF DeliveryInv

LEMMA TickKeeps == ASSUME DeliveryInv, NEW six \in BOOLEAN, Tick(six) PROVE DeliveryInv'
<1>1. TypeOK /\ Quiet /\ Arriving
  BY DEF DeliveryInv
<1> DEFINE s == StateMsg(phase)
           state == IF Live THEN <<s>> ELSE <<>>
           list  == IF six /\ dirty THEN <<LobbyMsg>> ELSE <<>>
<1>2. /\ Send(state \o list, FALSE) /\ dirty' = (dirty /\ ~six)
      /\ UNCHANGED <<cur, last, main, phase, ver, behind>> /\ leaving' = leaving /\ conn' = conn
      /\ UNCHANGED pageVars /\ Frame' = Frame
  <2>1. UNCHANGED <<cur, ver, phase>>
    BY DEF Tick
  <2> QED
    BY <2>1, FrameWas DEF Tick, TickMsgs
<1>3. last \in Nat /\ last' = last /\ last' \in Nat /\ last <= last' /\ Frame.match = cur
  BY <1>1, <1>2, NumbersAre
<1>4. /\ LobbyMsg \in Messages /\ ~SentAgain(LobbyMsg) /\ LobbyMsg.t = "lobby"
      /\ LobbyMsg.lobby = Says(Frame') /\ LobbyMsg = [t |-> "lobby", lobby |-> LobbyNow]
  BY <1>1, <1>2, MessagesSent, SaysNow DEF LobbyMsg, SentAgain
<1>5. /\ Carries(Frame, Frame', LobbyMsg, last, last') /\ Finishes(Frame, Frame', LobbyMsg, last)
      /\ Keeps(Frame, Frame', last) /\ KeepsFinal(Frame, Frame', last)
  BY <1>2, <1>3, <1>4, LobbyCarries, KeepsSame
<1>6. ASSUME Live
      PROVE  /\ s \in Messages /\ s.t = "s" /\ SentAgain(s) /\ Frame.match # 0
             /\ Carries(Frame, Frame', s, last, last') /\ Finishes(Frame, Frame', s, last)
  <2>1. cur # 0 /\ phase # "end" /\ phase \in {"on", "pause", "end"}
    BY <1>1, <1>6 DEF TypeOK, Live
  <2>2. Frame' = [match |-> cur, ver |-> ver, phase |-> phase]
    BY <1>2 DEF Frame
  <2> QED
    BY <1>1, <1>3, <2>1, <2>2, StateSent
<1> HIDE DEF s
<1>7. ASSUME Live, six /\ dirty
      PROVE  Arriving' /\ chan' \in Seq(Messages) /\ Len(chan') <= Cap /\ apart' \in BOOLEAN
  <2>1. Send(<<s, LobbyMsg>>, FALSE)
    <3>1. <<s>> \o <<LobbyMsg>> = <<s, LobbyMsg>>
      BY <1>1, <1>4, <1>6, <1>7, NumbersAre, Pieces
    <3> QED
      BY <1>2, <1>7, <3>1
  <2>2. Frame.match # 0 => Frame.match # 0 /\ s.t # "cancelled"
    BY <1>6, <1>7
  <2>3. ~leaving' /\ Frame'.match # 0 =>
          LobbyMsg.t = "match" \/ (~leaving /\ Frame.match # 0 /\ LobbyMsg.t # "cancelled")
    BY <1>2, <1>4
  <2>4. ~dirty' => LobbyMsg.t = "lobby" /\ LobbyMsg.lobby = Says(Frame')
    BY <1>4
  <2>5. s \in Messages /\ Carries(Frame, Frame, s, last, last) /\ Finishes(Frame, Frame, s, last)
    BY <1>2, <1>3, <1>6, <1>7
  <2>6. Arriving'
    BY <1>1, <1>2, <1>3, <1>4, <1>5, <2>1, <2>2, <2>3, <2>4, <2>5, HubTwo
  <2>7. <<s, LobbyMsg>> \in Seq(Messages)
    BY <1>4, <2>5
  <2> QED
    BY <1>1, <2>1, <2>6, <2>7, SentTypes
<1>8. ASSUME Live, ~(six /\ dirty)
      PROVE  Arriving' /\ chan' \in Seq(Messages) /\ Len(chan') <= Cap /\ apart' \in BOOLEAN
  <2>1. Send(<<s>>, FALSE)
    <3>1. <<s>> \o <<>> = <<s>>
      BY <1>1, <1>6, <1>8, NumbersAre, Pieces
    <3> QED
      BY <1>2, <1>8, <3>1
  <2>2. /\ SentAgain(s) => KeepsFinal(Frame, Frame', last)
        /\ SentAgain(s) => s.t # "lobby"
    BY <1>5, <1>6, <1>8
  <2>3. ~FALSE /\ ~leaving' /\ Frame'.match # 0 =>
          /\ s.t = "match" \/ (~leaving /\ Frame.match # 0 /\ s.t # "cancelled")
          /\ SentAgain(s) => ~leaving /\ Frame.match # 0
    BY <1>2, <1>6, <1>8
  <2>4. ~dirty' => \/ s.t = "lobby" /\ s.lobby = Says(Frame')
                   \/ ~dirty /\ Says(Frame') = Says(Frame) /\ s.t # "lobby"
    BY <1>1, <1>2, <1>6, <1>8 DEF TypeOK
  <2>5. s \in Messages /\ Carries(Frame, Frame', s, last, last') /\ Finishes(Frame, Frame', s, last)
    BY <1>6, <1>8
  <2>6. Arriving'
    BY <1>1, <1>2, <1>3, <1>5, <2>1, <2>2, <2>3, <2>4, <2>5, HubOne
  <2> QED
    BY <1>1, <2>1, <2>5, <2>6, SentTypesOne
<1>9. ASSUME ~Live, six /\ dirty
      PROVE  Arriving' /\ chan' \in Seq(Messages) /\ Len(chan') <= Cap /\ apart' \in BOOLEAN
  <2>1. Send(<<LobbyMsg>>, FALSE)
    <3>1. <<>> \o <<LobbyMsg>> = <<LobbyMsg>>
      BY <1>1, <1>4, NumbersAre, Pieces
    <3> QED
      BY <1>2, <1>9, <3>1
  <2>2. /\ SentAgain(LobbyMsg) => KeepsFinal(Frame, Frame', last)
        /\ SentAgain(LobbyMsg) => LobbyMsg.t # "lobby"
    BY <1>4
  <2>3. ~FALSE /\ ~leaving' /\ Frame'.match # 0 =>
          /\ LobbyMsg.t = "match" \/ (~leaving /\ Frame.match # 0 /\ LobbyMsg.t # "cancelled")
          /\ SentAgain(LobbyMsg) => ~leaving /\ Frame.match # 0
    BY <1>2, <1>4
  <2>4. ~dirty' => \/ LobbyMsg.t = "lobby" /\ LobbyMsg.lobby = Says(Frame')
                   \/ ~dirty /\ Says(Frame') = Says(Frame) /\ LobbyMsg.t # "lobby"
    BY <1>4
  <2>5. Arriving'
    BY <1>1, <1>2, <1>3, <1>4, <1>5, <2>1, <2>2, <2>3, <2>4, HubOne
  <2> QED
    BY <1>1, <1>4, <2>1, <2>5, SentTypesOne
<1>10. ASSUME ~Live, ~(six /\ dirty)
       PROVE  Arriving' /\ chan' \in Seq(Messages) /\ Len(chan') <= Cap /\ apart' \in BOOLEAN
  <2>1. Send(<<>>, FALSE)
    <3>1. <<>> \o <<>> = <<>>
      OBVIOUS
    <3> QED
      BY <1>2, <1>10, <3>1
  <2>2. chan' = chan /\ (conn = "up" /\ ~apart' => ~apart)
    BY <1>1, <2>1, SentNone
  <2>3. (~leaving' /\ cur # 0 => ~leaving) /\ (~dirty' => ~dirty)
    BY <1>1, <1>2, <1>10 DEF TypeOK
  <2>4. Arriving'
    BY <1>1, <1>2, <2>2, <2>3, HubIdle
  <2>5. <<>> \in Seq(Messages)
    OBVIOUS
  <2> QED
    BY <1>1, <2>1, <2>4, <2>5, SentTypes
<1>11. Arriving' /\ chan' \in Seq(Messages) /\ Len(chan') <= Cap /\ apart' \in BOOLEAN
  BY <1>7, <1>8, <1>9, <1>10
<1>12. TypeOK'
  <2>1. dirty' \in BOOLEAN
    BY <1>2
  <2> QED
    BY <1>1, <1>2, <1>11, <2>1 DEF TypeOK, pageVars
<1>13. Quiet'
  <2>1. cur' = 0 => ~main'
    BY <1>1, <1>2 DEF Quiet
  <2> QED
    BY <1>1, <1>2, <2>1, QuietKept
<1> QED
  BY <1>11, <1>12, <1>13 DEF DeliveryInv

-----------------------------------------------------------------------------
(* The connection *)

(* Nothing is under way on a connection that is not up. *)
LEMMA NoneUnderWay ==
    ASSUME TypeOK, Arriving, chan' = <<>>, conn' # "up", Frame' = Frame, last' = last,
           Here' = Here \/ Here' = Out
    PROVE  Arriving'
<1>1. Len(chan) \in Nat /\ last \in Nat /\ Leads(chan, Here, Frame, last, Sure)
  BY NumbersAre DEF Arriving, Good
<1>2. Here' \in Pages(last) /\ Own(Here', Frame)
  BY <1>1, PageOwn, OutIsFine
<1>3. Leads(<<>>, Here', Frame, last, "open")
  <2>1. "open" # "sure"
    OBVIOUS
  <2> QED
    BY <1>1, <1>2, <2>1, Empty
<1>4. Sure' = "open" /\ SureIn' # "sure" /\ SureOf' # "sure"
  <2>1. Sure' = IF conn' = "up" /\ ~apart' THEN "sure" ELSE "open"
    BY DEF Sure
  <2> QED
    BY <2>1, ModesWillBe, Zenon
<1> DEFINE l == plob'
           in == SureIn'
           of == SureOf'
<1>5. Good(<<>>, Here', l, Frame, last, "open", in, of)
  BY <1>3, <1>4 DEF Good
<1>6. Good(chan', Here', l, Frame', last', Sure', in, of)
  <2> HIDE DEF l, in, of
  <2> QED
    BY <1>4, <1>5
<1> QED
  BY <1>6, ArrivingWill

LEMMA LoseKeeps == ASSUME DeliveryInv, Lose PROVE DeliveryInv'
<1>1. TypeOK /\ Quiet /\ Arriving
  BY DEF DeliveryInv
<1>2. /\ UNCHANGED <<cur, last, main, phase, ver, behind, dirty>> /\ UNCHANGED pageVars
      /\ conn' = "broken" /\ chan' = <<>> /\ leaving' \in {leaving, FALSE} /\ apart' = apart
  BY DEF Lose, hubVars
<1>3. Frame' = Frame /\ Here' = Here
  BY <1>2, FrameWas DEF Here, pageVars
<1>4. Arriving'
  BY <1>1, <1>2, <1>3, NoneUnderWay
<1>5. TypeOK'
  <2>1. leaving' \in BOOLEAN
    <3>1. leaving \in BOOLEAN
      BY <1>1 DEF TypeOK
    <3> QED
      BY <1>2, <3>1, Zenon
  <2>2. <<>> \in Seq(Messages) /\ Len(<<>>) <= Cap
    BY DeliveryAssumption
  <2> QED
    BY <1>1, <1>2, <2>1, <2>2 DEF TypeOK, pageVars
<1>6. Quiet'
  BY <1>1, <1>2 DEF Quiet
<1> QED
  BY <1>4, <1>5, <1>6 DEF DeliveryInv

LEMMA ReloadKeeps == ASSUME DeliveryInv, Reload PROVE DeliveryInv'
<1>1. TypeOK /\ Quiet /\ Arriving
  BY DEF DeliveryInv
<1>2. /\ UNCHANGED <<cur, last, main, phase, ver, behind, dirty>> /\ leaving' = leaving
      /\ conn' = (IF conn = "up" THEN "broken" ELSE conn) /\ chan' = <<>> /\ apart' = apart
      /\ pmatch' = 0 /\ shown' = NoFrame /\ plob' = "none"
  BY DEF Reload, hubVars
<1>3. Frame' = Frame /\ Here' = Out /\ conn' # "up"
  BY <1>2, FrameWas DEF Here, Out
<1>4. Arriving'
  BY <1>1, <1>2, <1>3, NoneUnderWay
<1>5. TypeOK'
  <2>1. <<>> \in Seq(Messages) /\ Len(<<>>) <= Cap /\ 0 \in 0..last /\ "none" \in Lobbies
    BY <1>1, DeliveryAssumption DEF TypeOK, Lobbies
  <2> QED
    BY <1>1, <1>2, <2>1 DEF TypeOK
<1>6. Quiet'
  BY <1>1, <1>2 DEF Quiet
<1> QED
  BY <1>4, <1>5, <1>6 DEF DeliveryInv

LEMMA UnregisterKeeps == ASSUME DeliveryInv, Unregister PROVE DeliveryInv'
<1>1. TypeOK /\ Quiet /\ Arriving
  BY DEF DeliveryInv
<1>2. /\ UNCHANGED <<cur, last, main, ver, behind>> /\ UNCHANGED pageVars
      /\ conn = "broken" /\ conn' = "none" /\ leaving' = FALSE /\ dirty'
      /\ dirty' \in BOOLEAN /\ apart' = apart /\ chan' = chan
      /\ phase' = IF phase = "on" THEN "pause" ELSE phase
  BY DEF Unregister
<1>3. last' \in Nat /\ last <= last' /\ ver \in Nat
  BY <1>1, <1>2, NumbersAre
<1>4. Keeps(Frame, Frame', last)
  <2>1. CASE phase = "on"
    <3>1. Frame'.match = Frame.match /\ Frame.ver \in Nat /\ Frame'.ver \in Nat
          /\ Frame.ver <= Frame'.ver /\ Frame.phase # "end" /\ Frame'.phase # "end"
      BY <1>2, <1>3, <2>1, FrameIs, FrameWill
    <3> QED
      BY <3>1, KeepsOn
  <2>2. CASE phase # "on"
    <3>1. Frame' = Frame
      BY <1>2, <2>2, FrameWas
    <3> QED
      BY <3>1, KeepsSame
  <2> QED
    BY <2>1, <2>2
<1>5. Arriving'
  <2>1. conn' # "up"
    BY <1>2
  <2> QED
    BY <1>1, <1>2, <1>3, <1>4, <2>1, HubQuiet
<1>6. TypeOK'
  BY <1>1, <1>2 DEF TypeOK, pageVars
<1>7. Quiet'
  BY <1>1, <1>2 DEF Quiet
<1> QED
  BY <1>5, <1>6, <1>7 DEF DeliveryInv

(* What is sent on a new connection takes any page of the past to the match *)
(* of now.                                                                  *)
LEMMA Regained ==
    ASSUME NEW n \in Nat, NEW h \in Frames, h.match \in 0..n, NEW p \in Pages(n), Own(p, h)
    PROVE  Leads(<<StartMsg(h.match), [t |-> "s", frame |-> h]>>, p, h, n, "sure")
<1> DEFINE a == StartMsg(h.match)
           b == [t |-> "s", frame |-> h]
           q == <<a, b>>
           p1 == After(p, a)
           n1 == [match |-> h.match, shown |-> NoFrame]
           p2 == [match |-> h.match, shown |-> h]
           R == [i \in 0..2 |-> IF i = 0 THEN {p, Out}
                                ELSE IF i = 1 THEN {p1, n1, Out} ELSE {p2, Out}]
<1>1. h.match # 0 /\ NoFrame # h /\ h.ver \in Nat
  BY DEF Frames, NoFrame
<1>2. Out \in Pages(n) /\ Own(Out, h) /\ Final(Out, h) /\ Out.match = 0 /\ Out.shown = NoFrame
  BY OutIsFine DEF Out
<1>3. p1 = [match |-> h.match, shown |-> IF h.match = p.match THEN p.shown ELSE NoFrame]
      /\ After(Out, a) = n1
  BY <1>1, <1>2 DEF After, StartMsg
<1>4. p1 \in Pages(n) /\ Own(p1, h) /\ n1 \in Pages(n) /\ Own(n1, h)
  BY <1>3 DEF Pages, Own
<1>5. p2 \in Pages(n) /\ Own(p2, h) /\ Final(p2, h)
  BY <1>1 DEF Pages, Own, Final, Follows
<1>6. After(p1, b) = p2 /\ After(n1, b) = p2 /\ After(Out, b) = Out
  BY <1>1, <1>2, <1>3 DEF After, Out
<1>7. Onward(p, p1) /\ Onward(Out, n1) /\ Onward(n1, p2) /\ Onward(Out, Out)
  <2>1. \A f \in Frames : Follows(f, f)
    BY DEF Frames, Follows
  <2>2. p.shown # NoFrame => p.shown \in Frames
    BY DEF Pages
  <2> QED
    BY <1>2, <1>3, <2>1, <2>2 DEF Onward
<1>8. Onward(p1, p2)
  BY <1>1, <1>3, <1>4 DEF Onward, Own
<1>9. Len(q) = 2 /\ q[1] = a /\ q[2] = b
  OBVIOUS
<1> HIDE DEF a, b, q, p1, n1, p2
<1>10. R[0] = {p, Out} /\ R[1] = {p1, n1, Out} /\ R[2] = {p2, Out}
  OBVIOUS
<1>11. R \in [0..2 -> SUBSET Pages(n)]
  BY <1>2, <1>4, <1>5
<1> HIDE DEF R
<1>12. \A k \in 0..2 : k = 0 \/ k = 1 \/ k = 2
  OBVIOUS
<1>13. \A k \in 0..2 : Out \in R[k] /\ \A x \in R[k] : Own(x, h)
  BY <1>2, <1>4, <1>5, <1>10, <1>12
<1>14. ASSUME NEW k \in 1..2, NEW x \in R[k - 1]
       PROVE  After(x, q[k]) \in R[k] /\ Onward(x, After(x, q[k]))
  <2>1. CASE k = 1
    <3>1. k - 1 = 0
      BY <2>1
    <3>2. x \in {p, Out} /\ q[k] = a /\ R[k] = {p1, n1, Out}
      BY <1>9, <1>10, <2>1, <3>1
    <3> QED
      BY <1>3, <1>7, <3>2 DEF p1
  <2>2. CASE k = 2
    <3>1. k - 1 = 1
      BY <2>2
    <3>2. x \in {p1, n1, Out} /\ q[k] = b /\ R[k] = {p2, Out}
      BY <1>9, <1>10, <2>2, <3>1
    <3> QED
      BY <1>6, <1>7, <1>8, <3>2
  <2> QED
    BY <2>1, <2>2
<1>15. \A x \in R[2] : Final(x, h)
  BY <1>2, <1>5, <1>10
<1>16. OnTheWay(R, q, p, h, n, "sure")
  BY <1>9, <1>10, <1>11, <1>13, <1>14, <1>15 DEF OnTheWay
<1> QED
  BY <1>16 DEF Leads, q, a, b

LEMMA RegisterKeeps == ASSUME DeliveryInv, Register PROVE DeliveryInv'
<1>1. TypeOK /\ Quiet /\ Arriving
  BY DEF DeliveryInv
<1>2. /\ UNCHANGED <<cur, last, main, ver, behind>> /\ UNCHANGED pageVars
      /\ conn' = "up" /\ leaving' = FALSE /\ dirty' /\ dirty' \in BOOLEAN
      /\ chan' = IF cur # 0 THEN <<StartMsg(cur), StateMsg(phase')>> ELSE <<>>
      /\ apart' = (cur = 0 /\ pmatch # 0 /\ shown.phase # "end")
      /\ phase' \in IF phase = "pause" THEN {"pause", "on"} ELSE {phase}
  BY DEF Register
<1>3. last' = last /\ last \in Nat /\ ver \in Nat /\ cur \in 0..last /\ last \in 0..MatchCap
      /\ Len(chan) \in Nat
  BY <1>1, <1>2, NumbersAre
<1>4. phase' \in {"none", "on", "pause", "end"} /\ (phase' = "none" <=> cur = 0)
  BY <1>1, <1>2 DEF TypeOK
<1>5. Here' = Here /\ plob' = plob
  BY <1>2 DEF Here, pageVars
<1>6. Here \in Pages(last) /\ Own(Here, Frame)
  BY <1>1, <1>3, PageOwn DEF Arriving, Good
<1>7. Own(Here, Frame')
  <2>1. CASE phase = "pause"
    <3>1. Frame'.match = Frame.match /\ Frame.ver \in Nat /\ Frame'.ver \in Nat
          /\ Frame.ver <= Frame'.ver /\ Frame.phase # "end" /\ Frame'.phase # "end"
      BY <1>2, <1>3, <2>1, FrameIs, FrameWill
    <3>2. Keeps(Frame, Frame', last)
      BY <3>1, KeepsOn
    <3> QED
      BY <1>6, <3>2 DEF Keeps
  <2>2. CASE phase # "pause"
    <3>1. Frame' = Frame
      BY <1>2, <2>2, FrameWas
    <3> QED
      BY <1>6, <3>1
  <2> QED
    BY <2>1, <2>2
<1>8. SureOf' # "sure"
  BY <1>2, ModesWillBe, Zenon
<1>9. ASSUME cur # 0
      PROVE  Arriving' /\ chan' \in Seq(Messages) /\ Len(chan') <= Cap
  <2>1. /\ Frame' \in Frames /\ StateMsg(phase') = [t |-> "s", frame |-> Frame']
        /\ StateMsg(phase') \in Messages /\ StartMsg(cur) \in Messages
    <3>1. cur \in 1..MatchCap /\ phase' \in {"on", "pause", "end"}
      <4>1. phase' \in {"on", "pause", "end"}
        BY <1>4, <1>9
      <4>2. MatchCap \in Nat
        BY DeliveryAssumption
      <4> QED
        BY <1>3, <1>9, <4>1, <4>2
    <3>2. Frame' = [match |-> cur, ver |-> ver, phase |-> phase']
      BY <1>2 DEF Frame
    <3>3. [Frame EXCEPT !.phase = phase'] = [match |-> cur, ver |-> ver, phase |-> phase']
      BY DEF Frame
    <3>4. [Frame EXCEPT !.phase = phase'] \in Frames /\ StateMsg(phase') \in Messages
          /\ StateMsg(phase') = [t |-> "s", frame |-> [Frame EXCEPT !.phase = phase']]
      BY <1>1, <1>9, <3>1, MessagesSent
    <3> QED
      BY <1>1, <3>1, <3>2, <3>3, <3>4, MessagesSent
  <2>2. Frame'.match = cur /\ StartMsg(cur).t = "match" /\ StateMsg(phase').t = "s"
    BY <1>2, <2>1, FrameWill DEF StartMsg
  <2> DEFINE a == StartMsg(cur)
             b == StateMsg(phase')
             g == Frame'
             q == <<a, b>>
  <2>3. Leads(q, Here, g, last, "sure")
    BY <1>3, <1>6, <1>7, <2>1, <2>2, Regained
  <2>4. chan' = q /\ q \in Seq(Messages) /\ Len(q) = 2 /\ q[1] = a /\ q[2] = b /\ 2 <= Cap
    BY <1>2, <1>9, <2>1, DeliveryAssumption
  <2>5. EndsIn(q, Here.match)
    <3>1. 1 \in 0..Len(q) /\ \A j \in (1 + 1)..Len(q) : j = 2
      BY <2>4
    <3>2. q[1].t = "match" /\ q[2].t # "cancelled"
      BY <2>2, <2>4
    <3> HIDE DEF q
    <3> QED
      BY <3>1, <3>2 DEF EndsIn
  <2> HIDE DEF q, a, b
  <2>6. Leads(q, Here, g, last, Sure')
    <3>1. Sure' = "sure" \/ Sure' = "open"
      BY Zenon DEF Sure
    <3>2. Leads(q, Here, g, last, "open")
      <4>1. \A R : OnTheWay(R, q, Here, g, last, "sure") => OnTheWay(R, q, Here, g, last, "open")
        BY DEF OnTheWay
      <4> QED
        BY <2>3, <4>1 DEF Leads
    <3> QED
      BY <2>3, <3>1, <3>2
  <2>7. \A in, of : of # "sure" => Good(q, Here, plob, g, last, Sure', in, of)
    BY <2>5, <2>6 DEF Good
  <2>8. Good(q, Here, plob, g, last, Sure', SureIn', SureOf')
    BY <1>8, <2>7
  <2>9. Good(chan', Here', plob', Frame', last', Sure', SureIn', SureOf')
    BY <1>3, <1>5, <2>4, <2>8
  <2> QED
    BY <2>4, <2>9, ArrivingWill
<1>10. ASSUME cur = 0
       PROVE  Arriving' /\ chan' \in Seq(Messages) /\ Len(chan') <= Cap
  <2> DEFINE g == Frame'
  <2>1. g.match = 0
    BY <1>2, <1>10, FrameWill
  <2>2. Sure' = "sure" => Final(Here, g)
    <3>1. Sure' = "sure" => ~(pmatch # 0 /\ shown.phase # "end")
      <4>1. Sure' = "sure" => ~apart'
        BY ModesWillBe, Zenon
      <4> QED
        BY <1>2, <1>10, <4>1
    <3> QED
      BY <2>1, <3>1 DEF Final, Here
  <2>3. Leads(<<>>, Here, g, last, Sure')
    BY <1>3, <1>6, <1>7, <2>2, Empty
  <2> HIDE DEF g
  <2>4. \A in, of : of # "sure" => Good(<<>>, Here, plob, g, last, Sure', in, of)
    BY <2>1, <2>3 DEF Good
  <2>5. Good(<<>>, Here, plob, g, last, Sure', SureIn', SureOf')
    BY <1>8, <2>4
  <2>6. chan' = <<>> /\ <<>> \in Seq(Messages) /\ Len(<<>>) <= Cap
    BY <1>2, <1>10, DeliveryAssumption
  <2>7. Good(chan', Here', plob', Frame', last', Sure', SureIn', SureOf')
    BY <1>3, <1>5, <2>5, <2>6 DEF g
  <2> QED
    BY <2>6, <2>7, ArrivingWill
<1>11. Arriving' /\ chan' \in Seq(Messages) /\ Len(chan') <= Cap
  BY <1>9, <1>10
<1>12. TypeOK'
  <2>1. leaving' \in BOOLEAN /\ apart' \in BOOLEAN
    BY <1>2, Zenon
  <2> QED
    BY <1>1, <1>2, <1>4, <1>11, <2>1 DEF TypeOK, pageVars
<1>13. Quiet'
  BY <1>1, <1>2 DEF Quiet
<1> QED
  BY <1>11, <1>12, <1>13 DEF DeliveryInv

-----------------------------------------------------------------------------
(* The page's actions *)

LEMMA HereIs == Here.match = pmatch /\ Here.shown = shown
BY DEF Here

LEMMA HereWill == Here'.match = pmatch' /\ Here'.shown = shown'
BY DEF Here

(* The page after Receive, and that it shows only what is later *)
LEMMA ReceiveDoes ==
    ASSUME TypeOK, Receive
    PROVE  /\ chan # <<>> /\ Head(chan) \in Messages
           /\ Here' = After(Here, Head(chan))
           /\ plob' = IF Head(chan).t = "lobby" THEN Head(chan).lobby ELSE plob
<1> DEFINE msg == Head(chan)
<1>1. chan # <<>> /\ msg \in Messages
  BY NumbersAre DEF Receive
<1>2. msg.t \in {"match", "s", "cancelled", "lobby"}
  BY <1>1 DEF Messages
<1>3. /\ msg.t = "match" => StartGame(msg.match) /\ UNCHANGED plob
      /\ msg.t = "s" => /\ shown' = IF pmatch = 0 THEN shown ELSE msg.frame
                        /\ UNCHANGED <<pmatch, plob>>
      /\ msg.t = "cancelled" => pmatch' = 0 /\ shown' = NoFrame /\ UNCHANGED plob
      /\ msg.t = "lobby" => plob' = msg.lobby /\ UNCHANGED <<pmatch, shown>>
  BY <1>2 DEF Receive
<1> HIDE DEF msg
<1>4. CASE msg.t = "match"
  BY <1>1, <1>3, <1>4 DEF StartGame, After, Here, msg
<1>5. CASE msg.t = "s"
  BY <1>1, <1>3, <1>5 DEF After, Here, msg
<1>6. CASE msg.t = "cancelled"
  BY <1>1, <1>3, <1>6 DEF After, Here, Out, msg
<1>7. CASE msg.t = "lobby"
  BY <1>1, <1>3, <1>7 DEF After, Here, msg
<1> QED
  BY <1>2, <1>4, <1>5, <1>6, <1>7

LEMMA ReceiveKeeps ==
    ASSUME DeliveryInv, Receive
    PROVE  DeliveryInv' /\ (conn = "up" /\ ~apart => Onward(Here, Here'))
<1>1. TypeOK /\ Quiet /\ Arriving
  BY DEF DeliveryInv
<1> DEFINE msg == Head(chan)
           seen == IF msg.t = "lobby" THEN msg.lobby ELSE plob
<1>2. /\ UNCHANGED <<cur, last, main, phase, ver, behind, dirty>>
      /\ UNCHANGED <<conn, leaving, apart>> /\ chan' = Tail(chan)
  BY DEF Receive, hubVars
<1>3. /\ chan # <<>> /\ msg \in Messages /\ Here' = After(Here, msg) /\ plob' = seen
  BY <1>1, ReceiveDoes
<1>4. chan \in Seq(Messages) /\ last \in Nat /\ last' = last /\ Frame' = Frame
  BY <1>1, <1>2, NumbersAre, FrameWas
<1>5. Sure' = Sure /\ SureIn' = SureIn /\ SureOf' = SureOf
  BY <1>2 DEF Sure, SureIn, SureOf
<1>6. Good(chan, Here, plob, Frame, last, Sure, SureIn, SureOf)
  BY <1>1 DEF Arriving
<1>7. /\ Good(Tail(chan), After(Here, msg), seen, Frame, last, Sure, SureIn, SureOf)
      /\ After(Here, msg) \in Pages(last)
      /\ Sure = "sure" => Onward(Here, After(Here, msg))
  BY <1>3, <1>4, <1>6, OneReceived
<1> HIDE DEF msg, seen
<1>8. Arriving'
  <2>1. Good(chan', Here', plob', Frame', last', Sure', SureIn', SureOf')
    BY <1>2, <1>3, <1>4, <1>5, <1>7
  <2> QED
    BY <2>1, ArrivingWill
<1>9. TypeOK'
  <2>1. pmatch' \in 0..last /\ shown' \in Frames \cup {NoFrame}
    BY <1>3, <1>7, HereWill DEF Pages
  <2>2. plob' \in Lobbies
    <3>1. msg.t = "lobby" => msg.lobby \in Lobbies
      BY <1>3 DEF Messages
    <3> QED
      BY <1>1, <1>3, <3>1 DEF seen, TypeOK
  <2>3. chan' \in Seq(Messages) /\ Len(chan') <= Cap
    <3>1. Len(Tail(chan)) = Len(chan) - 1 /\ Tail(chan) \in Seq(Messages) /\ Len(chan) \in Nat
      BY <1>3, <1>4
    <3> QED
      BY <1>1, <1>2, <3>1, DeliveryAssumption DEF TypeOK
  <2> QED
    BY <1>1, <1>2, <2>1, <2>2, <2>3 DEF TypeOK
<1>10. Quiet'
  BY <1>1, <1>2, <1>3 DEF Quiet
<1>11. conn = "up" /\ ~apart => Onward(Here, Here')
  <2>1. conn = "up" /\ ~apart => Sure = "sure"
    BY ModesAre, Zenon
  <2> QED
    BY <1>3, <1>7, <2>1
<1> QED
  BY <1>8, <1>9, <1>10, <1>11 DEF DeliveryInv

LEMMA LeaveGameKeeps == ASSUME DeliveryInv, LeaveGame PROVE DeliveryInv'
<1>1. TypeOK /\ Quiet /\ Arriving
  BY DEF DeliveryInv
<1>2. /\ UNCHANGED <<cur, last, main, phase, ver, behind, dirty>>
      /\ conn' = conn /\ chan' = chan /\ plob' = plob /\ apart' = apart
      /\ pmatch' = 0 /\ shown' = NoFrame /\ leaving' = (conn = "up")
  BY DEF LeaveGame, hubVars
<1>3. Frame' = Frame /\ Here' = Out /\ last' = last /\ last \in Nat /\ Len(chan) \in Nat
  BY <1>1, <1>2, FrameWas, NumbersAre DEF Here, Out
<1>4. Sure' = Sure /\ SureOf' = SureOf
  BY <1>2 DEF Sure, SureOf
<1>5. SureIn' # "sure"
  <2>1. conn' = "up" => leaving'
    BY <1>2
  <2> QED
    BY <2>1, ModesWillBe, Zenon
<1>6. Leads(chan, Here, Frame, last, Sure) /\ (SureOf = "sure" => EndsWith(chan, plob, Says(Frame)))
  BY <1>1 DEF Arriving, Good
<1>7. Leads(chan, Out, Frame, last, Sure)
  BY <1>3, <1>6, Leaves
<1>8. \A in : in # "sure" => Good(chan, Out, plob, Frame, last, Sure, in, SureOf)
  BY <1>6, <1>7 DEF Good
<1>9. Good(chan, Out, plob, Frame, last, Sure, SureIn', SureOf)
  BY <1>5, <1>8
<1>10. Arriving'
  <2>1. Good(chan', Here', plob', Frame', last', Sure', SureIn', SureOf')
    BY <1>2, <1>3, <1>4, <1>9
  <2> QED
    BY <2>1, ArrivingWill
<1>11. TypeOK'
  <2>1. leaving' \in BOOLEAN /\ 0 \in 0..last
    BY <1>2, <1>3
  <2> QED
    BY <1>1, <1>2, <2>1 DEF TypeOK
<1>12. Quiet'
  BY <1>1, <1>2 DEF Quiet
<1> QED
  BY <1>10, <1>11, <1>12 DEF DeliveryInv

-----------------------------------------------------------------------------
(* The theorems *)

LEMMA InitHolds == Init => DeliveryInv
<1> SUFFICES ASSUME Init PROVE DeliveryInv
  OBVIOUS
<1>1. TypeOK
  <2>1. /\ 0 \in 0..0 /\ 0 \in 0..MatchCap /\ 0 \in 0..VerCap /\ 0 <= Cap
    BY DeliveryAssumption
  <2>2. <<>> \in Seq(Messages) /\ Len(<<>>) = 0
    OBVIOUS
  <2> QED
    BY <2>1, <2>2 DEF Init, TypeOK, Lobbies
<1>2. Quiet
  BY DEF Init, Quiet
<1>3. Here = Out /\ chan = <<>> /\ last = 0
  BY DEF Init, Here, Out
<1>4. Sure = "open" /\ SureIn = "open" /\ SureOf = "open"
  BY DEF Init, Sure, SureIn, SureOf
<1>5. Leads(<<>>, Out, Frame, 0, "open")
  <2>1. 0 \in Nat /\ "open" # "sure"
    OBVIOUS
  <2> QED
    BY <2>1, OutIsFine, Empty
<1>6. Good(<<>>, Out, plob, Frame, 0, "open", "open", "open")
  BY <1>5 DEF Good
<1>7. Arriving
  BY <1>3, <1>4, <1>6 DEF Arriving
<1> QED
  BY <1>1, <1>2, <1>7 DEF DeliveryInv

LEMMA StutterKeeps == ASSUME DeliveryInv, UNCHANGED vars PROVE DeliveryInv'
<1>1. TypeOK /\ Quiet /\ Arriving
  BY DEF DeliveryInv
<1>2. /\ UNCHANGED <<cur, last, main, phase, ver, behind, dirty>>
      /\ UNCHANGED <<conn, chan, leaving, apart>> /\ UNCHANGED <<pmatch, shown, plob>>
  BY DEF vars, hubVars, pageVars
<1>3. Frame' = Frame /\ UNCHANGED pageVars
  BY <1>2, FrameWas DEF pageVars
<1>4. Arriving'
  BY <1>1, <1>2, <1>3, HubIdle
<1>5. TypeOK'
  BY <1>1, <1>2 DEF TypeOK
<1>6. Quiet'
  BY <1>1, <1>2 DEF Quiet
<1> QED
  BY <1>4, <1>5, <1>6 DEF DeliveryInv

LEMMA StepKeeps == DeliveryInv /\ [Next]_vars => DeliveryInv'
<1> SUFFICES ASSUME DeliveryInv, [Next]_vars PROVE DeliveryInv'
  OBVIOUS
<1>1. ASSUME NEW fx \in BOOLEAN, Start(fx) PROVE DeliveryInv'
  BY <1>1, StartKeeps
<1>2. ASSUME NEW six \in BOOLEAN, Tick(six) PROVE DeliveryInv'
  BY <1>2, TickKeeps
<1>3. CASE AskRematch \/ Rematch \/ Change \/ End \/ Cancel
  BY <1>3, AskRematchKeeps, RematchKeeps, ChangeKeeps, EndKeeps, CancelKeeps
<1>4. CASE CloseArena \/ Drop \/ DropBehind \/ LobbyChange \/ HandleLeave
  BY <1>4, CloseArenaKeeps, DropKeeps, DropBehindKeeps, LobbyChangeKeeps, HandleLeaveKeeps
<1>5. CASE Lose \/ Unregister \/ Register
  BY <1>5, LoseKeeps, UnregisterKeeps, RegisterKeeps
<1>6. CASE Receive \/ LeaveGame \/ Reload
  BY <1>6, ReceiveKeeps, LeaveGameKeeps, ReloadKeeps
<1>7. CASE UNCHANGED vars
  BY <1>7, StutterKeeps
<1> QED
  BY <1>1, <1>2, <1>3, <1>4, <1>5, <1>6, <1>7 DEF Next

(* Whatever is under way, is lost or is dropped: every page that can come   *)
(* about is of a match the hub has given out, shows nothing of the match of *)
(* now that has not been, and once all has arrived is where the hub is, but *)
(* for the exceptions that `apart` records.                                 *)
THEOREM DeliveryCorrect == Spec => []DeliveryInv
<1>1. Init => DeliveryInv
  BY InitHolds
<1>2. DeliveryInv /\ [Next]_vars => DeliveryInv'
  BY StepKeeps
<1> QED
  BY <1>1, <1>2, PTL DEF Spec

(* The buffer never holds more than it may, and every state on a screen is  *)
(* one of the hub's.                                                        *)
THEOREM TypesHold == Spec => []TypeOK
<1>1. DeliveryInv => TypeOK
  BY DEF DeliveryInv
<1> QED
  BY <1>1, DeliveryCorrect, PTL

LEMMA ScreenAgrees == DeliveryInv => InStep
<1> SUFFICES ASSUME DeliveryInv, conn = "up", chan = <<>>, ~leaving, ~apart
             PROVE  /\ cur = 0 => pmatch = 0 \/ shown.phase = "end"
                    /\ cur # 0 => /\ pmatch = cur /\ shown.match \in {0, cur}
                                  /\ phase = "end" => shown = Frame
                    /\ ~dirty => plob = LobbyNow
  BY DEF InStep
<1>1. TypeOK /\ Quiet /\ Arriving
  BY DEF DeliveryInv
<1>2. Sure = "sure" /\ SureIn = "sure" /\ (~dirty => SureOf = "sure")
  BY ModesAre, Zenon
<1>3. Good(<<>>, Here, plob, Frame, last, "sure", "sure", SureOf)
  BY <1>1, <1>2 DEF Arriving
<1>4. last \in Nat /\ Frame.match = cur /\ Frame.phase = phase
  BY <1>1, NumbersAre
<1>5. Len(<<>>) = 0 /\ 0..0 = {0}
  OBVIOUS
<1>6. Final(Here, Frame) /\ Own(Here, Frame)
  <2>1. Leads(<<>>, Here, Frame, last, "sure")
    BY <1>3 DEF Good
  <2> QED
    BY <1>4, <1>5, <2>1, Arrived, PageOwn
<1>7. cur = 0 => pmatch = 0 \/ shown.phase = "end"
  BY <1>4, <1>6, HereIs DEF Final
<1>8. cur # 0 => pmatch # 0
  <2> SUFFICES ASSUME cur # 0 PROVE pmatch # 0
    OBVIOUS
  <2>1. EndsIn(<<>>, Here.match)
    BY <1>3, <1>4 DEF Good
  <2> QED
    BY <1>5, <2>1, HereIs DEF EndsIn
<1>9. cur # 0 => pmatch = cur /\ (phase = "end" => shown = Frame)
  BY <1>4, <1>6, <1>8, HereIs DEF Final
<1>10. cur # 0 => shown.match \in {0, cur}
  BY <1>4, <1>6, <1>9, HereIs DEF Own, Follows, NoFrame
<1>11. ~dirty => plob = LobbyNow
  <2> SUFFICES ASSUME ~dirty PROVE plob = LobbyNow
    OBVIOUS
  <2>1. EndsWith(<<>>, plob, Says(Frame))
    BY <1>2, <1>3 DEF Good
  <2> QED
    BY <1>5, <2>1, SaysNow DEF EndsWith
<1> QED
  BY <1>7, <1>8, <1>9, <1>10, <1>11

(* When everything that was sent has arrived, the screen shows the match    *)
(* the student is in, the end of one that is over, and the lobby as it is.  *)
THEOREM ScreenInStep == Spec => []InStep
<1>1. DeliveryInv => InStep
  BY ScreenAgrees
<1> QED
  BY <1>1, DeliveryCorrect, PTL

(* What one step does to the screen: nothing, it empties it, or, if a       *)
(* message is read on a connection that nothing was dropped from, it moves  *)
(* on.                                                                      *)
LEMMA ScreenMoves ==
    ASSUME DeliveryInv, [Next]_vars
    PROVE  \/ shown' = shown \/ shown' = NoFrame
           \/ conn = "up" /\ apart' = apart /\ (~apart => Onward(Here, Here'))
<1>1. CASE Receive
  <2>1. conn = "up"
    BY <1>1 DEF DeliveryInv, Quiet, Receive
  <2>2. apart' = apart
    BY <1>1 DEF Receive
  <2> QED
    BY <1>1, <2>1, <2>2, ReceiveKeeps
<1>2. CASE LeaveGame \/ Reload
  BY <1>2 DEF LeaveGame, Reload
<1>3. CASE (\E fx \in BOOLEAN : Start(fx)) \/ (\E six \in BOOLEAN : Tick(six))
  BY <1>3 DEF Start, Tick, pageVars
<1>4. CASE AskRematch \/ Rematch \/ Change \/ End \/ Cancel
  BY <1>4 DEF AskRematch, Rematch, Change, End, Cancel, pageVars
<1>5. CASE CloseArena \/ Drop \/ DropBehind \/ LobbyChange \/ HandleLeave
  BY <1>5 DEF CloseArena, Drop, DropBehind, LobbyChange, HandleLeave, pageVars
<1>6. CASE Lose \/ Unregister \/ Register
  BY <1>6 DEF Lose, Unregister, Register, pageVars
<1>7. CASE UNCHANGED vars
  BY <1>7 DEF vars, pageVars
<1> QED
  BY <1>1, <1>2, <1>3, <1>4, <1>5, <1>6, <1>7 DEF Next

(* States do not say which match they are of, yet no step of the hub, of    *)
(* the network or of the page makes a screen show another match's state     *)
(* under this one, or an earlier one.                                       *)
THEOREM ScreenNeverBack == Spec => NeverBack
<1>1. ASSUME DeliveryInv, [Next]_vars, pmatch' = pmatch, shown # NoFrame, shown' # NoFrame, ~apart'
      PROVE  /\ shown'.match = shown.match /\ shown'.ver >= shown.ver
             /\ shown.phase = "end" => shown' = shown
  <2>1. shown \in Frames
    BY <1>1 DEF DeliveryInv, TypeOK
  <2>2. shown.ver \in Nat
    BY <2>1 DEF Frames
  <2>3. CASE shown' = shown
    BY <2>2, <2>3
  <2>4. CASE conn = "up" /\ apart' = apart /\ (~apart => Onward(Here, Here'))
    <3>1. Onward(Here, Here')
      BY <1>1, <2>4
    <3>2. Follows(shown, shown')
      BY <1>1, <3>1, HereIs, HereWill DEF Onward
    <3>3. shown'.ver \in Nat
      <4>1. TypeOK'
        BY <1>1, StepKeeps DEF DeliveryInv
      <4>2. shown' \in Frames
        BY <1>1, <4>1 DEF TypeOK
      <4> QED
        BY <4>2 DEF Frames
    <3> QED
      BY <2>2, <3>2, <3>3 DEF Follows
  <2> QED
    BY <1>1, <2>3, <2>4, ScreenMoves
<1>2. DeliveryInv /\ [Next]_vars =>
        [pmatch' = pmatch /\ shown # NoFrame /\ shown' # NoFrame /\ ~apart'
          => /\ shown'.match = shown.match /\ shown'.ver >= shown.ver
             /\ shown.phase = "end" => shown' = shown]_vars
  BY <1>1
<1> QED
  BY <1>2, DeliveryCorrect, PTL DEF Spec, NeverBack
=============================================================================
