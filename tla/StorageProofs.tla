--------------------------- MODULE StorageProofs ---------------------------
(***************************************************************************)
(* Proofs about Storage for any number of competitions, fixtures and       *)
(* results, any clock and any place where the program stops: no torn file, *)
(* no counted result without its file, the right competition at the start, *)
(* and faithful lists.                                                     *)
(*                                                                         *)
(* What a file may hold depends on what the handler at work still has to   *)
(* save, so each inductive invariant speaks of todo: WriteAhead of which   *)
(* result comes before which competition, Pending of what the saves hold,  *)
(* Disks of how far the files are behind the memory.                       *)
(***************************************************************************)
EXTENDS Storage, SequenceTheorems, TLAPS

Contents == [is : {"whole"}, res : [Fixture -> Sources], closed : BOOLEAN]
Files    == [is : {"absent", "whole"}, res : [Fixture -> Sources], closed : BOOLEAN]
Saves    == [what : {"comp"}, comp : Comps, content : Contents]
              \cup [what : {"result"}, result : Result]

OfComp(i, c)   == todo[i].what = "comp" /\ todo[i].comp = c
OfResult(i, r) == todo[i].what = "result" /\ todo[i].result = r

(* Only competitions that were made are on disk or to be saved. *)
Made ==
    /\ \A c \in Comps : c > last => disk[c] = Absent
    /\ \A i \in 1..Len(todo) : todo[i].what = "comp" => todo[i].comp <= last

(* TypeOK and what the handler at work has to do and has found. *)
Types == TypeOK /\ todo \in Seq(Saves) /\ before \in (0..CompCap) \X Files /\ Made

(* The result has its file, or is excused. *)
OnFile(r) == file[r] = "whole" \/ r \in excused

(* No competition names a result, on disk, in memory or in a save, before   *)
(* the result is on file or on its way there.                               *)
WriteAhead ==
    /\ ResultOnFile
    /\ \A f \in Fixture, r \in Result :
         res[f] = r => OnFile(r) \/ \E j \in 1..Len(todo) : OfResult(j, r)
    /\ \A i \in 1..Len(todo) : todo[i].what = "comp" =>
         \A f \in Fixture, r \in Result : todo[i].content.res[f] = r =>
           OnFile(r) \/ \E j \in 1..(i - 1) : OfResult(j, r)

(* The saves of the competition that goes on hold it as it is and come last, *)
(* those of another one close it.                                            *)
Pending ==
    /\ \A i \in 1..Len(todo) : todo[i].what = "comp" =>
         IF todo[i].comp = comp THEN todo[i].content = Content(res, FALSE)
                                ELSE todo[i].content.closed
    /\ comp # 0 /\ todo # <<>> => OfComp(Len(todo), comp)

(* But for those that went astray, an open competition on disk is the one   *)
(* in memory as it is now, or as the handler at work found it and is about  *)
(* to save; and the one in memory is there, unless it is just being made.   *)
Disks ==
    /\ comp # 0 => ~disk[comp].closed
    /\ \A c \in Comps \ astray : IsOpen(c) =>
         \/ <<c, disk[c]>> = Known
         \/ <<c, disk[c]>> = before /\ \E j \in 1..Len(todo) : OfComp(j, c)
    /\ comp # 0 /\ comp \notin astray /\ (todo = <<>> \/ before[1] = comp) => IsOpen(comp)

(* A list under way has, or is still to read, all that was there. *)
Listed ==
    /\ listing => there \subseteq out \cup names
    /\ \A r \in there : file[r] = "whole" /\ listing

-----------------------------------------------------------------------------
(* Sequences of one and two saves *)

LEMMA OneSave ==
    ASSUME NEW S, NEW a \in S
    PROVE  /\ <<a>> \in Seq(S) /\ Len(<<a>>) = 1 /\ <<a>>[1] = a /\ <<a>> # <<>>
           /\ <<>> \o <<a>> = <<a>>
OBVIOUS

LEMMA TwoSaves ==
    ASSUME NEW S, NEW a \in S, NEW b \in S
    PROVE  /\ <<a, b>> \in Seq(S) /\ Len(<<a, b>>) = 2 /\ <<a, b>> # <<>>
           /\ <<a, b>>[1] = a /\ <<a, b>>[2] = b
OBVIOUS

LEMMA JoinSaves ==
    ASSUME NEW S, NEW a \in S, NEW b \in S
    PROVE  <<a>> \o <<b>> = <<a, b>>
<1>1. <<a>> \in Seq(S) /\ <<b>> \in Seq(S) /\ <<a, b>> \in Seq(S)
  OBVIOUS
<1>2. /\ <<a>> \o <<b>> \in Seq(S) /\ Len(<<a>> \o <<b>>) = 2
      /\ (<<a>> \o <<b>>)[1] = a /\ (<<a>> \o <<b>>)[2] = b
  BY <1>1, ConcatProperties
<1>3. Len(<<a, b>>) = 2 /\ <<a, b>>[1] = a /\ <<a, b>>[2] = b
  OBVIOUS
<1>4. \A c, d \in Seq(S) : Len(c) = 2 /\ Len(d) = 2 /\ c[1] = d[1] /\ c[2] = d[2] => c = d
  <2> SUFFICES ASSUME NEW c \in Seq(S), NEW d \in Seq(S),
                      Len(c) = 2, Len(d) = 2, c[1] = d[1], c[2] = d[2]
               PROVE  c = d
    OBVIOUS
  <2>1. \A i \in 1..Len(c) : i = 1 \/ i = 2
    OBVIOUS
  <2>2. \A i \in 1..Len(c) : c[i] = d[i]
    BY <2>1
  <2> QED
    BY <2>2, SeqEqual
<1> QED
  BY <1>1, <1>2, <1>3, <1>4, Zenon

LEMMA NoSaves == ASSUME NEW S, NEW s \in Seq(S) PROVE s = <<>> <=> Len(s) = 0
OBVIOUS

LEMMA RestOfSaves ==
    ASSUME NEW S, NEW s \in Seq(S), s # <<>>
    PROVE  /\ Head(s) = s[1] /\ Head(s) \in S /\ Tail(s) \in Seq(S)
           /\ Len(s) \in Nat /\ Len(s) >= 1 /\ Len(Tail(s)) = Len(s) - 1
           /\ \A i \in 1..Len(Tail(s)) : Tail(s)[i] = s[i + 1]
<1>1. Head(s) = s[1] /\ Len(s) \in Nat /\ Len(s) >= 1
  OBVIOUS
<1> QED
  BY <1>1, HeadTailProperties

-----------------------------------------------------------------------------
(* The handlers in one view: what they leave in memory, and their saves. *)

LEMMA NoResult == NoRes \in [Fixture -> Sources]
BY DEF NoRes, Sources

LEMMA KnownType == TypeOK => Known \in (0..CompCap) \X Files
<1>1. TypeOK => /\ comp = 0 => Known = <<0, Absent>>
                /\ comp # 0 => Known = <<comp, [is |-> "whole", res |-> res, closed |-> FALSE]>>
  BY DEF Known, Nowhere, Content
<1>2. Absent \in Files
  BY NoResult DEF Absent, Files
<1>3. TypeOK => comp \in 0..CompCap /\ res \in [Fixture -> Sources]
  BY StorageAssumption DEF TypeOK
<1>4. TypeOK => [is |-> "whole", res |-> res, closed |-> FALSE] \in Files
  BY <1>3 DEF Files
<1>5. CompCap \in Nat
  BY StorageAssumption
<1> SUFFICES ASSUME TypeOK PROVE Known \in (0..CompCap) \X Files
  OBVIOUS
<1>6. CASE comp = 0
  BY <1>1, <1>2, <1>5, <1>6
<1>7. CASE comp # 0
  <2>1. comp \in 0..CompCap
    BY <1>3
  <2>2. Known = <<comp, [is |-> "whole", res |-> res, closed |-> FALSE]>>
    BY <1>1, <1>7
  <2> QED
    BY <1>4, <2>1, <2>2
<1> QED
  BY <1>6, <1>7

LEMMA OpenSave ==
    ASSUME NEW c \in Comps, NEW r \in [Fixture -> Sources]
    PROVE  /\ SaveComp(c, r, FALSE) \in Saves
           /\ SaveComp(c, r, FALSE).what = "comp" /\ SaveComp(c, r, FALSE).comp = c
           /\ SaveComp(c, r, FALSE).content = Content(r, FALSE)
           /\ ~Content(r, FALSE).closed /\ Content(r, FALSE).res = r
           /\ Content(r, FALSE).is = "whole"
BY DEF SaveComp, Content, Saves, Contents

LEMMA ClosedSave ==
    ASSUME NEW c \in Comps, NEW r \in [Fixture -> Sources]
    PROVE  /\ SaveComp(c, r, TRUE) \in Saves
           /\ SaveComp(c, r, TRUE).what = "comp" /\ SaveComp(c, r, TRUE).comp = c
           /\ SaveComp(c, r, TRUE).content.closed
           /\ SaveComp(c, r, TRUE).content.res = r
BY DEF SaveComp, Content, Saves, Contents

LEMMA ResultTypes ==
    ASSUME NEW r \in Result
    PROVE  /\ SaveResult(r) \in Saves
           /\ SaveResult(r).what = "result" /\ SaveResult(r).result = r
BY DEF SaveResult, Saves

(* A handler: compCreate, endMatch, or any other one. *)
Handled == \/ \E sec \in Seconds : Create(sec)
           \/ \E f \in Fixture : Decided(f) \/ Undo(f) \/ \E r \in Result : Recorded(f, r)
           \/ Changed \/ Close

LEMMA HandlerFrame ==
    ASSUME Handled
    PROVE  /\ todo = <<>> /\ before' = Known
           /\ UNCHANGED <<stage, disk, file, names, out, listing, there, astray, excused>>
BY DEF Handled, Create, Decided, Undo, Recorded, Changed, Close, Handler, apiVars

(* What a handler saves, by cases: the competition that goes on, after a    *)
(* result; a closed one; a new one, after closing the old one.              *)
Goes(R)    == /\ comp # 0 /\ UNCHANGED <<comp, last>>
              /\ \A f \in Fixture : res'[f] \in {res[f], "open", "other"} \cup R
Saving     == Goes({}) /\ todo' = <<SaveComp(comp, res', FALSE)>>
Scoring(r) == Goes({r}) /\ todo' = <<SaveResult(r), SaveComp(comp, res', FALSE)>>
Closing    == /\ comp # 0 /\ comp' = 0 /\ res' = NoRes /\ UNCHANGED last
              /\ todo' = <<SaveComp(comp, res, TRUE)>>
Making     == /\ comp' = last + 1 /\ last' = last + 1 /\ res' = NoRes /\ last < CompCap
              /\ todo' = IF comp = 0 THEN <<SaveComp(comp', NoRes, FALSE)>>
                         ELSE <<SaveComp(comp, res, TRUE), SaveComp(comp', NoRes, FALSE)>>

LEMMA HandlerKinds ==
    ASSUME Types, Handled
    PROVE  /\ Saving \/ Closing \/ Making \/ \E r \in Result : Scoring(r)
           /\ res' \in [Fixture -> Sources]
           /\ comp' \in 0..last' /\ last' \in 0..CompCap
<1> USE DEF Types, TypeOK
<1>1. CompCap \in Nat /\ last \in 0..CompCap /\ comp \in 0..last
  BY StorageAssumption
<1>2. ASSUME NEW sec \in Seconds, Create(sec)
      PROVE  Making
  <2>1. /\ comp' = last + 1 /\ last' = last + 1 /\ res' = NoRes /\ last < CompCap
        /\ todo' = (IF comp = 0 THEN <<>> ELSE <<SaveComp(comp, res, TRUE)>>)
                     \o <<SaveComp(last + 1, NoRes, FALSE)>>
    BY <1>2 DEF Create, Handler
  <2>2. SaveComp(last + 1, NoRes, FALSE) \in Saves
    <3>1. last + 1 \in Comps
      BY <1>1, <2>1 DEF Comps
    <3> QED
      BY <3>1, OpenSave, NoResult
  <2>3. CASE comp = 0
    BY <2>1, <2>2, <2>3, OneSave DEF Making
  <2>4. CASE comp # 0
    <3>1. SaveComp(comp, res, TRUE) \in Saves
      <4>1. comp \in Comps /\ res \in [Fixture -> Sources]
        BY <1>1, <2>4 DEF Comps
      <4> QED
        BY <4>1, ClosedSave
    <3>2. <<SaveComp(comp, res, TRUE)>> \o <<SaveComp(last + 1, NoRes, FALSE)>>
            = <<SaveComp(comp, res, TRUE), SaveComp(last + 1, NoRes, FALSE)>>
      BY <2>2, <3>1, JoinSaves
    <3> QED
      BY <2>1, <2>4, <3>2 DEF Making
  <2> QED
    BY <2>3, <2>4
<1>3. ASSUME NEW f \in Fixture, Decided(f) \/ Undo(f)
      PROVE  Saving /\ res' \in [Fixture -> Sources]
  BY <1>3 DEF Decided, Undo, Handler, Saving, Goes, Sources
<1>4. ASSUME NEW f \in Fixture, NEW r \in Result, Recorded(f, r)
      PROVE  Scoring(r) /\ res' \in [Fixture -> Sources]
  BY <1>4 DEF Recorded, Handler, Scoring, Goes, Sources
<1>5. ASSUME Changed
      PROVE  Saving
  BY <1>5 DEF Changed, Handler, Saving, Goes
<1>6. ASSUME Close
      PROVE  Closing
  <2>1. /\ comp # 0 /\ comp' = 0 /\ res' = NoRes /\ last' = last
        /\ Handler(<<SaveComp(comp, res, TRUE)>>)
    BY <1>6 DEF Close
  <2>2. todo' = <<SaveComp(comp, res, TRUE)>>
    BY <2>1 DEF Handler
  <2> QED
    BY <2>1, <2>2 DEF Closing
<1>7. /\ Saving \/ Closing \/ Making \/ \E r \in Result : Scoring(r)
      /\ res' \in [Fixture -> Sources]
  <2>1. Making => res' \in [Fixture -> Sources]
    BY NoResult DEF Making
  <2>2. Close => res' \in [Fixture -> Sources]
    BY NoResult DEF Close
  <2>3. Changed => res' = res
    BY DEF Changed
  <2> QED
    BY <1>2, <1>3, <1>4, <1>5, <1>6, <2>1, <2>2, <2>3 DEF Handled
<1>8. comp' \in 0..last' /\ last' \in 0..CompCap
  <2>1. \/ comp' = comp /\ last' = last
        \/ comp' = 0 /\ last' = last
        \/ comp' = last + 1 /\ last' = last + 1 /\ last < CompCap
    BY <1>7 DEF Saving, Closing, Making, Scoring, Goes
  <2> QED
    BY <1>1, <2>1
<1> QED
  BY <1>7, <1>8

(* The saves of a handler are well formed, and the last one is of the       *)
(* competition that goes on.                                                *)
LEMMA HandlerSaves ==
    ASSUME Types, Handled
    PROVE  /\ todo' \in Seq(Saves) /\ todo' # <<>>
           /\ \A i \in 1..Len(todo') : todo'[i].what = "comp" =>
                /\ todo'[i].comp <= last'
                /\ IF todo'[i].comp = comp' THEN todo'[i].content = Content(res', FALSE)
                                            ELSE todo'[i].content.closed
           /\ comp' # 0 => todo'[Len(todo')].what = "comp" /\ todo'[Len(todo')].comp = comp'
           /\ comp # 0 => \E j \in 1..Len(todo') : todo'[j].what = "comp" /\ todo'[j].comp = comp
<1> DEFINE WellSaved ==
      /\ todo' \in Seq(Saves) /\ todo' # <<>>
      /\ \A i \in 1..Len(todo') : todo'[i].what = "comp" =>
           /\ todo'[i].comp <= last'
           /\ IF todo'[i].comp = comp' THEN todo'[i].content = Content(res', FALSE)
                                       ELSE todo'[i].content.closed
      /\ comp' # 0 => todo'[Len(todo')].what = "comp" /\ todo'[Len(todo')].comp = comp'
      /\ comp # 0 => \E j \in 1..Len(todo') : todo'[j].what = "comp" /\ todo'[j].comp = comp
<1>1. /\ CompCap \in Nat /\ last \in 0..CompCap /\ comp \in 0..last
      /\ res \in [Fixture -> Sources] /\ res' \in [Fixture -> Sources]
  BY HandlerKinds, StorageAssumption DEF Types, TypeOK
<1>2. CASE Saving
  <2>1. comp \in Comps /\ comp' = comp /\ last' = last
    BY <1>1, <1>2 DEF Saving, Goes, Comps
  <2> DEFINE b == SaveComp(comp, res', FALSE)
  <2>2. b \in Saves /\ b.what = "comp" /\ b.comp = comp /\ b.content = Content(res', FALSE)
    BY <1>1, <2>1, OpenSave
  <2>3. todo' = <<b>>
    BY <1>2 DEF Saving
  <2> HIDE DEF b
  <2>4. /\ todo' \in Seq(Saves) /\ todo' # <<>> /\ Len(todo') = 1 /\ todo'[1] = b
    BY <2>2, <2>3, OneSave
  <2>5. \A i \in 1..Len(todo') : i = 1
    BY <2>4
  <2>6. comp <= last
    BY <1>1
  <2>7. \A i \in 1..Len(todo') : todo'[i] = b
    BY <2>4, <2>5
  <2>8. Len(todo') \in 1..Len(todo') /\ todo'[Len(todo')] = b
    BY <2>4
  <2> QED
    BY <2>1, <2>2, <2>4, <2>6, <2>7, <2>8, Zenon
<1>3. ASSUME NEW r \in Result, Scoring(r)
      PROVE  WellSaved
  <2>1. comp \in Comps /\ comp' = comp /\ last' = last
    BY <1>1, <1>3 DEF Scoring, Goes, Comps
  <2> DEFINE a == SaveResult(r)
             b == SaveComp(comp, res', FALSE)
  <2>2. a \in Saves /\ a.what = "result"
    BY ResultTypes
  <2>3. b \in Saves /\ b.what = "comp" /\ b.comp = comp /\ b.content = Content(res', FALSE)
    BY <1>1, <2>1, OpenSave
  <2>4. todo' = <<a, b>>
    BY <1>3 DEF Scoring
  <2> HIDE DEF a, b
  <2>5. /\ todo' \in Seq(Saves) /\ todo' # <<>> /\ Len(todo') = 2
        /\ todo'[1] = a /\ todo'[2] = b
    BY <2>2, <2>3, <2>4, TwoSaves
  <2>6. \A i \in 1..Len(todo') : i = 1 \/ i = 2
    BY <2>5
  <2>7. comp <= last /\ a.what # "comp"
    BY <1>1, <2>2
  <2>8. \A i \in 1..Len(todo') : todo'[i].what = "comp" => todo'[i] = b
    BY <2>2, <2>5, <2>6
  <2>9. Len(todo') \in 1..Len(todo') /\ todo'[Len(todo')] = b
    BY <2>5
  <2> QED
    BY <2>1, <2>3, <2>5, <2>7, <2>8, <2>9, Zenon
<1>4. CASE Closing
  <2>1. comp \in Comps /\ comp' = 0 /\ last' = last /\ comp # 0
    BY <1>1, <1>4 DEF Closing, Comps
  <2> DEFINE b == SaveComp(comp, res, TRUE)
  <2>2. b \in Saves /\ b.what = "comp" /\ b.comp = comp /\ b.content.closed
    BY <1>1, <2>1, ClosedSave
  <2>3. todo' = <<b>>
    BY <1>4 DEF Closing
  <2> HIDE DEF b
  <2>4. /\ todo' \in Seq(Saves) /\ todo' # <<>> /\ Len(todo') = 1 /\ todo'[1] = b
    BY <2>2, <2>3, OneSave
  <2>5. \A i \in 1..Len(todo') : i = 1
    BY <2>4
  <2>6. comp <= last
    BY <1>1
  <2>7. \A i \in 1..Len(todo') : todo'[i] = b
    BY <2>4, <2>5
  <2>8. Len(todo') \in 1..Len(todo') /\ todo'[Len(todo')] = b
    BY <2>4
  <2> QED
    BY <2>1, <2>2, <2>4, <2>6, <2>7, <2>8, Zenon
<1>5. CASE Making
  <2>1. /\ comp' \in Comps /\ comp' = last + 1 /\ last' = last + 1 /\ res' = NoRes
        /\ comp <= last' /\ comp # comp'
    BY <1>1, <1>5 DEF Making, Comps
  <2> DEFINE b == SaveComp(comp', NoRes, FALSE)
  <2>2. b \in Saves /\ b.what = "comp" /\ b.comp = comp' /\ b.content = Content(res', FALSE)
    BY <2>1, OpenSave, NoResult
  <2>3. CASE comp = 0
    <3>1. todo' = <<b>>
      BY <1>5, <2>3 DEF Making
    <3> HIDE DEF b
    <3>2. /\ todo' \in Seq(Saves) /\ todo' # <<>> /\ Len(todo') = 1 /\ todo'[1] = b
      BY <2>2, <3>1, OneSave
    <3>3. \A i \in 1..Len(todo') : i = 1
      BY <3>2
    <3>4. comp' <= last'
      BY <1>1, <2>1
    <3> QED
      BY <2>2, <2>3, <3>2, <3>3, <3>4
  <2>4. CASE comp # 0
    <3> DEFINE a == SaveComp(comp, res, TRUE)
    <3>1. comp \in Comps
      BY <1>1, <2>4 DEF Comps
    <3>2. a \in Saves /\ a.what = "comp" /\ a.comp = comp /\ a.content.closed
      BY <1>1, <3>1, ClosedSave
    <3>3. todo' = <<a, b>>
      BY <1>5, <2>4 DEF Making
    <3> HIDE DEF a, b
    <3>4. /\ todo' \in Seq(Saves) /\ todo' # <<>> /\ Len(todo') = 2
          /\ todo'[1] = a /\ todo'[2] = b
      BY <2>2, <3>2, <3>3, TwoSaves
    <3>5. \A i \in 1..Len(todo') : i = 1 \/ i = 2
      BY <3>4
    <3>6. comp' <= last'
      BY <1>1, <2>1
    <3>7. \A i \in 1..Len(todo') : todo'[i] = a \/ todo'[i] = b
      BY <3>4, <3>5
    <3>8. 1 \in 1..Len(todo') /\ todo'[Len(todo')] = b
      BY <3>4
    <3> QED
      BY <2>1, <2>2, <3>2, <3>4, <3>6, <3>7, <3>8, Zenon
  <2> QED
    BY <2>3, <2>4
<1> QED
  BY <1>2, <1>3, <1>4, <1>5, HandlerKinds
-----------------------------------------------------------------------------
(* The other steps in one view *)

LEMMA NextCases ==
    ASSUME Next
    PROVE  Handled \/ SaveStep \/ Restart \/ ListBegin \/ ListEnd
             \/ \E r \in Result : ReadOne(r) \/ Delete(r)
BY DEF Next, Handled

LEMMA SaveKinds ==
    ASSUME NEW s \in Saves
    PROVE  \/ s.what = "comp" /\ s.comp \in Comps /\ s.content \in Contents
           \/ s.what = "result" /\ s.result \in Result
BY DEF Saves

(* The head of the saves: its temporary file is written, or it is done with. *)
Writing == /\ UNCHANGED <<todo, disk, file, astray, excused, before>> /\ stage' = "rename"
Dropped == /\ stage' = "write" /\ Len(todo') = Len(todo) - 1
           /\ \A i \in 1..Len(todo') : todo'[i] = todo[i + 1]
           /\ before' = IF Len(todo') = 0 THEN Nowhere ELSE before
CompSaved(c) ==
    /\ OfComp(1, c) /\ todo[1].content \in Contents
    /\ disk' = [disk EXCEPT ![c] = todo[1].content] /\ astray' = astray \ {c}
    /\ UNCHANGED <<file, excused>>
CompLost(c) ==
    OfComp(1, c) /\ astray' = astray \cup {c} /\ UNCHANGED <<disk, file, excused>>
ResultSaved(r) ==
    /\ OfResult(1, r) /\ file' = [file EXCEPT ![r] = "whole"]
    /\ UNCHANGED <<disk, astray, excused>>
ResultLost(r) ==
    OfResult(1, r) /\ excused' = excused \cup {r} /\ UNCHANGED <<disk, file, astray>>

LEMMA SaveCases ==
    ASSUME Types, SaveStep
    PROVE  /\ UNCHANGED <<comp, last, res, born, played, names, out, listing, there>>
           /\ todo' \in Seq(Saves) /\ todo # <<>> /\ Len(todo) \in Nat /\ Len(todo) >= 1
           /\ \/ Writing
              \/ /\ Dropped
                 /\ \/ \E c \in Comps : CompSaved(c) \/ CompLost(c)
                    \/ \E r \in Result : ResultSaved(r) \/ ResultLost(r)
<1>1. todo \in Seq(Saves) /\ todo # <<>>
  BY DEF Types, SaveStep
<1>2. UNCHANGED <<comp, last, res, born, played, names, out, listing, there>>
  BY DEF SaveStep, apiVars
<1>3. /\ Head(todo) = todo[1] /\ todo[1] \in Saves /\ Tail(todo) \in Seq(Saves)
      /\ Len(todo) \in Nat /\ Len(todo) >= 1 /\ Len(Tail(todo)) = Len(todo) - 1
      /\ \A i \in 1..Len(Tail(todo)) : Tail(todo)[i] = todo[i + 1]
  BY <1>1, RestOfSaves
<1>4. \/ todo[1].what = "comp" /\ todo[1].comp \in Comps /\ todo[1].content \in Contents
      \/ todo[1].what = "result" /\ todo[1].result \in Result
  BY <1>3, SaveKinds
<1>5. before' = IF todo' = <<>> THEN Nowhere ELSE before
  BY DEF SaveStep
<1>6. CASE Write(todo[1]) /\ UNCHANGED <<todo, astray, excused>>
  <2>1. Writing
    BY <1>1, <1>5, <1>6 DEF Write, Writing
  <2> QED
    BY <1>1, <1>2, <1>3, <1>6, <2>1
<1>7. ASSUME (Rename(todo[1]) /\ UNCHANGED excused) \/ Fail(todo[1])
      PROVE  Dropped /\ todo' \in Seq(Saves)
  <2>1. stage' = "write" /\ todo' = Tail(todo)
    BY <1>7 DEF Rename, Fail
  <2>2. todo' = <<>> <=> Len(todo') = 0
    BY <1>3, <2>1, NoSaves
  <2> QED
    BY <1>3, <1>5, <2>1, <2>2 DEF Dropped
<1>8. CASE Rename(todo[1]) /\ UNCHANGED excused
  <2>1. CASE todo[1].what = "comp"
    <3>1. CompSaved(todo[1].comp)
      BY <1>4, <1>8, <2>1 DEF Rename, CompSaved, OfComp
    <3> QED
      BY <1>1, <1>2, <1>3, <1>4, <1>7, <1>8, <2>1, <3>1
  <2>2. CASE todo[1].what = "result"
    <3>1. ResultSaved(todo[1].result)
      BY <1>4, <1>8, <2>2 DEF Rename, ResultSaved, OfResult
    <3> QED
      BY <1>1, <1>2, <1>3, <1>4, <1>7, <1>8, <2>2, <3>1
  <2> QED
    BY <1>4, <2>1, <2>2
<1>9. CASE Fail(todo[1])
  <2>1. CASE todo[1].what = "comp"
    <3>1. CompLost(todo[1].comp)
      BY <1>4, <1>9, <2>1 DEF Fail, CompLost, OfComp
    <3> QED
      BY <1>1, <1>2, <1>3, <1>4, <1>7, <1>9, <2>1, <3>1
  <2>2. CASE todo[1].what = "result"
    <3>1. ResultLost(todo[1].result)
      BY <1>4, <1>9, <2>2 DEF Fail, ResultLost, OfResult
    <3> QED
      BY <1>1, <1>2, <1>3, <1>4, <1>7, <1>9, <2>2, <3>1
  <2> QED
    BY <1>4, <2>1, <2>2
<1> QED
  BY <1>3, <1>6, <1>8, <1>9 DEF SaveStep

(* A start takes up a competition that was made, if an open one is on disk. *)
LEMMA RestartCases ==
    ASSUME Types, Restart
    PROVE  /\ UNCHANGED <<last, born, disk, file, played, excused>>
           /\ todo' = <<>> /\ before' = Nowhere /\ stage' = "write"
           /\ names' = {} /\ out' = {} /\ listing' = FALSE /\ there' = {}
           /\ astray' = (astray \cup {c \in Comps : IsOpen(c)}) \ {comp'}
           /\ \/ comp' = 0 /\ res' = NoRes /\ \A c \in Comps : ~IsOpen(c)
              \/ /\ comp' \in Comps /\ comp' <= last /\ IsOpen(comp')
                 /\ res' = disk[comp'].res
<1>1. PICK found \in Loadable :
        /\ comp' = found[1] /\ res' = found[2].res /\ before' = Nowhere
        /\ astray' = (astray \cup {c \in Comps : IsOpen(c)}) \ {found[1]}
        /\ todo' = <<>> /\ stage' = "write"
        /\ names' = {} /\ out' = {} /\ listing' = FALSE /\ there' = {}
        /\ UNCHANGED <<last, born, disk, file, played, excused>>
  BY Zenon DEF Restart
<1>2. CASE \A c \in Comps : ~IsOpen(c)
  <2>1. found = Nowhere
    BY <1>2 DEF Loadable
  <2>2. found[1] = 0 /\ found[2].res = NoRes
    BY <2>1 DEF Nowhere, Absent
  <2> QED
    BY <1>1, <1>2, <2>2
<1>3. CASE ~\A c \in Comps : ~IsOpen(c)
  <2>1. PICK c \in Comps : found = <<c, disk[c]>> /\ IsOpen(c)
    BY <1>3 DEF Loadable
  <2>2. found[1] = c /\ found[2] = disk[c]
    BY <2>1
  <2>3. disk[c].is = "whole"
    BY <2>1 DEF IsOpen
  <2>4. c <= last
    <3>1. c \in Int /\ last \in Int
      BY StorageAssumption DEF Types, TypeOK, Comps
    <3>2. ~(c > last)
      BY <2>3 DEF Types, Made, Absent
    <3> QED
      BY <3>1, <3>2
  <2> QED
    BY <1>1, <2>1, <2>2, <2>4
<1> QED
  BY <1>2, <1>3

-----------------------------------------------------------------------------
(* Types *)

LEMMA AbsentFile == Absent \in Files /\ Nowhere \in (0..CompCap) \X Files
<1>1. Absent \in Files
  BY NoResult DEF Absent, Files
<1> QED
  BY <1>1, StorageAssumption DEF Nowhere

LEMMA NothingToSave == <<>> \in Seq(Saves) /\ Len(<<>>) = 0
OBVIOUS

LEMMA InitTypes == Init => Types
<1> SUFFICES ASSUME Init PROVE Types
  OBVIOUS
<1>1. /\ comp = 0 /\ last = 0 /\ res = NoRes /\ born = [c \in Comps |-> 0]
      /\ todo = <<>> /\ stage = "write" /\ before = Nowhere
      /\ disk = [c \in Comps |-> Absent]
      /\ file = [r \in Result |-> "absent"] /\ played = {}
      /\ names = {} /\ out = {} /\ listing = FALSE /\ there = {}
      /\ astray = {} /\ excused = {}
  BY DEF Init
<1>2. CompCap \in Nat
  BY StorageAssumption
<1>3. disk \in [Comps -> Files]
  BY <1>1, AbsentFile
<1>4. TypeOK
  <2>1. last \in 0..CompCap /\ comp \in 0..last
    BY <1>1, <1>2
  <2>2. born \in [Comps -> Seconds \cup {0}] /\ file \in [Result -> {"absent", "whole"}]
    BY <1>1
  <2>3. res \in [Fixture -> Sources]
    BY <1>1, NoResult
  <2> QED
    BY <1>1, <1>3, <2>1, <2>2, <2>3 DEF TypeOK, Files
<1>5. todo \in Seq(Saves) /\ Len(todo) = 0
  BY <1>1, NothingToSave
<1>6. Made
  BY <1>1, <1>5 DEF Made
<1> QED
  BY <1>1, <1>4, <1>5, <1>6, AbsentFile DEF Types

LEMMA HandlerTypes == ASSUME Types, Handled PROVE Types'
<1>1. /\ todo = <<>> /\ before' = Known
      /\ UNCHANGED <<stage, disk, file, names, out, listing, there, astray, excused>>
  BY HandlerFrame
<1>2. res' \in [Fixture -> Sources] /\ comp' \in 0..last' /\ last' \in 0..CompCap
  BY HandlerKinds
<1>3. /\ todo' \in Seq(Saves)
      /\ \A i \in 1..Len(todo') : todo'[i].what = "comp" => todo'[i].comp <= last'
  BY HandlerSaves
<1>4. born' \in [Comps -> Seconds \cup {0}]
  BY DEF Types, TypeOK, Handled, Create, Decided, Undo, Recorded, Changed, Close
<1>5. played' \subseteq Result
  BY DEF Types, TypeOK, Handled, Create, Decided, Undo, Recorded, Changed, Close
<1>6. last' = last \/ last' = last + 1
  BY HandlerKinds DEF Saving, Closing, Making, Scoring, Goes
<1>7. TypeOK'
  BY <1>1, <1>2, <1>4, <1>5 DEF Types, TypeOK
<1>8. last \in Int /\ Comps \subseteq Int
  BY StorageAssumption DEF Types, TypeOK, Comps
<1>9. Made'
  <2>1. \A c \in Comps : c > last' => c > last
    BY <1>6, <1>8
  <2> QED
    BY <1>1, <1>3, <2>1 DEF Types, Made
<1>10. before' \in (0..CompCap) \X Files
  BY <1>1, KnownType DEF Types
<1> QED
  BY <1>3, <1>7, <1>9, <1>10 DEF Types

LEMMA SaveStepTypes == ASSUME Types, SaveStep PROVE Types'
<1>1. /\ UNCHANGED <<comp, last, res, born, played, names, out, listing, there>>
      /\ todo' \in Seq(Saves) /\ todo # <<>> /\ Len(todo) \in Nat /\ Len(todo) >= 1
  BY SaveCases
<1>2. /\ before \in (0..CompCap) \X Files /\ Nowhere \in (0..CompCap) \X Files
      /\ Contents \subseteq Files
  BY AbsentFile DEF Types, Contents, Files
<1>3. ASSUME disk' \in [Comps -> Files], file' \in [Result -> {"absent", "whole"}],
             stage' = "write" \/ (stage' = "rename" /\ todo' # <<>>),
             astray' \subseteq Comps, excused' \subseteq Result
      PROVE  TypeOK'
  BY <1>1, <1>3 DEF Types, TypeOK, Files
<1>4. /\ disk \in [Comps -> Files] /\ file \in [Result -> {"absent", "whole"}]
      /\ astray \subseteq Comps /\ excused \subseteq Result
  BY DEF Types, TypeOK, Files
<1>5. CASE Writing
  <2>1. TypeOK'
    BY <1>1, <1>3, <1>4, <1>5 DEF Writing
  <2>2. Made'
    BY <1>1, <1>5 DEF Writing, Types, Made
  <2> QED
    BY <1>1, <1>2, <1>5, <2>1, <2>2 DEF Writing, Types
<1>6. CASE Dropped /\ \/ \E c \in Comps : CompSaved(c) \/ CompLost(c)
                      \/ \E r \in Result : ResultSaved(r) \/ ResultLost(r)
  <2>1. /\ disk' \in [Comps -> Files] /\ file' \in [Result -> {"absent", "whole"}]
        /\ astray' \subseteq Comps /\ excused' \subseteq Result
    BY <1>2, <1>4, <1>6 DEF CompSaved, CompLost, ResultSaved, ResultLost
  <2>2. TypeOK'
    <3>1. stage' = "write"
      BY <1>6 DEF Dropped
    <3> QED
      BY <1>3, <2>1, <3>1
  <2>3. before' \in (0..CompCap) \X Files
    BY <1>2, <1>6 DEF Dropped
  <2>4. \A i \in 1..Len(todo') :
          todo'[i] = todo[i + 1] /\ i + 1 \in 1..Len(todo)
    BY <1>1, <1>6 DEF Dropped
  <2>5. \A i \in 1..Len(todo') : todo'[i].what = "comp" => todo'[i].comp <= last'
    BY <1>1, <2>4 DEF Types, Made
  <2>6. 1 \in 1..Len(todo) /\ last \in Int /\ Comps \subseteq Int
    BY <1>1, StorageAssumption DEF Types, TypeOK, Comps
  <2>7. \A c \in Comps : OfComp(1, c) => ~(c > last)
    BY <2>6 DEF Types, Made, OfComp
  <2>8. ASSUME NEW c \in Comps, c > last'
        PROVE  disk'[c] = Absent
    <3>1. disk[c] = Absent /\ ~OfComp(1, c)
      BY <1>1, <2>7, <2>8 DEF Types, Made
    <3>2. disk'[c] = disk[c]
      BY <1>4, <1>6, <3>1 DEF CompSaved, CompLost, ResultSaved, ResultLost
    <3> QED
      BY <3>1, <3>2
  <2> QED
    BY <1>1, <2>2, <2>3, <2>5, <2>8 DEF Types, Made
<1> QED
  BY <1>5, <1>6, SaveCases

LEMMA RestartTypes == ASSUME Types, Restart PROVE Types'
<1>1. /\ UNCHANGED <<last, born, disk, file, played, excused>>
      /\ todo' = <<>> /\ before' = Nowhere /\ stage' = "write"
      /\ names' = {} /\ out' = {} /\ listing' = FALSE /\ there' = {}
      /\ astray' = (astray \cup {c \in Comps : IsOpen(c)}) \ {comp'}
      /\ \/ comp' = 0 /\ res' = NoRes
         \/ comp' \in Comps /\ comp' <= last /\ res' = disk[comp'].res
  BY RestartCases
<1>2. CompCap \in Nat /\ last \in 0..CompCap /\ disk \in [Comps -> Files]
  BY StorageAssumption DEF Types, TypeOK, Files
<1>3. res' \in [Fixture -> Sources]
  BY <1>1, <1>2, NoResult DEF Files
<1>4. comp' \in 0..last
  BY <1>1, <1>2 DEF Comps
<1>5. TypeOK'
  BY <1>1, <1>3, <1>4 DEF Types, TypeOK
<1>6. todo' \in Seq(Saves) /\ Len(todo') = 0
  BY <1>1, NothingToSave
<1>7. Made'
  BY <1>1, <1>6 DEF Types, Made
<1> QED
  BY <1>1, <1>5, <1>6, <1>7, AbsentFile DEF Types

(* The teacher's requests leave what the hub has to save alone. *)
LEMMA RequestFrame ==
    ASSUME ListBegin \/ ListEnd \/ \E r \in Result : ReadOne(r) \/ Delete(r)
    PROVE  /\ UNCHANGED <<comp, last, res, born, todo, stage, played, before, disk, astray>>
           /\ \/ UNCHANGED <<file, excused>>
              \/ \E r \in Result : Delete(r)
BY DEF ListBegin, ListEnd, ReadOne, Delete, hubVars

LEMMA RequestTypes ==
    ASSUME Types, ListBegin \/ ListEnd \/ \E r \in Result : ReadOne(r) \/ Delete(r)
    PROVE  Types'
<1>1. UNCHANGED <<comp, last, res, born, todo, stage, played, before, disk, astray>>
  BY RequestFrame
<1>2. /\ file' \in [Result -> {"absent", "whole"}] /\ excused' \subseteq Result
      /\ names' \subseteq Result /\ out' \subseteq Result /\ there' \subseteq Result
      /\ listing' \in BOOLEAN
  <2> USE DEF Types, TypeOK
  <2> DEFINE Typed == /\ file' \in [Result -> {"absent", "whole"}] /\ excused' \subseteq Result
                      /\ names' \subseteq Result /\ out' \subseteq Result
                      /\ there' \subseteq Result /\ listing' \in BOOLEAN
  <2>1. CASE ListBegin
    BY <2>1 DEF ListBegin
  <2>2. CASE ListEnd
    BY <2>2 DEF ListEnd
  <2>3. ASSUME NEW r \in Result, ReadOne(r)
        PROVE  Typed
    BY <2>3 DEF ReadOne
  <2>4. ASSUME NEW r \in Result, Delete(r)
        PROVE  Typed
    BY <2>4 DEF Delete
  <2> QED
    BY <2>1, <2>2, <2>3, <2>4
<1>3. TypeOK'
  BY <1>1, <1>2 DEF Types, TypeOK
<1> QED
  BY <1>1, <1>3 DEF Types, Made

LEMMA TypesStep == Types /\ [Next]_vars => Types'
<1> SUFFICES ASSUME Types, [Next]_vars PROVE Types'
  OBVIOUS
<1>1. CASE UNCHANGED vars
  BY <1>1 DEF vars, hubVars, apiVars, Types, TypeOK, Made
<1>2. CASE Next
  BY <1>2, NextCases, HandlerTypes, SaveStepTypes, RestartTypes, RequestTypes
<1> QED
  BY <1>1, <1>2

-----------------------------------------------------------------------------
(* Listed *)

LEMMA ListedStep == ASSUME Types, Listed, Next PROVE Listed'
<1>1. CASE Handled
  BY <1>1, HandlerFrame DEF Listed
<1>2. CASE SaveStep
  <2>1. UNCHANGED <<names, out, listing, there>>
    BY <1>2, SaveCases
  <2>2. \A r \in Result : file[r] = "whole" => file'[r] = "whole"
    BY <1>2, SaveCases DEF Writing, CompSaved, CompLost, ResultSaved, ResultLost, Types, TypeOK
  <2> QED
    BY <2>1, <2>2 DEF Listed, Types, TypeOK
<1>3. CASE Restart
  BY <1>3, RestartCases DEF Listed
<1>4. CASE ListBegin
  BY <1>4 DEF ListBegin, Listed
<1>5. CASE ListEnd
  BY <1>5 DEF ListEnd, Listed
<1>6. ASSUME NEW r \in Result, ReadOne(r)
      PROVE  Listed'
  BY <1>6 DEF ReadOne, Listed
<1>7. ASSUME NEW r \in Result, Delete(r)
      PROVE  Listed'
  BY <1>7 DEF Delete, Listed, Types, TypeOK
<1> QED
  BY <1>1, <1>2, <1>3, <1>4, <1>5, <1>6, <1>7, NextCases

-----------------------------------------------------------------------------
(* WriteAhead *)

(* A handler adds one result at most, and saves it first. *)
LEMMA HandlerResults ==
    ASSUME Types, Handled
    PROVE  /\ \A f \in Fixture, r \in Result :
                res'[f] = r => res[f] = r \/ (OfResult(1, r)' /\ Len(todo') = 2)
           /\ \A i \in 1..Len(todo') : todo'[i].what = "comp" =>
                \A f \in Fixture, r \in Result : todo'[i].content.res[f] = r =>
                  res[f] = r \/ (OfResult(1, r)' /\ i = 2)
<1> DEFINE Added == \A f \in Fixture, r \in Result :
                      res'[f] = r => res[f] = r \/ (OfResult(1, r)' /\ Len(todo') = 2)
           Stored == \A i \in 1..Len(todo') : todo'[i].what = "comp" =>
                       \A f \in Fixture, r \in Result : todo'[i].content.res[f] = r =>
                         res[f] = r \/ (OfResult(1, r)' /\ i = 2)
<1>1. /\ CompCap \in Nat /\ last \in 0..CompCap /\ comp \in 0..last
      /\ res \in [Fixture -> Sources] /\ res' \in [Fixture -> Sources]
  BY HandlerKinds, StorageAssumption DEF Types, TypeOK
<1>2. \A f \in Fixture, r \in Result : NoRes[f] # r /\ r # "open" /\ r # "other"
  BY StorageAssumption DEF NoRes
<1>3. CASE Saving
  <2>1. comp \in Comps
    BY <1>1, <1>3 DEF Saving, Goes, Comps
  <2> DEFINE b == SaveComp(comp, res', FALSE)
  <2>2. b \in Saves /\ b.content.res = res'
    BY <1>1, <2>1, OpenSave
  <2>3. todo' = <<b>>
    BY <1>3 DEF Saving
  <2> HIDE DEF b
  <2>4. Len(todo') = 1 /\ todo'[1] = b
    BY <2>2, <2>3, OneSave
  <2>5. \A i \in 1..Len(todo') : todo'[i] = b
    BY <2>4
  <2>6. \A f \in Fixture, r \in Result : res'[f] = r => res[f] = r
    BY <1>2, <1>3 DEF Saving, Goes
  <2> QED
    BY <2>2, <2>5, <2>6
<1>4. ASSUME NEW q \in Result, Scoring(q)
      PROVE  Added /\ Stored
  <2>1. comp \in Comps
    BY <1>1, <1>4 DEF Scoring, Goes, Comps
  <2> DEFINE a == SaveResult(q)
             b == SaveComp(comp, res', FALSE)
  <2>2. a \in Saves /\ a.what = "result" /\ a.result = q
    BY ResultTypes
  <2>3. b \in Saves /\ b.content.res = res'
    BY <1>1, <2>1, OpenSave
  <2>4. todo' = <<a, b>>
    BY <1>4 DEF Scoring
  <2> HIDE DEF a, b
  <2>5. Len(todo') = 2 /\ todo'[1] = a /\ todo'[2] = b
    BY <2>2, <2>3, <2>4, TwoSaves
  <2>6. \A i \in 1..Len(todo') : i = 1 \/ i = 2
    BY <2>5
  <2>7. \A f \in Fixture, r \in Result : res'[f] = r => res[f] = r \/ r = q
    BY <1>2, <1>4 DEF Scoring, Goes
  <2>8. OfResult(1, q)' /\ a.what # "comp"
    BY <2>2, <2>5 DEF OfResult
  <2>9. \A i \in 1..Len(todo') : todo'[i].what = "comp" => i = 2 /\ todo'[i] = b
    BY <2>5, <2>6, <2>8
  <2> QED
    BY <2>3, <2>5, <2>7, <2>8, <2>9
<1>5. CASE Closing
  <2>1. comp \in Comps /\ res' = NoRes
    BY <1>1, <1>5 DEF Closing, Comps
  <2> DEFINE b == SaveComp(comp, res, TRUE)
  <2>2. b \in Saves /\ b.content.res = res
    BY <1>1, <2>1, ClosedSave
  <2>3. todo' = <<b>>
    BY <1>5 DEF Closing
  <2> HIDE DEF b
  <2>4. Len(todo') = 1 /\ todo'[1] = b
    BY <2>2, <2>3, OneSave
  <2>5. \A i \in 1..Len(todo') : todo'[i] = b
    BY <2>4
  <2> QED
    BY <1>2, <2>1, <2>2, <2>5
<1>6. CASE Making
  <2>1. comp' \in Comps /\ res' = NoRes
    BY <1>1, <1>6 DEF Making, Comps
  <2> DEFINE b == SaveComp(comp', NoRes, FALSE)
  <2>2. b \in Saves /\ b.content.res = NoRes
    BY <2>1, OpenSave, NoResult
  <2>3. CASE comp = 0
    <3>1. todo' = <<b>>
      BY <1>6, <2>3 DEF Making
    <3> HIDE DEF b
    <3>2. Len(todo') = 1 /\ todo'[1] = b
      BY <2>2, <3>1, OneSave
    <3>3. \A i \in 1..Len(todo') : todo'[i] = b
      BY <3>2
    <3> QED
      BY <1>2, <2>1, <2>2, <3>3
  <2>4. CASE comp # 0
    <3> DEFINE a == SaveComp(comp, res, TRUE)
    <3>1. comp \in Comps
      BY <1>1, <2>4 DEF Comps
    <3>2. a \in Saves /\ a.content.res = res
      BY <1>1, <3>1, ClosedSave
    <3>3. todo' = <<a, b>>
      BY <1>6, <2>4 DEF Making
    <3> HIDE DEF a, b
    <3>4. Len(todo') = 2 /\ todo'[1] = a /\ todo'[2] = b
      BY <2>2, <3>2, <3>3, TwoSaves
    <3>5. \A i \in 1..Len(todo') : todo'[i] = a \/ todo'[i] = b
      BY <3>4
    <3> QED
      BY <1>2, <2>1, <2>2, <3>2, <3>5
  <2> QED
    BY <2>3, <2>4
<1> QED
  BY <1>3, <1>4, <1>5, <1>6, HandlerKinds

LEMMA HandlerAhead == ASSUME Types, WriteAhead, Handled PROVE WriteAhead'
<1>1. Len(todo) = 0 /\ UNCHANGED <<disk, file, excused>>
  BY HandlerFrame
<1>2. \A f \in Fixture, r \in Result : res[f] = r => OnFile(r)
  BY <1>1 DEF WriteAhead
<1>3. \A r \in Result : OnFile(r) => OnFile(r)'
  BY <1>1 DEF OnFile
<1>4. ResultOnFile'
  BY <1>1 DEF WriteAhead, ResultOnFile
<1>5. ASSUME NEW f \in Fixture, NEW r \in Result, res'[f] = r
      PROVE  OnFile(r)' \/ \E j \in 1..Len(todo') : OfResult(j, r)'
  <2>1. res[f] = r \/ (OfResult(1, r)' /\ Len(todo') = 2)
    BY <1>5, HandlerResults
  <2>2. Len(todo') = 2 => 1 \in 1..Len(todo')
    OBVIOUS
  <2> QED
    BY <1>2, <1>3, <2>1, <2>2
<1>6. ASSUME NEW i \in 1..Len(todo'), todo'[i].what = "comp",
             NEW f \in Fixture, NEW r \in Result, todo'[i].content.res[f] = r
      PROVE  OnFile(r)' \/ \E j \in 1..(i - 1) : OfResult(j, r)'
  <2>1. res[f] = r \/ (OfResult(1, r)' /\ i = 2)
    BY <1>6, HandlerResults
  <2>2. i = 2 => 1 \in 1..(i - 1)
    OBVIOUS
  <2> QED
    BY <1>2, <1>3, <2>1, <2>2
<1> QED
  BY <1>4, <1>5, <1>6 DEF WriteAhead

LEMMA SaveStepAhead == ASSUME Types, WriteAhead, SaveStep PROVE WriteAhead'
<1>1. /\ UNCHANGED res /\ todo' \in Seq(Saves) /\ todo \in Seq(Saves)
      /\ Len(todo) \in Nat /\ Len(todo) >= 1 /\ Len(todo') \in Nat
  BY SaveCases DEF Types
<1>2. CASE Writing
  BY <1>1, <1>2 DEF Writing, WriteAhead, ResultOnFile, OnFile, OfResult
<1>3. CASE Dropped /\ \/ \E c \in Comps : CompSaved(c) \/ CompLost(c)
                      \/ \E r \in Result : ResultSaved(r) \/ ResultLost(r)
  <2>1. \A r \in Result : OnFile(r) => OnFile(r)'
    BY <1>3 DEF OnFile, CompSaved, CompLost, ResultSaved, ResultLost, Types, TypeOK
  <2>2. \A r \in Result : OfResult(1, r) => OnFile(r)'
    BY <1>3 DEF OnFile, CompSaved, CompLost, ResultSaved, ResultLost, Types, TypeOK,
                OfComp, OfResult
  <2>3. Len(todo') = Len(todo) - 1 /\ \A i \in 1..Len(todo') : todo'[i] = todo[i + 1]
    BY <1>3 DEF Dropped
  <2>4. \A j \in 1..Len(todo), r \in Result :
          OfResult(j, r) => OnFile(r)' \/ (j - 1 \in 1..Len(todo') /\ OfResult(j - 1, r)')
    <3> SUFFICES ASSUME NEW j \in 1..Len(todo), NEW r \in Result, OfResult(j, r), j # 1
                 PROVE  j - 1 \in 1..Len(todo') /\ OfResult(j - 1, r)'
      BY <2>2
    <3>1. j - 1 \in 1..Len(todo') /\ (j - 1) + 1 = j
      BY <1>1, <2>3
    <3>2. todo'[j - 1] = todo[j]
      BY <2>3, <3>1
    <3> QED
      BY <3>1, <3>2 DEF OfResult
  <2>5. ResultOnFile'
    <3>1. \A f \in Fixture, r \in Result :
            todo[1].what = "comp" /\ todo[1].content.res[f] = r => OnFile(r)
      <4>1. 1 \in 1..Len(todo) /\ 1..(1 - 1) = {}
        BY <1>1
      <4> QED
        BY <4>1 DEF WriteAhead
    <3>2. ASSUME NEW c \in Comps, NEW f \in Fixture, NEW r \in Result, disk'[c].res[f] = r
          PROVE  OnFile(r)
      <4>1. \/ disk'[c] = disk[c]
            \/ disk'[c] = todo[1].content /\ todo[1].what = "comp"
        BY <1>3 DEF CompSaved, CompLost, ResultSaved, ResultLost, OfComp, Types, TypeOK
      <4> QED
        BY <3>1, <3>2, <4>1 DEF WriteAhead, ResultOnFile, OnFile
    <3> QED
      BY <2>1, <3>2 DEF ResultOnFile, OnFile
  <2>6. ASSUME NEW f \in Fixture, NEW r \in Result, res'[f] = r
        PROVE  OnFile(r)' \/ \E j \in 1..Len(todo') : OfResult(j, r)'
    <3>1. OnFile(r) \/ \E j \in 1..Len(todo) : OfResult(j, r)
      BY <1>1, <2>6 DEF WriteAhead
    <3> QED
      BY <2>1, <2>4, <3>1
  <2>7. ASSUME NEW i \in 1..Len(todo'), todo'[i].what = "comp",
               NEW f \in Fixture, NEW r \in Result, todo'[i].content.res[f] = r
        PROVE  OnFile(r)' \/ \E j \in 1..(i - 1) : OfResult(j, r)'
    <3>1. i + 1 \in 1..Len(todo) /\ todo'[i] = todo[i + 1]
      BY <1>1, <2>3
    <3>2. OnFile(r) \/ \E j \in 1..((i + 1) - 1) : OfResult(j, r)
      BY <2>7, <3>1 DEF WriteAhead
    <3>3. CASE OnFile(r)
      BY <2>1, <3>3
    <3>4. CASE \E j \in 1..((i + 1) - 1) : OfResult(j, r)
      <4>1. PICK j \in 1..((i + 1) - 1) : OfResult(j, r)
        BY <3>4
      <4>2. j \in 1..Len(todo) /\ (j - 1 \in 1..Len(todo') => j - 1 \in 1..(i - 1))
        BY <1>1, <3>1
      <4> QED
        BY <2>4, <4>1, <4>2
    <3> QED
      BY <3>2, <3>3, <3>4
  <2> QED
    BY <2>5, <2>6, <2>7 DEF WriteAhead
<1> QED
  BY <1>2, <1>3, SaveCases

LEMMA AheadStep == ASSUME Types, WriteAhead, Next PROVE WriteAhead'
<1>1. CASE Restart
  <2>1. /\ UNCHANGED <<disk, file, excused>> /\ todo' = <<>> /\ Len(todo') = 0
        /\ res' = NoRes \/ \E c \in Comps : res' = disk[c].res
    BY <1>1, RestartCases
  <2>2. \A f \in Fixture, r \in Result : NoRes[f] # r
    BY StorageAssumption DEF NoRes
  <2>3. ResultOnFile'
    BY <2>1 DEF WriteAhead, ResultOnFile
  <2>4. \A f \in Fixture, r \in Result : res'[f] = r => OnFile(r)'
    BY <2>1, <2>2 DEF WriteAhead, ResultOnFile, OnFile
  <2> QED
    BY <2>1, <2>3, <2>4 DEF WriteAhead
<1>2. CASE ListBegin \/ ListEnd \/ \E r \in Result : ReadOne(r) \/ Delete(r)
  <2>1. UNCHANGED <<res, todo, disk>>
    BY <1>2, RequestFrame
  <2>2. \A r \in Result : OnFile(r) => OnFile(r)'
    BY <1>2, RequestFrame DEF OnFile, Delete, Types, TypeOK
  <2>3. ResultOnFile'
    BY <2>1, <2>2 DEF WriteAhead, ResultOnFile, OnFile
  <2> QED
    BY <2>1, <2>2, <2>3 DEF WriteAhead, OfResult
<1> QED
  BY <1>1, <1>2, HandlerAhead, SaveStepAhead, NextCases

-----------------------------------------------------------------------------
(* Pending *)

LEMMA PendingStep == ASSUME Types, Pending, Next PROVE Pending'
<1>1. CASE Handled
  BY <1>1, HandlerSaves DEF Pending, OfComp
<1>2. CASE SaveStep
  <2>1. /\ UNCHANGED <<comp, res>> /\ todo' \in Seq(Saves) /\ Len(todo') \in Nat
        /\ Len(todo) \in Nat /\ Len(todo) >= 1 /\ todo # <<>>
    BY <1>2, SaveCases
  <2>2. CASE Writing
    BY <2>1, <2>2 DEF Writing, Pending, OfComp
  <2>3. CASE Dropped
    <3>1. \A i \in 1..Len(todo') : i + 1 \in 1..Len(todo) /\ todo'[i] = todo[i + 1]
      BY <2>1, <2>3 DEF Dropped
    <3>2. \A i \in 1..Len(todo') : todo'[i].what = "comp" =>
            IF todo'[i].comp = comp' THEN todo'[i].content = Content(res', FALSE)
                                     ELSE todo'[i].content.closed
      BY <2>1, <3>1 DEF Pending
    <3>3. ASSUME comp' # 0, todo' # <<>>
          PROVE  OfComp(Len(todo), comp) /\ todo'[Len(todo')] = todo[Len(todo)]
      <4>1. Len(todo') # 0
        BY <2>1, <3>3, NoSaves
      <4>2. Len(todo') \in 1..Len(todo') /\ Len(todo') + 1 = Len(todo)
        BY <2>1, <2>3, <4>1 DEF Dropped
      <4>3. todo'[Len(todo')] = todo[Len(todo') + 1]
        BY <3>1, <4>2
      <4> QED
        BY <2>1, <3>3, <4>2, <4>3 DEF Pending
    <3> QED
      BY <2>1, <3>2, <3>3 DEF Pending, OfComp
  <2> QED
    BY <1>2, <2>2, <2>3, SaveCases
<1>3. CASE Restart
  <2>1. todo' = <<>> /\ Len(todo') = 0
    BY <1>3, RestartCases
  <2> QED
    BY <2>1 DEF Pending
<1>4. CASE ListBegin \/ ListEnd \/ \E r \in Result : ReadOne(r) \/ Delete(r)
  <2>1. UNCHANGED <<comp, res, todo>>
    BY <1>4, RequestFrame
  <2> QED
    BY <2>1 DEF Pending, OfComp
<1> QED
  BY <1>1, <1>2, <1>3, <1>4, NextCases

-----------------------------------------------------------------------------
(* Disks *)

LEMMA KnownFacts ==
    ASSUME TypeOK
    PROVE  /\ Known[1] = comp
           /\ comp = 0 => Known = Nowhere
           /\ comp # 0 => Known = <<comp, Content(res, FALSE)>>
BY DEF Known, Nowhere

LEMMA HandlerDisks == ASSUME Types, Disks, Handled PROVE Disks'
<1>1. todo = <<>> /\ Len(todo) = 0 /\ before' = Known /\ UNCHANGED <<disk, astray>>
  BY HandlerFrame
<1>2. \/ comp' = comp /\ comp # 0
      \/ comp' = 0
      \/ comp' = last + 1 /\ last < CompCap
  BY HandlerKinds DEF Saving, Closing, Making, Scoring, Goes
<1>3. /\ CompCap \in Nat /\ last \in 0..CompCap /\ comp \in 0..last
      /\ comp # 0 => comp \in Comps
  BY StorageAssumption DEF Types, TypeOK, Comps
<1>4. comp' = last + 1 /\ last < CompCap => comp' \in Comps /\ disk[comp'] = Absent
  BY <1>3 DEF Types, Made, Comps
<1>5. comp' # 0 => ~disk'[comp'].closed
  BY <1>1, <1>2, <1>4 DEF Disks, Absent
<1>6. ASSUME NEW c \in Comps \ astray', IsOpen(c)'
      PROVE  <<c, disk'[c]>> = before' /\ \E j \in 1..Len(todo') : OfComp(j, c)'
  <2>1. <<c, disk[c]>> = Known
    BY <1>1, <1>6 DEF Disks, IsOpen
  <2>2. c = comp /\ comp # 0
    BY <2>1, KnownFacts DEF Types, Comps
  <2>3. \E j \in 1..Len(todo') : OfComp(j, c)'
    BY <2>2, HandlerSaves DEF OfComp
  <2> QED
    BY <1>1, <2>1, <2>3
<1>7. ASSUME comp' # 0, comp' \notin astray', todo' = <<>> \/ before'[1] = comp'
      PROVE  IsOpen(comp)'
  <2>1. before'[1] = comp /\ comp = comp'
    BY <1>1, <1>7, HandlerSaves, KnownFacts DEF Types
  <2>2. IsOpen(comp)
    BY <1>1, <1>7, <2>1 DEF Disks
  <2> QED
    BY <1>1, <2>1, <2>2 DEF IsOpen
<1> QED
  BY <1>5, <1>6, <1>7 DEF Disks

LEMMA SaveStepDisks == ASSUME Types, Pending, Disks, SaveStep PROVE Disks'
<1>1. /\ UNCHANGED <<comp, res>> /\ todo' \in Seq(Saves) /\ Len(todo') \in Nat
      /\ Len(todo) \in Nat /\ Len(todo) >= 1 /\ todo # <<>>
  BY SaveCases
<1>2. /\ CompCap \in Nat /\ last \in 0..CompCap /\ comp \in 0..last
      /\ comp # 0 => comp \in Comps
  BY StorageAssumption DEF Types, TypeOK, Comps
<1>3. Known' = Known
  BY <1>1 DEF Known
<1>4. CASE Writing
  BY <1>1, <1>3, <1>4 DEF Writing, Disks, IsOpen, OfComp
<1>5. CASE Dropped /\ \/ \E c \in Comps : CompSaved(c) \/ CompLost(c)
                      \/ \E r \in Result : ResultSaved(r) \/ ResultLost(r)
  <2>1. \A c \in Comps : ~OfComp(1, c) => disk'[c] = disk[c] /\ (c \in astray' <=> c \in astray)
    BY <1>5 DEF CompSaved, CompLost, ResultSaved, ResultLost, OfComp, Types, TypeOK
  <2>2. \A c \in Comps : OfComp(1, c) => \/ disk'[c] = disk[c] /\ c \in astray'
                                         \/ disk'[c] = todo[1].content
    BY <1>5 DEF CompSaved, CompLost, ResultSaved, ResultLost, OfComp, OfResult, Types, TypeOK
  <2>3. \A c \in Comps : OfComp(1, c) =>
          /\ c = comp => todo[1].content = Content(res, FALSE) /\ ~todo[1].content.closed
          /\ c # comp => todo[1].content.closed
    <3>1. 1 \in 1..Len(todo)
      BY <1>1
    <3>2. ~Content(res, FALSE).closed
      BY DEF Content
    <3> QED
      BY <3>1, <3>2 DEF Pending, OfComp
  <2>4. \A j \in 1..Len(todo), c \in Comps :
          OfComp(j, c) => OfComp(1, c) \/ (j - 1 \in 1..Len(todo') /\ OfComp(j - 1, c)')
    <3> SUFFICES ASSUME NEW j \in 1..Len(todo), NEW c \in Comps, OfComp(j, c), j # 1
                 PROVE  j - 1 \in 1..Len(todo') /\ OfComp(j - 1, c)'
      OBVIOUS
    <3>1. j - 1 \in 1..Len(todo') /\ (j - 1) + 1 = j
      BY <1>1, <1>5 DEF Dropped
    <3>2. todo'[j - 1] = todo[j]
      BY <1>5, <3>1 DEF Dropped
    <3> QED
      BY <3>1, <3>2 DEF OfComp
  <2>5. comp' # 0 => ~disk'[comp'].closed
    BY <1>1, <1>2, <2>1, <2>2, <2>3 DEF Disks
  <2>6. ASSUME NEW c \in Comps \ astray', IsOpen(c)'
        PROVE  \/ <<c, disk'[c]>> = Known'
               \/ <<c, disk'[c]>> = before' /\ \E j \in 1..Len(todo') : OfComp(j, c)'
    <3>1. CASE OfComp(1, c)
      <4>1. disk'[c] = todo[1].content /\ ~todo[1].content.closed
        BY <2>2, <2>6, <3>1 DEF IsOpen
      <4>2. c = comp /\ disk'[c] = Content(res, FALSE) /\ comp # 0
        <5>1. c # comp => todo[1].content.closed
          BY <2>3, <3>1, Zenon
        <5>2. c = comp => todo[1].content = Content(res, FALSE)
          BY <2>3, <3>1, Zenon
        <5>3. c # 0
          BY DEF Comps
        <5> QED
          BY <4>1, <5>1, <5>2, <5>3
      <4> QED
        BY <1>3, <4>2, KnownFacts DEF Types
    <3>2. CASE ~OfComp(1, c)
      <4>1. disk'[c] = disk[c] /\ c \in Comps \ astray /\ IsOpen(c)
        BY <2>1, <2>6, <3>2 DEF IsOpen
      <4>2. \/ <<c, disk[c]>> = Known
            \/ <<c, disk[c]>> = before /\ \E j \in 1..Len(todo) : OfComp(j, c)
        BY <4>1 DEF Disks
      <4>3. CASE \E j \in 1..Len(todo) : OfComp(j, c)
        <5>1. \E j \in 1..Len(todo') : OfComp(j, c)'
          BY <2>4, <3>2, <4>3
        <5>2. before' = before
          BY <1>1, <1>5, <5>1 DEF Dropped
        <5> QED
          BY <1>3, <4>1, <4>2, <5>1, <5>2
      <4> QED
        BY <1>3, <4>1, <4>2, <4>3
    <3> QED
      BY <3>1, <3>2
  <2>7. ASSUME comp' # 0, comp' \notin astray', todo' = <<>> \/ before'[1] = comp'
        PROVE  IsOpen(comp)'
    <3>1. comp \in Comps /\ comp' = comp
      BY <1>1, <1>2, <2>7
    <3>2. CASE OfComp(1, comp)
      <4>1. disk'[comp] = Content(res, FALSE)
        BY <2>2, <2>3, <2>7, <3>1, <3>2
      <4> QED
        BY <3>1, <4>1 DEF IsOpen, Content
    <3>3. CASE ~OfComp(1, comp)
      <4>1. disk'[comp] = disk[comp] /\ comp \notin astray
        BY <2>1, <2>7, <3>1, <3>3
      <4>2. Len(todo') # 0
        <5> SUFFICES ASSUME Len(todo') = 0 PROVE FALSE
          OBVIOUS
        <5>1. Len(todo) = 1
          BY <1>1, <1>5 DEF Dropped
        <5> QED
          BY <1>1, <2>7, <3>1, <3>3, <5>1 DEF Pending
      <4>3. before' = before /\ todo' # <<>>
        BY <1>1, <1>5, <4>2, NoSaves DEF Dropped
      <4>4. IsOpen(comp)
        BY <2>7, <3>1, <4>1, <4>3 DEF Disks
      <4> QED
        BY <3>1, <4>1, <4>4 DEF IsOpen
    <3> QED
      BY <3>2, <3>3
  <2> QED
    BY <2>5, <2>6, <2>7 DEF Disks
<1> QED
  BY <1>4, <1>5, SaveCases

LEMMA RestartDisks == ASSUME Types, Restart PROVE Disks'
<1>1. /\ UNCHANGED disk
      /\ astray' = (astray \cup {c \in Comps : IsOpen(c)}) \ {comp'}
      /\ \/ comp' = 0 /\ \A c \in Comps : ~IsOpen(c)
         \/ comp' \in Comps /\ IsOpen(comp') /\ res' = disk[comp'].res
  BY RestartCases
<1>2. \A c \in Comps : IsOpen(c)' <=> IsOpen(c)
  BY <1>1 DEF IsOpen
<1>3. CASE comp' = 0 /\ \A c \in Comps : ~IsOpen(c)
  BY <1>2, <1>3 DEF Disks
<1>4. CASE comp' \in Comps /\ IsOpen(comp') /\ res' = disk[comp'].res
  <2>1. comp' # 0
    BY <1>4 DEF Comps
  <2>2. disk'[comp'] \in Files /\ disk'[comp'].is = "whole" /\ ~disk'[comp'].closed
    BY <1>1, <1>4 DEF IsOpen, Types, TypeOK, Files
  <2>3. disk'[comp'] = Content(res', FALSE)
    BY <1>1, <1>4, <2>2 DEF Content, Files
  <2>4. <<comp', disk'[comp']>> = Known'
    BY <2>1, <2>3 DEF Known
  <2>5. IsOpen(comp)'
    BY <2>2 DEF IsOpen
  <2>6. \A c \in Comps \ astray' : IsOpen(c)' => c = comp'
    BY <1>1, <1>2
  <2>7. \A c \in Comps \ astray' : IsOpen(c)' => <<c, disk'[c]>> = Known'
    BY <2>4, <2>6
  <2> QED
    BY <2>2, <2>5, <2>7 DEF Disks
<1> QED
  BY <1>1, <1>3, <1>4

LEMMA DisksStep == ASSUME Types, Pending, Disks, Next PROVE Disks'
<1>1. CASE ListBegin \/ ListEnd \/ \E r \in Result : ReadOne(r) \/ Delete(r)
  <2>1. UNCHANGED <<comp, res, todo, before, disk, astray>>
    BY <1>1, RequestFrame
  <2> QED
    BY <2>1 DEF Disks, IsOpen, Known, OfComp
<1> QED
  BY <1>1, HandlerDisks, SaveStepDisks, RestartDisks, NextCases

-----------------------------------------------------------------------------
StorageInv == Types /\ WriteAhead /\ Pending /\ Disks /\ Listed

THEOREM StorageCorrect == Spec => []StorageInv
<1>1. Init => StorageInv
  <2> SUFFICES ASSUME Init PROVE StorageInv
    OBVIOUS
  <2>1. Types
    BY InitTypes
  <2>2. /\ comp = 0 /\ res = NoRes /\ todo = <<>> /\ Len(todo) = 0
        /\ disk = [c \in Comps |-> Absent] /\ listing = FALSE /\ there = {}
    BY NothingToSave DEF Init
  <2>3. \A c \in Comps, f \in Fixture, r \in Result : disk[c].res[f] # r /\ res[f] # r
    BY <2>2, StorageAssumption DEF Absent, NoRes
  <2>4. WriteAhead
    <3>1. ResultOnFile
      BY <2>3 DEF ResultOnFile
    <3>2. \A f \in Fixture, r \in Result : res[f] # r
      BY <2>2, StorageAssumption DEF NoRes
    <3> QED
      BY <2>2, <3>1, <3>2 DEF WriteAhead
  <2>5. Pending
    BY <2>2 DEF Pending
  <2>6. Disks
    BY <2>2 DEF Disks, IsOpen, Absent
  <2>7. Listed
    BY <2>2 DEF Listed
  <2> QED
    BY <2>1, <2>4, <2>5, <2>6, <2>7 DEF StorageInv
<1>2. StorageInv /\ [Next]_vars => StorageInv'
  <2> SUFFICES ASSUME StorageInv, [Next]_vars PROVE StorageInv'
    OBVIOUS
  <2>1. Types'
    BY TypesStep DEF StorageInv
  <2>2. CASE Next
    BY <2>1, <2>2, AheadStep, PendingStep, DisksStep, ListedStep DEF StorageInv
  <2>3. CASE UNCHANGED vars
    <3>1. WriteAhead'
      BY <2>3 DEF vars, hubVars, apiVars, StorageInv, WriteAhead, ResultOnFile, OnFile, OfResult
    <3>2. Pending'
      BY <2>3 DEF vars, hubVars, apiVars, StorageInv, Pending, OfComp
    <3>3. Disks'
      BY <2>3 DEF vars, hubVars, apiVars, StorageInv, Disks, IsOpen, Known, OfComp
    <3>4. Listed'
      BY <2>3 DEF vars, hubVars, apiVars, StorageInv, Listed
    <3> QED
      BY <2>1, <3>1, <3>2, <3>3, <3>4 DEF StorageInv
  <2> QED
    BY <2>2, <2>3
<1> QED
  BY <1>1, <1>2, PTL DEF Spec

(* No file is ever half written (saveCompetition, saveMatchResult). *)
THEOREM NoTornFile == Spec => []TypeOK
<1>1. StorageInv => TypeOK
  BY DEF StorageInv, Types
<1> QED
  BY <1>1, StorageCorrect, PTL

(* A result that a competition file holds has its own file (endMatch). *)
THEOREM ResultsOnFile == Spec => []ResultOnFile
<1>1. StorageInv => ResultOnFile
  BY DEF StorageInv, WriteAhead
<1> QED
  BY <1>1, StorageCorrect, PTL

(* A list has every result that was there all the time (listResults). *)
THEOREM ListsFaithful == Spec => []ListFaithful
<1>1. StorageInv => ListFaithful
  BY DEF StorageInv, Listed, ListFaithful
<1> QED
  BY <1>1, StorageCorrect, PTL

(* A start goes on with the competition as it was before or after the       *)
(* handler at work (loadOpenCompetition).                                   *)
THEOREM AlwaysRecovers == Spec => []Recovers
<1>1. ASSUME StorageInv PROVE Recovers
  <2>1. Types /\ Disks
    BY <1>1 DEF StorageInv
  <2> DEFINE settled == comp # 0 /\ disk[comp].is # "absent"
             Allowed == {Known} \cup (IF todo = <<>> THEN {} ELSE {before})
                          \cup (IF todo # <<>> /\ before[1] # comp THEN {Nowhere} ELSE {})
  <2> SUFFICES ASSUME \A c \in astray : settled /\ c # comp /\ born[c] < born[comp],
                      NEW found \in Loadable
               PROVE  found \in Allowed
    BY DEF Recovers
  <2>2. comp # 0 => comp \in Comps
    BY <2>1, StorageAssumption DEF Types, TypeOK, Comps
  <2>3. CASE \A c \in Comps : ~IsOpen(c)
    <3>1. found = Nowhere
      BY <2>3 DEF Loadable
    <3>2. CASE comp = 0
      BY <2>1, <3>1, <3>2, KnownFacts DEF Types
    <3>3. CASE comp # 0
      <4>1. comp \notin astray /\ ~IsOpen(comp)
        BY <2>2, <2>3, <3>3
      <4>2. todo # <<>> /\ before[1] # comp
        BY <2>1, <3>3, <4>1 DEF Disks
      <4> QED
        BY <3>1, <4>2
    <3> QED
      BY <3>2, <3>3
  <2>4. CASE ~\A c \in Comps : ~IsOpen(c)
    <3>1. PICK b \in Comps : /\ found = <<b, disk[b]>> /\ IsOpen(b)
                             /\ \A d \in Comps : IsOpen(d) => born[d] <= born[b]
      BY <2>4 DEF Loadable
    <3>2. b \notin astray
      <4> SUFFICES ASSUME b \in astray PROVE FALSE
        OBVIOUS
      <4>1. comp \in Comps /\ disk[comp].is # "absent" /\ born[b] < born[comp]
        BY <2>2
      <4>2. disk[comp].is = "whole" /\ ~disk[comp].closed
        BY <2>1, <4>1 DEF Disks, Types, TypeOK
      <4>3. born[comp] <= born[b]
        BY <3>1, <4>1, <4>2 DEF IsOpen
      <4>4. born[b] \in Int /\ born[comp] \in Int
        <5>1. born \in [Comps -> Seconds \cup {0}] /\ Seconds \subseteq Int
          BY <2>1, StorageAssumption DEF Types, TypeOK
        <5>2. born[b] \in Seconds \cup {0} /\ born[comp] \in Seconds \cup {0}
          BY <4>1, <5>1
        <5>3. \A s \in Seconds \cup {0} : s \in Int
          <6>1. \A s \in Seconds : s \in Int
            BY <5>1
          <6> QED
            BY <6>1
        <5> QED
          BY <5>2, <5>3, Zenon
      <4> QED
        BY <4>1, <4>3, <4>4
    <3>3. \/ found = Known
          \/ found = before /\ \E j \in 1..Len(todo) : OfComp(j, b)
      BY <2>1, <3>1, <3>2 DEF Disks
    <3>4. todo = <<>> => Len(todo) = 0
      OBVIOUS
    <3> QED
      BY <3>3, <3>4
  <2> QED
    BY <2>3, <2>4
<1> QED
  BY <1>1, StorageCorrect, PTL
=============================================================================
