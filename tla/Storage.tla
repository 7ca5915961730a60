------------------------------ MODULE Storage ------------------------------
(***************************************************************************)
(* The files of the program (results.go, comp.go, api.go): one for each    *)
(* result of a fixture's match and one for each competition, written by    *)
(* the hub in the middle of its handlers, read and deleted by the          *)
(* teacher's requests in goroutines of their own, and the competition      *)
(* loaded when the program starts.                                         *)
(*                                                                         *)
(* A save writes a temporary file and renames it; each of the two may      *)
(* fail, which is only logged, and the program may stop between any two    *)
(* steps.  What the handlers do to a competition is in Competition.tla; a  *)
(* file is here what fixtures have a result, and from where.               *)
(***************************************************************************)
EXTENDS Integers, Sequences

CONSTANTS
    Fixture,    \* fixtures of a competition
    Result,     \* bound: matches of fixtures ever played, each with its file
    CompCap,    \* bound: competitions ever made
    Seconds     \* Competition.CreatedAt, as the clock of the teacher's PC has it

ASSUME StorageAssumption ==
    /\ CompCap \in Nat /\ Seconds \subseteq Int
    /\ Result \cap {"open", "other"} = {}

VARIABLES
    comp, last,   \* Hub.comp by its number, 0 for nil; the last number given
    res,          \* where the result of each of its fixtures comes from
    born,         \* CreatedAt
    todo, stage,  \* the saves the handler at work still has to do, and how far
                  \* the first of them is
    disk,         \* the competition files
    file,         \* the result files
    played,       \* the matches so far
    names, out,   \* a request for the list: still to read, read
    listing,
    before,       \* history: what the handler at work found
    there,        \* history: results there throughout the request so far
    astray,       \* history: competitions whose last save failed, or that were
                  \* open and not chosen when the program started
    excused       \* history: results that could not be written or were deleted

hubVars  == <<comp, last, res, born, todo, stage, played, before>>
apiVars  == <<names, out, listing, there>>
vars     == <<hubVars, disk, file, apiVars, astray, excused>>

Comps   == 1..CompCap
Sources == {"open", "other"} \cup Result   \* no result; the teacher's, or of a
                                          \* forfeit at the start; of a match
NoRes   == [f \in Fixture |-> "open"]
Content(r, cl) == [is |-> "whole", res |-> r, closed |-> cl]
Absent  == [is |-> "absent", res |-> NoRes, closed |-> FALSE]
Torn    == [is |-> "torn", res |-> NoRes, closed |-> FALSE]
Nowhere == <<0, Absent>>

Finished == \A f \in Fixture : res[f] # "open"
Known    == IF comp = 0 THEN Nowhere ELSE <<comp, Content(res, FALSE)>>

Init ==
    /\ comp = 0 /\ last = 0 /\ res = NoRes /\ born = [c \in Comps |-> 0]
    /\ todo = <<>> /\ stage = "write" /\ before = Nowhere
    /\ disk = [c \in Comps |-> Absent]
    /\ file = [r \in Result |-> "absent"] /\ played = {}
    /\ names = {} /\ out = {} /\ listing = FALSE /\ there = {}
    /\ astray = {} /\ excused = {}

-----------------------------------------------------------------------------
(* The handlers of the hub: what changes, and the saves that follow in the  *)
(* same handler; no other handler runs before they are done.                *)

SaveComp(c, r, cl) == [what |-> "comp", comp |-> c, content |-> Content(r, cl)]
SaveResult(r)      == [what |-> "result", result |-> r]

Handler(saves) ==
    /\ todo = <<>> /\ todo' = saves /\ before' = Known
    /\ UNCHANGED <<stage, disk, file, apiVars, astray>>

(* compCreate: a finished competition is closed first. *)
Create(sec) ==
    /\ comp = 0 \/ Finished
    /\ last < CompCap
    /\ comp' = last + 1 /\ last' = last + 1 /\ res' = NoRes
    /\ born' = [born EXCEPT ![last + 1] = sec]
    /\ Handler((IF comp = 0 THEN <<>> ELSE <<SaveComp(comp, res, TRUE)>>)
                 \o <<SaveComp(last + 1, NoRes, FALSE)>>)
    /\ UNCHANGED <<played, excused>>

(* Mutant: the competition is saved before the result. *)
RecordedFirst(f, r) ==
    /\ comp # 0 /\ res[f] = "open" /\ r \notin played
    /\ res' = [res EXCEPT ![f] = r] /\ played' = played \cup {r}
    /\ Handler(<<SaveComp(comp, res', FALSE), SaveResult(r)>>)
    /\ UNCHANGED <<comp, last, born, excused>>

(* endMatch: the result file first, then the fixture (recordFixture). *)
Recorded(f, r) ==
    /\ comp # 0 /\ res[f] = "open" /\ r \notin played
    /\ res' = [res EXCEPT ![f] = r] /\ played' = played \cup {r}
    /\ Handler(<<SaveResult(r), SaveComp(comp, res', FALSE)>>)
    /\ UNCHANGED <<comp, last, born, excused>>

(* compDecide, and endMatch of a match in which nothing was played yet. *)
Decided(f) ==
    /\ comp # 0 /\ res[f] = "open"
    /\ res' = [res EXCEPT ![f] = "other"]
    /\ Handler(<<SaveComp(comp, res', FALSE)>>)
    /\ UNCHANGED <<comp, last, born, played, excused>>

(* compReset: the result file of the match stays. *)
Undo(f) ==
    /\ comp # 0 /\ res[f] # "open"
    /\ res' = [res EXCEPT ![f] = "open"]
    /\ Handler(<<SaveComp(comp, res', FALSE)>>)
    /\ UNCHANGED <<comp, last, born, played, excused>>

(* compChanged after anything else: a fixture is started or called off. *)
Changed ==
    /\ comp # 0
    /\ Handler(<<SaveComp(comp, res, FALSE)>>)
    /\ UNCHANGED <<comp, last, res, born, played, excused>>

(* compClose *)
Close ==
    /\ comp # 0
    /\ comp' = 0 /\ res' = NoRes
    /\ Handler(<<SaveComp(comp, res, TRUE)>>)
    /\ UNCHANGED <<last, born, played, excused>>

-----------------------------------------------------------------------------
(* saveCompetition, saveMatchResult *)

(* Mutant: the file itself is written. *)
WriteInPlace(s) ==
    /\ stage = "write" /\ stage' = "rename"
    /\ IF s.what = "comp" THEN disk' = [disk EXCEPT ![s.comp] = Torn] /\ UNCHANGED file
                          ELSE file' = [file EXCEPT ![s.result] = "torn"] /\ UNCHANGED disk

(* The temporary file is written: nobody reads it. *)
Write(s) ==
    /\ stage = "write" /\ stage' = "rename"
    /\ UNCHANGED <<disk, file>>

(* It takes the place of the old file, whole. *)
Rename(s) ==
    /\ stage = "rename" /\ stage' = "write" /\ todo' = Tail(todo)
    /\ IF s.what = "comp"
       THEN /\ disk' = [disk EXCEPT ![s.comp] = s.content]
            /\ astray' = astray \ {s.comp} /\ UNCHANGED file
       ELSE /\ file' = [file EXCEPT ![s.result] = "whole"]
            /\ UNCHANGED <<disk, astray>>

(* Either step fails: logged, and the handler goes on. *)
Fail(s) ==
    /\ stage' = "write" /\ todo' = Tail(todo)
    /\ IF s.what = "comp"
       THEN astray' = astray \cup {s.comp} /\ UNCHANGED excused
       ELSE excused' = excused \cup {s.result} /\ UNCHANGED astray
    /\ UNCHANGED <<disk, file>>

SaveStep ==
    /\ todo # <<>>
    /\ \/ Write(Head(todo)) /\ UNCHANGED <<todo, astray, excused>>
       \/ Rename(Head(todo)) /\ UNCHANGED excused
       \/ Fail(Head(todo))
    /\ before' = IF todo' = <<>> THEN Nowhere ELSE before
    /\ UNCHANGED <<comp, last, res, born, played, apiVars>>

(* loadOpenCompetition: of the open ones the newest; of several of one      *)
(* second the first in the directory, whose names say nothing.              *)
IsOpen(c) == disk[c].is = "whole" /\ ~disk[c].closed
Loadable ==
    IF \A c \in Comps : ~IsOpen(c) THEN {Nowhere}
    ELSE {<<c, disk[c]>> : c \in {b \in Comps : IsOpen(b) /\
                                    \A d \in Comps : IsOpen(d) => born[d] <= born[b]}}

(* The program stops at any point and is started again. *)
Restart ==
    \E found \in Loadable :
        /\ comp' = found[1] /\ res' = found[2].res /\ before' = Nowhere
        /\ astray' = (astray \cup {c \in Comps : IsOpen(c)}) \ {found[1]}
        /\ todo' = <<>> /\ stage' = "write"
        /\ names' = {} /\ out' = {} /\ listing' = FALSE /\ there' = {}
        /\ UNCHANGED <<last, born, disk, file, played, excused>>

-----------------------------------------------------------------------------
(* The teacher's requests *)

(* listResults (also for the CSV file): the names first, then file by file. *)
ListBegin ==
    /\ ~listing /\ listing' = TRUE
    /\ names' = {r \in Result : file[r] # "absent"} /\ out' = {}
    /\ there' = {r \in Result : file[r] = "whole"}
    /\ UNCHANGED <<hubVars, disk, file, astray, excused>>

(* Mutant: a file that is gone ends the list. *)
ReadOrStop(r) ==
    /\ listing /\ r \in names
    /\ names' = IF file[r] = "whole" THEN names \ {r} ELSE {}
    /\ out' = IF file[r] = "whole" THEN out \cup {r} ELSE out
    /\ UNCHANGED <<hubVars, disk, file, listing, there, astray, excused>>

(* A file that is gone or cannot be read is passed over. *)
ReadOne(r) ==
    /\ listing /\ r \in names
    /\ names' = names \ {r}
    /\ out' = IF file[r] = "whole" THEN out \cup {r} ELSE out
    /\ UNCHANGED <<hubVars, disk, file, listing, there, astray, excused>>

ListEnd ==
    /\ listing /\ names = {} /\ listing' = FALSE /\ there' = {} /\ out' = {}
    /\ UNCHANGED <<hubVars, disk, file, names, astray, excused>>

(* deleteResult *)
Delete(r) ==
    /\ file[r] # "absent"
    /\ file' = [file EXCEPT ![r] = "absent"]
    /\ there' = there \ {r} /\ excused' = excused \cup {r}
    /\ UNCHANGED <<hubVars, disk, names, out, listing, astray>>

Next ==
    \/ \E sec \in Seconds : Create(sec)
    \/ \E f \in Fixture : Decided(f) \/ Undo(f) \/ \E r \in Result : Recorded(f, r)
    \/ Changed \/ Close
    \/ SaveStep \/ Restart
    \/ ListBegin \/ ListEnd \/ \E r \in Result : ReadOne(r) \/ Delete(r)

Spec == Init /\ [][Next]_vars

-----------------------------------------------------------------------------
(* No file is ever half written, whenever saves fail or the program stops. *)
TypeOK ==
    /\ last \in 0..CompCap /\ comp \in 0..last
    /\ res \in [Fixture -> Sources] /\ born \in [Comps -> Seconds \cup {0}]
    /\ stage \in {"write", "rename"} /\ todo = <<>> => stage = "write"
    /\ disk \in [Comps -> [is : {"absent", "whole"}, res : [Fixture -> Sources],
                           closed : BOOLEAN]]
    /\ file \in [Result -> {"absent", "whole"}]
    /\ names \subseteq Result /\ out \subseteq Result /\ there \subseteq Result
    /\ listing \in BOOLEAN /\ astray \subseteq Comps
    /\ played \subseteq Result /\ excused \subseteq Result

(* Whenever the program stops, also in the middle of a save, it goes on     *)
(* with the competition as it was before or after the handler at work, and  *)
(* with none only between two competitions.  A failed save matters no       *)
(* longer than until the next one of the same competition, and that an old  *)
(* one could not be closed does not matter if the new one is younger.       *)
Recovers ==
    LET settled == comp # 0 /\ disk[comp].is # "absent"
        matters(c) == ~(settled /\ c # comp /\ born[c] < born[comp])
    IN  (\A c \in astray : ~matters(c)) =>
          Loadable \subseteq
            {Known} \cup (IF todo = <<>> THEN {} ELSE {before})
                    \cup (IF todo # <<>> /\ before[1] # comp THEN {Nowhere} ELSE {})

(* A result of a match that the competition file holds has its result file, *)
(* wherever the program stopped, unless that could not be written or the    *)
(* teacher deleted it: none is counted in the table and missing in the list *)
(* of results.                                                              *)
ResultOnFile ==
    \A c \in Comps, f \in Fixture, r \in Result :
        disk[c].res[f] = r => file[r] = "whole" \/ r \in excused

(* The list of results a request returns, while others are saved and        *)
(* deleted, has every result that was there all the time.                   *)
ListFaithful == listing /\ names = {} => there \subseteq out
=============================================================================
