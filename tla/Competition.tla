---------------------------- MODULE Competition ----------------------------
(***************************************************************************)
(* The tournament or league a teacher runs (comp.go, hub_comp.go): results *)
(* played, given and taken back in any order, winners going up the         *)
(* bracket, the table, what a student's lobby tells of it, and the file    *)
(* from which a restarted program goes on.                                 *)
(*                                                                         *)
(* The matches are seen from the competition: one that is started ends     *)
(* with a result (a tournament match is never drawn, and only equal scores *)
(* are: VerdictJustified of Match) or is called off.  Whether the students *)
(* are there to start it is in Hub.tla; here starting may always fail for  *)
(* some of them.  Storage.tla has saves that fail or are cut short.        *)
(***************************************************************************)
EXTENDS League, FiniteSetsExt

CONSTANTS
    Counts,      \* numbers of entrants a tournament may have
    Leagues,     \* what a teacher asks for: [count, groups, manual]
    Goals,       \* goals a side of a league match may have scored; in a
                 \* tournament they are left out
    PlayCap,     \* bound: leagues of so many fixtures are played,
    DecideCap    \* bound: and leagues of so many decided by the teacher

ASSUME CompetitionAssumption ==
    /\ Counts \subseteq 2..64
    /\ Leagues \subseteq [count : 2..64, groups : 1..32, manual : BOOLEAN]
    /\ \A q \in Leagues : 2 * q.groups <= q.count
    /\ Goals \subseteq Nat /\ 0 \in Goals
    /\ PlayCap \in Nat /\ DecideCap \in Nat

VARIABLES
    type,      \* Competition.Type, "none" when Hub.comp is nil
    group,     \* group[e]: Entrant.Group
    rounds,    \* Competition.Rounds
    sits,      \* sits[f]: Fixture.A and Fixture.B, seats 0 and 1
    status,
    result,    \* result[f]: Fixture.Winner, the goals of the seats, Reason
    disk       \* the competition file that would be loaded

memory == <<type, group, rounds, sits, status, result>>
vars   == <<memory, disk>>

Entrant  == DOMAIN group
Fx       == DOMAIN status    \* <<group, round, place in the round>>
Nobody   == -1               \* Fixture.Winner of an open or a drawn fixture
NoResult == [winner |-> Nobody, goals |-> [s \in Seat |-> 0], why |-> "none"]
ByeOf(e) == [NoResult EXCEPT !.winner = e, !.why = "bye"]

Reasons == {"none", "match", "teacher", "bye"}

-----------------------------------------------------------------------------
(* Reading the competition *)

Knockouts  == type = "tournament"
Ready(f)   == \A s \in Seat : sits[f][s] >= 0
GoesUp(f)  == Knockouts /\ f[2] + 1 < rounds
Plays(e, f) == \E s \in Seat : sits[f][s] = e

(* currentRound, finished, champion *)
Unfinished(r) == {f \in Fx : f[2] = r /\ status[f] # "done"}
Open          == {r \in 0..(rounds - 1) : Unfinished(r) # {}}
Finished      == Open = {}
Current       == IF Finished THEN {} ELSE Unfinished(CHOOSE r \in Open : \A q \in Open : r <= q)
Champion      == result[<<0, rounds - 1, 0>>].winner

Pending(f) == status[f] = "pending" /\ Ready(f)

(* standings *)
DoneBy(e)  == {f \in Fx : status[f] = "done" /\ Ready(f) /\ Plays(e, f)}
WonBy(e)   == {f \in DoneBy(e) : result[f].winner = e}
DrawnBy(e) == {f \in DoneBy(e) : result[f].winner = Nobody}

LineOf(e) ==
    LET own(f) == IF sits[f][0] = e THEN 0 ELSE 1
    IN  [entrant |-> e, group |-> group[e],
         points  |-> 3 * Cardinality(WonBy(e)) + Cardinality(DrawnBy(e)),
         gf      |-> SumFunction([f \in DoneBy(e) |-> result[f].goals[own(f)]]),
         ga      |-> SumFunction([f \in DoneBy(e) |-> result[f].goals[1 - own(f)]])]

(* The table: group by group, each in order. *)
Table ==
    LET line  == [e \in Entrant |-> LineOf(e)]
        place == [e \in Entrant |-> 1 + Cardinality({d \in Entrant : Precedes(line[d], line[e])})]
    IN  [i \in 1..Cardinality(Entrant) |-> line[CHOOSE e \in Entrant : place[e] = i]]

(* compInfoFor: what the lobby tells an entrant, by the first round that    *)
(* has not been won or, in a league, played.                                *)
Told(e) ==
    LET stops == {f \in Fx : Plays(e, f) /\ \/ status[f] # "done"
                                            \/ Knockouts /\ result[f].winner # e}
        f     == CHOOSE f \in stops : \A g \in stops : f[2] <= g[2]
        opp   == IF sits[f][0] = e THEN sits[f][1] ELSE sits[f][0]
    IN  IF stops = {}
        THEN [state |-> IF Knockouts /\ Finished /\ Champion = e THEN "champion" ELSE "done",
              opponent |-> Nobody]
        ELSE IF status[f] = "done" THEN [state |-> "out", opponent |-> Nobody]
        ELSE IF ~Ready(f)          THEN [state |-> "waiting", opponent |-> Nobody]
        ELSE [state |-> status[f], opponent |-> opp]

-----------------------------------------------------------------------------
(* Storage *)

File(t, gr, r, si, st, re) ==
    [type |-> t, group |-> gr, rounds |-> r, sits |-> si, status |-> st, result |-> re]

NoFile == File("none", <<>>, 0, <<>>, <<>>, <<>>)

(* saveCompetition after every change (compChanged): the file is replaced   *)
(* as a whole.                                                              *)
Save == disk' = File(type', group', rounds', sits', status', result')

(* loadOpenCompetition: what was being played is pending again. *)
Unplayed(st) == [f \in DOMAIN st |-> IF st[f] = "playing" THEN "pending" ELSE st[f]]

Init ==
    /\ type = "none" /\ group = <<>> /\ rounds = 0
    /\ sits = <<>> /\ status = <<>> /\ result = <<>>
    /\ disk = NoFile

-----------------------------------------------------------------------------
(* Making a competition: a finished one makes room for it *)

(* buildTournament: the byes are decided at once. *)
NewTournament(k, p) ==
    LET sits0  == SitsFor(k, p)
        bye(f) == f[2] = 0 /\ HasBye(sits0[f])
    IN  File("tournament", [e \in 0..(k - 1) |-> 0], RoundsFor(k), sits0,
             [f \in FixturesFor(k) |-> IF bye(f) THEN "done" ELSE "pending"],
             [f \in FixturesFor(k) |-> IF bye(f) THEN ByeOf(sits0[f][0]) ELSE NoResult])

(* buildLeague *)
NewLeague(q, gr) ==
    LET sits0 == SidesOf(q, gr)
    IN  File("league", gr, RoundsOf([g \in 0..(q.groups - 1) |-> Len(Line(gr, g))]), sits0,
             [f \in DOMAIN sits0 |-> "pending"], [f \in DOMAIN sits0 |-> NoResult])

(* newCompetition *)
New ==
    (UNION {{NewTournament(k, p) : p \in Shuffles(k)} : k \in Counts})
    \cup (UNION {{NewLeague(q, gr) : gr \in Groupings(q)} : q \in Leagues})

(* compCreate *)
Create(c) ==
    /\ Finished
    /\ type' = c.type /\ group' = c.group /\ rounds' = c.rounds
    /\ sits' = c.sits /\ status' = c.status /\ result' = c.result
    /\ Save

-----------------------------------------------------------------------------
(* Results *)

(* compStartFixture, compStartRound: of the fixtures of S, all in the       *)
(* current round, or one anywhere.                                          *)
Start(S) ==
    /\ type # "none" /\ \A f \in S : Pending(f)
    /\ Knockouts \/ Cardinality(Fx) <= PlayCap
    /\ status' = [f \in Fx |-> IF f \in S THEN "playing" ELSE status[f]]
    /\ UNCHANGED <<type, group, rounds, sits, result>>
    /\ Save

(* decide: in a tournament the winner goes up. *)
Decided(f, w, goals, why) ==
    /\ status' = [status EXCEPT ![f] = "done"]
    /\ result' = [result EXCEPT ![f] = [winner |-> w, goals |-> goals, why |-> why]]
    /\ sits'   = IF GoesUp(f) THEN [sits EXCEPT ![Up(f)][UpSeat(f)] = w] ELSE sits
    /\ UNCHANGED <<type, group, rounds>>

(* Mutant: the result of a match is not saved. *)
RecordUnsaved(f, w, goals) ==
    /\ status[f] = "playing"
    /\ w = Nobody => ~Knockouts /\ goals[0] = goals[1]
    /\ Knockouts => goals = NoResult.goals
    /\ Decided(f, w, goals, "match") /\ UNCHANGED disk

(* recordFixture: who scored more wins unless the other one forfeited; only *)
(* a league match with equal scores can be drawn.                           *)
Record(f, w, goals) ==
    /\ status[f] = "playing"
    /\ w = Nobody => ~Knockouts /\ goals[0] = goals[1]
    /\ Knockouts => goals = NoResult.goals
    /\ Decided(f, w, goals, "match") /\ Save

(* dropMatch of an unfinished match, whoever called it off. *)
CallOff(f) ==
    /\ status[f] = "playing"
    /\ status' = [status EXCEPT ![f] = "pending"]
    /\ UNCHANGED <<type, group, rounds, sits, result>> /\ Save

(* Mutant: a result can be given again. *)
TeacherDecidesAgain(f, w) ==
    /\ status[f] # "playing" /\ Ready(f)
    /\ Knockouts \/ Cardinality(Fx) <= DecideCap
    /\ Knockouts => w # Nobody
    /\ Decided(f, w, NoResult.goals, "teacher") /\ Save

(* compDecide: without goals, and no draw in a tournament. *)
TeacherDecides(f, w) ==
    /\ Pending(f)
    /\ Knockouts \/ Cardinality(Fx) <= DecideCap
    /\ Knockouts => w # Nobody
    /\ Decided(f, w, NoResult.goals, "teacher") /\ Save

(* Mutant: a result is taken back while the next match is going on. *)
MayUndoAnytime(f) == status[f] = "done" /\ result[f].why # "bye"

MayUndo(f) ==
    /\ status[f] = "done" /\ result[f].why # "bye"
    /\ GoesUp(f) => status[Up(f)] = "pending"

(* Mutant: the winner keeps the seat in the next round. *)
UndoKeepsSeat(f) ==
    /\ MayUndo(f)
    /\ status' = [status EXCEPT ![f] = "pending"]
    /\ result' = [result EXCEPT ![f] = NoResult]
    /\ UNCHANGED <<type, group, rounds, sits>> /\ Save

(* compReset of a decided fixture: undo empties the seat in the next round. *)
Undo(f) ==
    /\ MayUndo(f)
    /\ status' = [status EXCEPT ![f] = "pending"]
    /\ result' = [result EXCEPT ![f] = NoResult]
    /\ sits'   = IF GoesUp(f) THEN [sits EXCEPT ![Up(f)][UpSeat(f)] = TBD] ELSE sits
    /\ UNCHANGED <<type, group, rounds>> /\ Save

(* compClose: a closed competition is not loaded again. *)
Close ==
    /\ type # "none"
    /\ type' = "none" /\ group' = <<>> /\ rounds' = 0
    /\ sits' = <<>> /\ status' = <<>> /\ result' = <<>>
    /\ disk' = NoFile

(* The program stops at any time and is started again. *)
Restart ==
    /\ type' = disk.type /\ group' = disk.group /\ rounds' = disk.rounds
    /\ sits' = disk.sits /\ status' = Unplayed(disk.status) /\ result' = disk.result
    /\ UNCHANGED disk

Next ==
    \/ \E c \in New : Create(c)
    \/ \E S \in SUBSET Current : Start(S)
    \/ \E f \in Fx :
        \/ Start({f}) \/ CallOff(f) \/ Undo(f)
        \/ \E w \in {sits[f][s] : s \in Seat} \cup {Nobody} :
            \/ TeacherDecides(f, w)
            \/ \E goals \in [Seat -> Goals] : Record(f, w, goals)
    \/ Close
    \/ Restart

Spec == Init /\ [][Next]_vars

-----------------------------------------------------------------------------
(* Every seat is an entrant, a bye or still open, and a result names one of *)
(* the two who played for it.                                               *)
TypeOK ==
    /\ type \in {"none", "league", "tournament"}
    /\ \A e \in Entrant : group[e] \in Nat
    /\ rounds \in Nat
    /\ sits \in [Fx -> [Seat -> Entrant \cup (IF Knockouts THEN {Bye, TBD} ELSE {})]]
    /\ status \in [Fx -> {"pending", "playing", "done"}]
    /\ result \in [Fx -> [winner : Entrant \cup {Nobody}, goals : [Seat -> Goals], why : Reasons]]
    /\ \A f \in Fx : result[f].winner \in {sits[f][s] : s \in Seat} \cup {Nobody}

(* A seat behind the first round holds the winner of the fixture that leads *)
(* to it, and is open exactly as long as that one is not decided: results   *)
(* given, taken back and given again in any order always reach the bracket. *)
Fed ==
    Knockouts => \A f \in Fx : f[2] > 0 => \A s \in Seat :
        LET g == Feeder(f, s)
        IN  sits[f][s] = IF status[g] = "done" THEN result[g].winner ELSE TBD

(* One defeat and out: at any time every entrant of a tournament has either *)
(* lost exactly one match, or is in exactly one open fixture, or is the     *)
(* champion; the lobby tells each of them so, and tells two opponents of    *)
(* each other.                                                              *)
Knockout ==
    LET lost(e) == {f \in DoneBy(e) : result[f].winner # e}
        open(e) == {f \in Fx : status[f] # "done" /\ Plays(e, f)}
        told    == [e \in Entrant |-> Told(e)]
    IN  Knockouts => \A e \in Entrant :
          /\ Cardinality(lost(e)) + Cardinality(open(e)) =
               IF Finished /\ Champion = e THEN 0 ELSE 1
          /\ told[e].state = "out" <=> lost(e) # {}
          /\ told[e].state = "champion" <=> lost(e) = {} /\ open(e) = {}
          /\ \A d \in Entrant : told[e].opponent = d =>
               told[d].opponent = e /\ told[d].state = told[e].state

(* A competition never gets stuck and never ends early: in its current      *)
(* round every open fixture has both its entrants, so it can be played or   *)
(* decided, and it is over exactly when every fixture of every group has a  *)
(* result, also when the groups of a league have different sizes.           *)
NotStuck ==
    /\ \A f \in Current : Ready(f)
    /\ Finished <=> \A f \in Fx : status[f] = "done"

(* Whenever the program stops, the file holds everything but that some      *)
(* matches were under way: no result and no undo is lost, and a competition *)
(* that was closed stays closed.                                            *)
DiskCurrent ==
    /\ disk.type = type /\ disk.group = group /\ disk.rounds = rounds
    /\ disk.sits = sits /\ disk.result = result
    /\ Unplayed(disk.status) = Unplayed(status)

(* A result on which the next match was started stands for good, unless the *)
(* whole competition is over ("the next round's match is already under      *)
(* way", comp.go:293).                                                      *)
ResultStands ==
    [][\A f \in Fx : /\ status[f] = "done" /\ GoesUp(f) /\ status[Up(f)] # "pending"
                     /\ ~Finished /\ group' = group /\ type' = type
          => status'[f] = "done" /\ result'[f] = result[f]]_vars

(* However the entrants of a league are divided into groups, everybody      *)
(* meets everybody of the own group exactly once and nobody else, and       *)
(* nobody has two matches, or a second rest, in the same round: the teacher *)
(* can start it as a whole.                                                 *)
RoundRobin ==
    type = "league" =>
      /\ \A d, e \in Entrant : d < e =>
           Cardinality({f \in Fx : Plays(d, f) /\ Plays(e, f)})
             = IF group[d] = group[e] THEN 1 ELSE 0
      /\ \A f, g \in Fx : f # g /\ f[2] = g[2] =>
           {sits[f][s] : s \in Seat} \cap {sits[g][s] : s \in Seat} = {}
      /\ \A e \in Entrant :
           Cardinality({f \in Fx : Plays(e, f)}) = Size(group, group[e]) - 1

(* In every group of a league the rank of a student is one more than the    *)
(* number of those who are better: by points, then by goal difference, then *)
(* by goals (README.md:39), whatever was forfeited, decided by the teacher, *)
(* drawn or taken back.                                                     *)
RanksFair ==
    LET line  == [e \in Entrant |-> LineOf(e)]
        table == Table
        ranks == Ranks(table)
        better(x, y) ==
            \/ x.points > y.points
            \/ x.points = y.points /\ x.gf - x.ga > y.gf - y.ga
            \/ x.points = y.points /\ x.gf - x.ga = y.gf - y.ga /\ x.gf > y.gf
    IN  type = "league" => \A e \in Entrant : \E i \in DOMAIN table :
          /\ table[i].entrant = e
          /\ ranks[i] = 1 + Cardinality({d \in Entrant : group[d] = group[e]
                                                         /\ better(line[d], line[e])})
=============================================================================
