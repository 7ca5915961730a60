# Vector Soccer: TLA+ models, model checking and proofs

Vector Soccer is a class-room game. One Go program on the teacher's PC serves
the pages and runs every match; students play two by two over WebSockets by
blowing a ball about; the teacher runs leagues and tournaments. This directory
holds the specification of its core: models, TLC runs, and TLAPS proofs.

## 1. The system

The whole game state belongs to one goroutine, `Hub.run` (hub.go:132-147). It
takes one event at a time from three channels (registrations, departures,
messages) and from a 60 Hz ticker; there are no locks. Each connection has a
`readPump` that sends to the channels and a `writePump` that drains a buffered
channel of 64 messages.

| Component | State | Operations | Hard behaviour | Correct when |
|---|---|---|---|---|
| Student sessions (hub.go:151-251) | `players` by token, `byID`, `Player.conn/token/key`, open send channels | register (known token, returning student, new student), unregister, forget after long absence | the three channels are not ordered among each other; a departure can be handled long after newer registrations of the same student | tables agree; a tab is heard or closed; a channel is closed once |
| Lobby (hub.go:302-406) | `rooms`, `Player.room`, `invites`, `subClosed` | create, cancel, join, invite, reply, expiry | checks are made when a room or invitation is made, and used later | whoever is found through a room or an invitation is connected and free |
| Match membership (hub.go:408-516, hub_comp.go:168-245) | `matches`, `Player.match`, `Match.players`, `ended`, `rematch` | start, rematch, leave, end, drop, cancel, detach | several paths end or drop a match; messages carry no match or phase | nobody is in two matches, or in one that is gone |
| Match rules (match.go) | phase, clock, injury time, score, winds, rests, kick-off right | blow, step, goal, finish, forfeit, pause, unpause | everything that can fall between two ticks, and a disconnection in any phase | the clock, the rests, the kick-off right and the verdict follow the rules |
| Physics (match.go:268-349) | ball, velocity, winds | physics, collide | real arithmetic at posts and corners | ball in the field, goals only through the mouth |
| Tick (hub.go:520-586) | phaseLeft, `ended`, dirty flags | step all matches, sweep, broadcast | expiry against late return | abandoned matches go, others stay |
| Teacher commands (hub_comp.go) | `comp`, fixture status | create, close, start round or fixture, decide, reset, close and open the side arena | commands against live matches | a fixture is played by one match; only played matches give results |
| Tournament (comp.go:209-322) | fixtures, seats, winners | build, decide, undo | results given and taken back in any order; byes | the bracket follows the results and never gets stuck |
| League (comp.go:161-197, 355-416) | groups, rounds, results | build, decide, undo, standings | odd groups, groups of different size, shared ranks | everybody meets everybody once; ranks are fair |
| Storage (comp.go:440-491, results.go:61-160, api.go) | competition files, result files | save, load, list, delete | failing writes, a stop between any two steps, requests beside the hub | the program goes on where it was; no result is counted and lost |
| Outgoing messages (hub.go:233-251, 590-776) | send buffers, dirty flags | start, state, cancellation, lobby list | a full buffer drops a message; a connection is lost with what is under way | what a page shows is what the hub knows, or becomes it |
| Student page (assets/student.html) | `match`, `st`, `lobby` | read messages, leave, reconnect, reload | decisions are made on what is shown, and arrive later; states carry no match | what is confirmed is what happens; no two matches are mixed |
| Start-up, network, teacher page (main.go, netmedia*.go, host.html) | - | addresses, serving, drawing | I/O | - |

The parts interact as follows. `onRegister`/`onUnregister` pause and resume a
match; `startMatch` takes its students out of the lobby; `endMatch` writes the
result file and hands the result to the fixture (`recordFixture`), which moves
the winner up the bracket; `dropMatch` of an unfinished match makes the fixture
playable again; every change of the competition is saved (`compChanged`).

## 2. Modules

| Module | What it models |
|---|---|
| `Hub` | all students, connections, rooms, invitations, matches and fixtures; one action per handler |
| `Match` | the rules inside one match, tick by tick |
| `MatchLife` | the abstract promise of a match to its two students |
| `MatchSession` | `Match` with its two connections, the tick's dropping and recording, and leave messages under way; implements `MatchLife` |
| `Bracket`, `League` | the shapes of a tournament and of a league as operators: rounds, pairs, byes, where a winner goes; groups, circle method, order of the table |
| `Competition` | a tournament or a league over time: made, played, decided, undone, closed, saved and loaded |
| `Storage` | the files of competitions and results: saves that fail or are cut short, the choice at the start, requests that read and delete |
| `Delivery` | one student's buffered connection and page, against everything the hub may send |
| `HubProofs`, `MatchProofs`, `MatchSessionProofs`, `CompetitionProofs`, `StorageProofs`, `DeliveryProofs` | theorems about the module of that name |
| `LeagueProofs`, `KnockoutProofs` | on top of `CompetitionProofs`: that a league is a round robin with fair ranks, that a bracket is one defeat and out |
| `MC*` | small instances for TLC |

`MatchSession` extends `Match` (their state is one); `Competition` extends
`League`, which extends `Bracket`. `Hub` sees a match by its phase only (ready,
play and goal are one phase `live`), and the competition by the status of its
fixtures; `Competition` sees a match as a fixture that is playing until it gets
a result or is called off; `Storage` sees a competition as the results it
holds; `Delivery` sees a match by number, phase and progress. These views
overlap on `startMatch`, `endMatch`, `dropMatch`, `recordFixture` and
`compChanged`.

### Correspondence

PROJECT.json maps every definition to its lines. The conventions are:

- **Atomicity.** A handler runs to its end in the hub goroutine, so it is one
  action, with every call it makes. What is concurrent is the order of events:
  `Register`, `Unregister`, the students' messages, the teacher's commands and
  `Tick` are free to come in any order the channels allow. `ctok[c]` says that
  connection `c` is registered and its departure not yet handled.
- **Hub.** `players`, `byID`, `token`, `key`, `pconn`, `rooms`, `room`,
  `invites`, `match`, `seat`, `fixture`, `rematch`, `ended` are the maps and
  fields of the same names. `From(p)` is the test of `onMessage` that ignores
  replaced connections. Times are abstracted to choices of the tick: any
  invitation, end screen or absence may have expired (more behaviours than the
  program has). Identities that nothing refers to any more are used again, so
  the constants bound what exists at one time and not how long a run is.
- **Match.** One step is one tick; the durations are constants in ticks. The
  ball is abstracted to `moving`: a goal may fall in any tick in which the ball
  rolls or is blown, and in no other. Winds are a set of records with the steps
  they have left. `lost` is a history variable for the clock's properties. The
  counters of misses and the total of a rest serve the display only and are
  left out. A duration is exact in ticks; the program's tick is 1/60 s
  truncated to nanoseconds, so its durations are one tick longer.
- **MatchSession.** `leaving[s]` is what the page asked when the button was
  pressed (student.html:541-546); handling the message reads the phase again.
  A leave of a connection that departs first is never handled (`onMessage`).
  `recorded` counts what `endMatch` settled: for a fixture the result goes to
  the competition, and to a file when it was played at all. `alone` is a
  history variable.
- **Competition.** Fixtures are named by group, round and place. Shuffling is
  a free choice (`Shuffles`), or, for a league, a renaming of the entrants. All
  that a teacher may ask for is the set `New`; `Create` takes one of it, as
  `compCreate` does when the old competition is finished. Byes are decided
  while a tournament is built. Goals of tournament matches are left out (nothing
  reads them). `Told` is what a student's lobby shows (`compInfoFor`). Saving
  replaces the file as a whole here; `Restart` reads it at any time.
- **Storage.** A handler of the hub changes memory and then does its saves, each
  in two steps (`Write` of the .tmp file, `Rename`); `todo` is what it still
  has to do, and no other handler starts before. `Fail` is an error of either
  step, which the code only logs. A fixture's result is its source: a match
  (with a result file), or anything else. The API's goroutines read between
  the steps. `Seconds` is `CreatedAt`, which may repeat and go back.
- **Delivery.** `chan` is `client.send` and the network behind it. `Send` drops
  what does not fit. The opponent, the class and the teacher are free to do at
  any time what `Hub` lets them do at some time. `ver` counts what changes in a
  match. The page's `match`, `st` and `lobby` are `pmatch`, `shown` and `plob`.
  `apart` is a history variable, see the bounds of `InStep` below.

## 3. Runs

| Run | Instance | Shows |
|---|---|---|
| `hub_lobby` | 3 connections, tokens and students, 1 key, 2 matches, 2 room codes | `TypeOK`; the tables of students agree (`SessionMaps`); a tab is heard or closed (`HeardOrClosed`); a match stands still exactly while a student is away (`PausedIffAway`); rooms, invitations, the closed arena and seats (`RoomsLinked`, `InvitesFresh`, `SubClosedQuiet`, `SeatsHeld`) |
| `hub_comp` | 3 connections and students, 2 tokens, 2 keys, 2 fixtures, 2 matches | `FixturePlaying`, `NotPulledAway`, `RecordOnlyPlayed` |
| `match` | three rule sets, up to 7 steps of play, 2 goals and winds a side | clock (`RegularTime`, `FullTime`), winds (`OneWind`), kick-off (`KickOffRight`, `KickRightKept`), verdict (`VerdictJustified`, `VerdictFinal`) |
| `match_session` | one timed match, one for the first goal | `OnceRecorded`, `StoppedWhileAway`, `AbandonedDropped`, `TimedMatchEnds`, `KickOffLapses`, and `LifeKept`: `MatchSession` implements `MatchLife` |
| `competition` | tournaments of 2 to 5 in all shuffles, leagues of 2 to 9 in 1 to 3 groups | `TypeOK`, `Fed`, `Knockout`, `NotStuck`, `DiskCurrent`, `ResultStands`, `RoundRobin`, `RanksFair` |
| `delivery` | buffer of 2, 2 matches, one change in each | `TypeOK` (the buffer's limit), `InStep`, `NeverBack`, `CatchesUp` |
| `storage` | 2 competitions, 2 fixtures, 2 matches, 2 seconds | `TypeOK` (no torn file), `Recovers`, `ResultOnFile`, `ListFaithful` |
| `hub_double_close` | 4 connections, 3 tokens, 1 key | finding 1 |
| `hub_stranded_return` | 3 connections and tokens, 2 keys | finding 2 |
| `session_both_gone`, `session_stale_leave` | as `match_session` | findings 3 and 4 |
| `delivery_main_arena` | buffer of 3, otherwise as `delivery` | finding 5 |

Every property of a passing run has a mutant, a small plausible bug in a
definition of the model that makes TLC find the property violated.

### Bounds, and why they are enough

- *Hub.* Three connections are the shortest case in which a departure is late
  by one replacement; with three tokens a student returns with a new one while
  another is there. Three students are a pair and somebody who invites, joins or
  replaces one of them; two matches are the one a student looks back at and the
  one they are in. In `hub_lobby` all students have one number and name: that
  leaves every lookup by key open to every student, and nothing in the lobby
  looks at keys otherwise. The fourth connection, for a student who was replaced
  and then returned with a new token, is in `hub_double_close`, where it leads
  to finding 1. Connections, tokens, students, matches, codes and fixtures are
  symmetric and declared so; the entrants of fixtures are named, so keys are
  not.
- *Match.* `BlowCap`, `ScoreCap`, `PlayedCap`, `InjuryCap` and `WaitCap` cut
  off further winds, goals, steps of play, disconnections once much time was
  stopped, and counted waiting. The time of the rules is 3 or 4 steps and a second
  is 3 steps, so rounding goes both ways, injury time of one second is reached,
  and golden goal follows it. Cut-off play leaves states without a next step,
  as does the end of a match, so deadlock is not checked in these runs; the
  proofs do not depend on the caps.
- *MatchSession.* `BothGoneWait` is 2 steps and waiting is counted up to 3, so
  the comparison has both outcomes.
- *Competition.* Five entrants give three rounds with three byes; results can
  be taken back in a round while the one after the next is open. League
  schedules are made for up to nine in a group, dealt out and by the teacher,
  of equal and of different sizes. Matches with goals 0 to 2 are played in
  leagues of up to 3 fixtures (`PlayCap`); results by the teacher are given in
  leagues of up to 4 (`DecideCap`: groups of three and two).
- *Delivery.* A buffer of two is the least that takes what a registration sends
  (a start and a state; the code's 64 only makes drops rarer). Two matches are
  the old and the new one, one change in each tells an old state from a newer
  one. `InStep` excepts, by the history variable `apart`, a message that is not
  sent again and was dropped, a message about another match (finding 5), and a
  match that was gone when an absent page came back: these three are real, see
  section 4. Each exception ends with the next registration.
- *Storage.* Two competitions are the old and the new one, whose seconds are
  equal, later or earlier; two matches, so that a fixture is played again after
  an undo, or two are. `Recovers` excepts competitions whose last save failed or
  that were open and not chosen at a start (`astray`), as long as they could be
  chosen, and `ResultOnFile` excepts results that could not be written or were
  deleted (`excused`). The fixtures and matches are symmetric.

### Fairness

The hub's ticking is fair: the ticker fires for ever and `onTick` steps every
match (`WF` of the three tick actions of `MatchSession`, of `Tick` in
`Delivery`). The abstracted expiry of an end screen is part of the former: time
passes. In `Delivery` the page reads what has reached it (`WF` of `Receive`): a
connection that stays open delivers, and one that does not is lost by `Lose`,
which is not fair. Nothing is assumed of students, connections or the teacher;
the liveness properties say themselves what may keep the promise from coming
true (a student who stays away, a connection that breaks). The other runs use
no fairness.

## 4. What the code does otherwise than it says

1. **A late departure closes a channel twice** (`NoCrashInMatch`, hub.go:213;
   the comment at hub.go:211 means to ignore replaced connections). A second tab
   replaces connection c1, closing its channel; both tabs' student later returns
   with a new token, which deletes the old one; then c1's departure finds no
   student under its token and closes the channel again: the program panics.
   The window is the time c1's pumps take to end, up to the write timeout.
2. **A student can be stranded beside the waiting match** (`NoStrandedReturn`,
   hub.go:195-202; README.md:29-30 and MANUAL.md:33 promise the return). Who
   reopens the browser before the loss of the old connection was noticed is
   registered as a new student; when the loss is noticed the match waits for a
   student who sits in the lobby.
3. **"Both away for ten minutes" counts one's absence** (`BothGoneLong`,
   hub.go:531; match.go:43 and README.md:31). `phaseLeft` counts from the first
   disconnection: after one student's ten minutes a reload by the other one
   drops the match.
4. **"This match will not be recorded" can become a forfeit**
   (`CallOffUnrecorded`, hub.go:464; student.html:543 and 646, README.md:30).
   "leave" is read by the phase at its arrival: if the opponent is back by then,
   the student forfeits.

5. **Closing the side arena reaches into the main arena**
   (`MainArenaLeftAlone`, hub_comp.go:178; the comment at hub_comp.go:169 says
   that matches of the competition are left alone). `cancelMatch` tells both
   `m.players`, also one who has left that ended match. If this student plays a
   fixture by now, the page takes the message for its own match and shows the
   lobby; the hub goes on with the fixture, and nothing brings the page back to
   it but a reload.

Remarks that are no findings:

- "The next state sends everything again" (hub.go:240) is true of the states of
  a running match (`CatchesUp`). A dropped start, cancellation, final state or
  lobby list is not repeated until something changes or the page reconnects.
- A page whose match is cancelled or dropped while it is away comes back to
  nothing: `onRegister` sends no match, and the page stays in the dead match
  until the student leaves it.
- An end screen is dropped silently after a while; "one more" is then ignored.
- "leave" pressed on an end screen and handled after the teacher has started a
  fixture of the student forfeits that fixture.
- After a failed save of a closed competition a restart opens it again, unless a
  younger one is open.
- Exchanging the sides in every second round (comp.go:185-187) does not
  always reduce the bias. In a group of four the last student of the line has
  the second side in all three matches.

## 5. Proofs

All theorems hold for every value of the constants that meets the assumptions.
These are named, stand in the module that declares the constants, and are
evaluated by TLC in the runs:

- `MatchAssumption`: durations positive, a wind shorter than the rest, the rest
  at most its maximum, rules with a time or a number of goals.
  `SessionAssumption`: the bound of counted waiting is above the limit.
- `HubAssumption`: `None` is outside every set, and no word for the source of a
  result; the two entrants of a fixture differ.
- `CompetitionAssumption`: 2 to 64 entrants, no group of fewer than two when
  dealt out, goals are natural numbers and include 0 (comp.go checks the first
  two when a competition is made).
- `StorageAssumption`: the clock shows integers, and a result is none of the two
  words for a fixture without one. `DeliveryAssumption`: the buffer takes at
  least what one registration sends.

The bounds (caps) are parameters as any other: nothing depends on their values.

`MatchProofs` proves everything the run `match` checks, and three invariants the
run leaves to the proofs (`TypeOK`, `KickerFirst`, `BoundedRest`):

- `TypeCorrect`: `TypeOK` is inductive; one step per action.
- `ClockCorrect`, `RegularTimeCorrect`: `RegularTime` and `FullTime`. `RegularTime` says nothing of
  injury time and `FullTime` nothing before the end, so `ClockInv` adds the
  balance in between: while injury time is played,
  `2 * (played + lost + playLeft) >= 2 * time - Second`. The key lemma
  `PlayClockBalance` is one step of play, also the one that turns stopped time
  into rounded injury time (`Rounding`, `RoundedAway`).
- `KickOffCorrect`, `KickRightCorrect`: `KickInv` adds where the right
  is kept in each phase (`kickSide` outside play, `kicker` during it) and that
  the ball is at rest, without winds, whenever play begins.
- `WindCorrect`: `WindInv` adds that a wind which still acts is not spent: it
  is covered by the rest of its side, so no second one can join it.
- `VerdictCorrect`, `VerdictStays`: `VerdictInv` keeps scores below the goals of
  the rules and level while golden goal is played.

`MatchSessionProofs` carries these over (`SessionMatchStep`: every step of the
session is a step of the match or leaves it alone) and proves `RecordedOnce`,
`StandsStill` and the refinement `SessionImplementsLife`. Their invariant
`SessionInv` relates phase, presence, membership and the saved flag: while the
match is kept, it is paused exactly when a member is away, and it is saved
exactly when it has ended; without this neither "decided only while both are
there" nor "recorded once" is inductive.

`HubProofs` proves everything the runs `hub_lobby` and `hub_comp` check, from
one invariant, `HubInv`. Its parts need each other. A returning student finds a
match that waits (`Paused`) only because matches and students hold each other
(`Membership`); that the owner of a room is connected rests on the tables of
connections (`Tables`, `HeardOrClosed`); a fixture that is set back rests on one
match for each (`Playing`). `ClosedKnown` adds what no table says: a closed
channel belongs to a connection whose departure is still to be handled. All ends,
departures and drops of matches go through the operators `SettleMatches` and
`SettleFixtures`, all starts through `StartMatch`; what the handlers make sure
of before they call them is stated once (`SettleOK`, `StartOK`), proved for each
handler, and is enough for each part of the invariant. The action properties
`NotPulledAway` and `RecordOnlyPlayed` follow from it. `KilledByUnknownOnly`
puts finding 1 precisely: an unregistration closes a channel twice exactly when
the token of its connection is in no student's hands any more; no other order of
events does.

`StorageProofs` proves all of the run `storage`. What a file may hold depends on
what the handler at work has still to save, so the invariants speak of `todo`:
`WriteAhead` (no competition names a result, in memory, on disk or in a save,
unless the result is on file or its save comes first) gives `ResultOnFile`;
`Pending` (the saves hold the competition as it is and end with it) and `Disks`
(how far files are behind memory) give `Recovers`; `Listed` gives
`ListFaithful`. No assumption is made on the clock or on which writes fail.

`CompetitionProofs` proves `TypeOK`, `Fed`, `DiskCurrent`, `NotStuck` and
`ResultStands`. `Fed` alone is not inductive: `Shape` says that a bracket's
fixture feeds one seat of the next round and is fed by two of the one before,
`Settled` that a fixture without result holds none and is under way only between
two entrants. With these `NextIsOpen` follows, which makes an undo harmless: the
next fixture has not started while this one is open. That new brackets and
leagues have the shape is proved from their construction for all sizes
(`BracketFixtures`, `Nth`); that there is a first open round and a longest group
is an instance of well-foundedness (`Least`, `Greatest`).

`LeagueProofs` proves `RoundRobin` and `RanksFair` for every number of entrants
and every division into groups. Results change neither the fixtures of a league
nor its groups, so the league that goes on is one that was made (`LeagueKept`),
and the rest of `RoundRobin` is about `SidesOf`. In each round everybody but the
first of the line has moved on by one place, around an odd number of places
(`Stand`, `LineLined`). Two of them who start `a` and `b` places behind the
second face each other in the one round `r` in which `2 * r + a + b` is `-2`
modulo that number; the first meets who is last by then (`MeetInOneRound`). The
empty place of an odd group takes part as anybody else, which gives each entrant
one round off. That everybody has one match less than the group has members is a
bijection between the matches and the opponents (`MatchesOf`). For `RanksFair`,
the order of the lines (`Precedes`: the sort is stable, so ties go by entrant)
is strict and total, each line has the place after those above it and all places
are taken (`PlacesTaken`, by counting); the recursion of `Ranks` and the sum of
goals are functions as their definitions ask for (`RankByRank`, `SumIsInt`), and
the walk down the table counts who is better at each line, or goes wrong at a
least one (`RanksCount`).

`KnockoutProofs` proves `Knockout` for every size, shuffle and order of results.
`Drawn` adds to the invariant that the first round has exactly one seat for
every entrant and the last round one fixture. Who sits in a later fixture has
won the one before it (`CameFrom`, from `Fed`), so an entrant has one fixture in
each round up to a last one (`OneSeatARound`, `LastOf`) and has won all but that
(`WonBefore`, by the least round that fails). What became of the last one
leaves three cases (`ThreeFates`): the entrant goes on, is out, or has won the
final; what the lobby tells follows for each (`ToldOfOne`, `ToldOfEachOther`).

`DeliveryProofs` proves `TypeOK`, `InStep` and `NeverBack` for every size of the
buffer. What the page will show is decided by what is under way, so the
invariant `Arriving` speaks of the pages at each place of the channel: there is
a set of pages for each place (`OnTheWay`), the current one in the first, each
leading by the next message into the following set, none showing what the hub
has not seen (`Own`), and the last ones agreeing with the hub (`Final`). A page
may leave its match at any time, so `Out` is in each set. `EndsIn` and
`EndsWith` say which message has the last word on being in a match and on the
lobby. As long as a dropped message leaves the page `apart`, only the part that
holds anyway is claimed (mode `open`).

Where an argument is an induction (over rounds, lines of a table, elements of a
finite set), it is made by a least counterexample (`Least`), since the
library's induction theorems take an operator as parameter.

Only model-checked: liveness (`TimedMatchEnds`, `KickOffLapses`,
`AbandonedDropped`, `CatchesUp`), which is beyond the prover.

## 6. Not modelled, and why

- **Geometry of the ball** (`collide`): real numbers. `Match` lets a goal fall
  whenever the ball moves, which is more than the geometry allows.
- **Messages to the teacher's page, notices and errors**: they are shown and
  never acted on; the teacher's list is sent again and again.
- **The text of results and CSV, the order of lists, parameter checks of the
  API**: pure functions of what was read.
- **Start-up, network detection, logging, drawing, sound**: I/O and display
  without a protocol. What the start loads is `Restart`.

## 7. Plan

Done: all modules of section 2, and the proofs of section 5. What is left:
an abstract specification of a fixture (pending, playing, done, and back by an
undo or a match that is called off) that both `Hub` and `Competition` implement.
