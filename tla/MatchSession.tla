---------------------------- MODULE MatchSession ----------------------------
(***************************************************************************)
(* One match and the two students in it: Match with their connections, the *)
(* tick that drops or records it, and "leave" messages on their way from a *)
(* student's screen to the hub (hub.go, student.html).                     *)
(*                                                                         *)
(* A student decides to leave by what the screen shows at that moment; the *)
(* message says only "leave", and the hub reads it by the phase the match  *)
(* is in when the message is handled.  A leave of a connection that is     *)
(* lost first is ignored (Hub.onMessage), so losing it forgets the leave.  *)
(*                                                                         *)
(* Who may join, what a rematch is and how a returning student is          *)
(* recognised is in Hub.tla.                                               *)
(***************************************************************************)
EXTENDS Match

CONSTANT BothGoneWait    \* steps after which an abandoned match is dropped

ASSUME SessionAssumption == BothGoneWait \in Nat /\ BothGoneWait < WaitCap

VARIABLES
    online,    \* online[s]: Player.conn of the student of side s is not nil
    member,    \* member[s]: the student's Player.match is this match
    kept,      \* the match is in Hub.matches
    saved,     \* Match.saved
    recorded,  \* history: how often endMatch settled the result
    leaving,   \* what the student of a side was told when pressing "leave",
               \* until the hub handles the message
    alone      \* history: steps since both students are away, up to WaitCap

connVars    == <<online, leaving>>
lifeVars    == <<member, kept, saved, recorded>>
sessionVars == <<vars, connVars, lifeVars, alone>>

Told == {"no", "unrecorded", "forfeit", "back"}

SessionTypeOK ==
    /\ TypeOK
    /\ online \in [Side -> BOOLEAN] /\ member \in [Side -> BOOLEAN]
    /\ kept \in BOOLEAN /\ saved \in BOOLEAN
    /\ recorded \in Nat /\ alone \in Nat
    /\ leaving \in [Side -> Told]

Everyone == [s \in Side |-> TRUE]
Nobody   == [s \in Side |-> FALSE]
BothGone == online = Nobody

(* startMatch: both students are connected (RoomsLinked, InvitesFresh). *)
SessionInit ==
    /\ Init
    /\ online = Everyone /\ member = Everyone
    /\ kept = TRUE /\ saved = FALSE /\ recorded = 0
    /\ leaving = [s \in Side |-> "no"] /\ alone = 0

-----------------------------------------------------------------------------
(* dropMatch *)
Drop == kept' = FALSE /\ member' = Nobody

(* endMatch *)
EndMatch ==
    /\ saved' = TRUE
    /\ recorded' = IF saved THEN recorded ELSE recorded + 1

(* "blow" of a student who is in the match. *)
Blows(s) ==
    /\ kept /\ online[s] /\ member[s]
    /\ Blow(s) \/ Miss(s)
    /\ UNCHANGED <<connVars, lifeVars, alone>>

(* The exit button: what the student is asked, and confirms. *)
Press(s) ==
    /\ kept /\ online[s] /\ member[s] /\ leaving[s] = "no"
    /\ leaving' = [leaving EXCEPT ![s] = CASE phase = "pause" -> "unrecorded"
                                           [] phase = "end"   -> "back"
                                           [] OTHER           -> "forfeit"]
    /\ UNCHANGED <<vars, online, lifeVars, alone>>

Arrives(s) ==
    /\ kept /\ online[s] /\ member[s] /\ leaving[s] # "no"
    /\ leaving' = [leaving EXCEPT ![s] = "no"]
    /\ UNCHANGED <<online, alone>>

(* leaveMatch in a pause: cancelMatch, nobody forfeits. *)
LeavePaused(s) ==
    /\ phase = "pause"
    /\ saved' = TRUE /\ UNCHANGED recorded
    /\ Drop /\ UNCHANGED vars

(* leaveMatch while the match is on: the student forfeits. *)
LeaveRunning(s) ==
    /\ phase \notin {"pause", "end"}
    /\ Forfeit(s) /\ EndMatch
    /\ member' = [member EXCEPT ![s] = FALSE]
    /\ UNCHANGED kept

(* leaveMatch after the end: the last one out drops the match. *)
LeaveEnded(s) ==
    /\ phase = "end"
    /\ IF member[1 - s] THEN member' = [member EXCEPT ![s] = FALSE] /\ UNCHANGED kept
                        ELSE Drop
    /\ UNCHANGED <<vars, saved, recorded>>

(* Mutant: leaving a match that waits for the opponent forfeits it. *)
LeaveAlwaysForfeits(s) ==
    /\ Arrives(s)
    /\ \/ /\ phase # "end" /\ Forfeit(s) /\ EndMatch
          /\ member' = [member EXCEPT ![s] = FALSE] /\ UNCHANGED kept
       \/ LeaveEnded(s)

(* Mutant: a forfeit is not recorded, the tick skips ended matches. *)
LeaveUnrecorded(s) ==
    /\ Arrives(s)
    /\ \/ LeavePaused(s) \/ LeaveEnded(s)
       \/ /\ phase \notin {"pause", "end"} /\ Forfeit(s)
          /\ member' = [member EXCEPT ![s] = FALSE]
          /\ UNCHANGED <<kept, saved, recorded>>

(* leaveMatch *)
Leave(s) ==
    /\ Arrives(s)
    /\ LeavePaused(s) \/ LeaveRunning(s) \/ LeaveEnded(s)

-----------------------------------------------------------------------------
(* Mutant: only play is paused, not the countdowns. *)
PauseOnlyPlay == IF phase = "play" THEN Pause ELSE UNCHANGED vars

(* A match that has ended or is already paused takes no notice. *)
PauseMatch == IF phase \in {"pause", "end"} THEN UNCHANGED vars ELSE Pause

(* onUnregister of a student's current connection. *)
Disconnect(s) ==
    /\ kept /\ online[s]
    /\ online' = [online EXCEPT ![s] = FALSE]
    /\ leaving' = [leaving EXCEPT ![s] = "no"]
    /\ IF member[s] THEN PauseMatch ELSE UNCHANGED vars
    /\ alone' = 0
    /\ UNCHANGED lifeVars

(* onRegister of a student of this match. *)
Reconnect(s) ==
    /\ kept /\ ~online[s]
    /\ online' = [online EXCEPT ![s] = TRUE]
    /\ IF member[s] /\ phase = "pause" /\ online[1 - s] THEN Unpause ELSE UNCHANGED vars
    /\ alone' = 0
    /\ UNCHANGED <<leaving, lifeVars>>

-----------------------------------------------------------------------------
(* Mutant: an abandoned match is dropped only if it is not waiting. *)
TickPauseForEver ==
    /\ kept /\ StepPause
    /\ alone' = IF BothGone THEN Least(alone + 1, WaitCap) ELSE 0
    /\ UNCHANGED <<lifeVars, connVars>>

(* onTick of a paused match: dropped when nobody came back in time. *)
TickPause ==
    /\ kept /\ StepPause
    /\ alone' = IF BothGone THEN Least(alone + 1, WaitCap) ELSE 0
    /\ IF phaseLeft' > BothGoneWait /\ BothGone THEN Drop ELSE UNCHANGED <<kept, member>>
    /\ UNCHANGED <<saved, recorded, connVars>>

(* onTick of a match that is on: recorded in the tick in which it ends. *)
TickRun ==
    /\ kept
    /\ \/ StepCountdown \/ StepPlay \/ StepTimeUp
       \/ \E s \in Side : StepGoal(s)
    /\ IF phase' = "end" THEN EndMatch ELSE UNCHANGED <<saved, recorded>>
    /\ UNCHANGED <<kept, member, connVars, alone>>

(* onTick of an ended match whose end screen has lingered for too long. *)
TickEnded ==
    /\ kept /\ phase = "end"
    /\ Drop /\ UNCHANGED <<vars, saved, recorded, connVars, alone>>

(* cancelMatch by the teacher: the side arena, the competition or the       *)
(* fixture is closed.                                                       *)
Cancel ==
    /\ kept /\ saved' = TRUE
    /\ Drop /\ UNCHANGED <<vars, recorded, connVars, alone>>

SessionNext ==
    \/ \E s \in Side : Blows(s) \/ Press(s) \/ Leave(s) \/ Disconnect(s) \/ Reconnect(s)
    \/ TickPause \/ TickRun \/ TickEnded
    \/ Cancel

SessionSpec == SessionInit /\ [][SessionNext]_sessionVars

(* The hub ticks for ever, and time passes on an end screen. *)
FairSessionSpec ==
    /\ SessionSpec
    /\ WF_sessionVars(TickPause) /\ WF_sessionVars(TickRun) /\ WF_sessionVars(TickEnded)

-----------------------------------------------------------------------------
(* A match keeps what MatchLife promises. *)
Life == INSTANCE MatchLife WITH
          life   <- IF ~kept THEN "gone" ELSE IF phase = "end" THEN "decided"
                    ELSE IF phase = "pause" THEN "waiting" ELSE "on",
          here   <- online

(* The detailed match implements the promise: it is never decided while a   *)
(* student is away, goes on exactly when both are back, and neither a       *)
(* verdict nor the end of a match is ever taken back.                       *)
LifeKept == Life!Spec

(* A match that ended with a verdict is recorded exactly once, whether the  *)
(* rules or a forfeit ended it; one that was called off or abandoned never. *)
OnceRecorded == recorded = IF phase = "end" THEN 1 ELSE 0

(* While a student is away nothing in the match counts: neither the clock,  *)
(* nor injury time, nor winds, nor goals, nor the time to kick off.         *)
StoppedWhileAway ==
    [][kept /\ (\E s \in Side : ~online[s] /\ member[s]) /\ phase # "end"
          => UNCHANGED <<playLeft, played, injury, score, nBlows, kickLeft>>]_sessionVars

(* A match both students have left behind does not stay for ever. *)
AbandonedDropped == <>[]BothGone => <>~kept

(* A match with a time ends, or goes into golden goal, unless connections   *)
(* keep being lost: ceremonies and injury time cannot drag it out for ever. *)
TimedMatchEnds ==
    rules.time > 0 => \/ <>(phase = "end" \/ golden \/ ~kept)
                      \/ []<>(phase = "pause")

(* Nobody is kept from blowing for ever by an opponent who does not kick    *)
(* off (while the bound on the steps of play leaves the time for it).       *)
KickOffLapses ==
    kicker # NoSide /\ played + KickoffWait <= PlayedCap
      ~> kicker = NoSide \/ phase = "end" \/ ~kept

-----------------------------------------------------------------------------
(* What the program says of itself and does not keep *)

(* "Once both have been away for this long, cleared without a record"       *)
(* (match.go:43, README.md:31): a match is abandoned only after both were   *)
(* away for BothGoneWait together.                                          *)
BothGoneLong ==
    [][kept /\ ~kept' /\ BothGone /\ phase = "pause" /\ ~saved'
          => alone' >= BothGoneWait]_sessionVars

(* "This match will not be recorded" (student.html:543, README.md:30): who  *)
(* confirms this is not made to forfeit the match.                          *)
CallOffUnrecorded ==
    [][\A s \in Side : leaving[s] = "unrecorded" /\ leaving'[s] = "no"
          => recorded' = recorded]_sessionVars
=============================================================================
