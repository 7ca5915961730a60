------------------------ MODULE MatchSessionProofs ------------------------
(***************************************************************************)
(* Proofs about MatchSession for every choice of its constants: a match    *)
(* keeps the promise of MatchLife, is recorded once, and stands still      *)
(* while a student is away.                                                *)
(***************************************************************************)
EXTENDS MatchSession, MatchProofs

(* A step of the session is a step of the match or leaves it alone. *)
LEMMA SessionMatchStep == [SessionNext]_sessionVars => [Next]_vars
<1> SUFFICES ASSUME [SessionNext]_sessionVars PROVE [Next]_vars
  OBVIOUS
<1> USE DEF Next, Step
<1>1. ASSUME NEW s \in Side, Blows(s) PROVE Next
  BY <1>1 DEF Blows
<1>2. ASSUME NEW s \in Side, Press(s) PROVE vars' = vars
  BY <1>2 DEF Press
<1>3. ASSUME NEW s \in Side, Leave(s) PROVE [Next]_vars
  BY <1>3 DEF Leave, LeavePaused, LeaveRunning, LeaveEnded
<1>4. ASSUME NEW s \in Side, Disconnect(s) PROVE [Next]_vars
  BY <1>4 DEF Disconnect, PauseMatch
<1>5. ASSUME NEW s \in Side, Reconnect(s) PROVE [Next]_vars
  BY <1>5 DEF Reconnect
<1>6. CASE TickPause
  BY <1>6 DEF TickPause
<1>7. CASE TickRun
  BY <1>7 DEF TickRun
<1>8. CASE TickEnded \/ Cancel
  BY <1>8 DEF TickEnded, Cancel
<1>9. CASE UNCHANGED sessionVars
  BY <1>9 DEF sessionVars
<1> QED
  BY <1>1, <1>2, <1>3, <1>4, <1>5, <1>6, <1>7, <1>8, <1>9 DEF SessionNext

-----------------------------------------------------------------------------
(* What a step of the match does to its phase. *)

(* Blowing changes neither the phase nor the verdict. *)
LEMMA BlowPhase ==
    ASSUME NEW s \in Side, Blow(s) \/ Miss(s)
    PROVE  phase = "play" /\ phase' = "play" /\ winner' = winner
BY DEF Blow, Miss, resultVars

(* A tick of a running match keeps it running or ends it. *)
LEMMA RunPhase ==
    ASSUME \/ StepCountdown \/ StepPlay \/ StepTimeUp
           \/ \E s \in Side : StepGoal(s)
    PROVE  /\ phase \in {"ready", "play", "goal"}
           /\ phase' \in {"ready", "play", "goal", "end"}
           /\ phase' # "end" => winner' = winner
<1>1. CASE StepCountdown
  BY <1>1 DEF StepCountdown, resultVars
<1>2. CASE StepPlay
  BY <1>2 DEF StepPlay, resultVars
<1>3. CASE StepTimeUp
  BY <1>3 DEF StepTimeUp, TimeVerdict, Finish
<1>4. ASSUME NEW s \in Side, StepGoal(s)
      PROVE  /\ phase = "play" /\ phase' \in {"goal", "end"}
             /\ phase' # "end" => winner' = winner
  BY <1>4 DEF StepGoal, Concede, Finish, resultVars
<1> QED
  BY <1>1, <1>2, <1>3, <1>4

-----------------------------------------------------------------------------
(* A running match has both its students; it is paused exactly while one   *)
(* of them is away, and saved exactly when it has a verdict.               *)
SessionInv ==
    /\ TypeOK
    /\ online \in [Side -> BOOLEAN] /\ member \in [Side -> BOOLEAN]
    /\ kept \in BOOLEAN /\ saved \in BOOLEAN
    /\ kept => (saved <=> phase = "end")
    /\ kept /\ phase # "end" => \A s \in Side : member[s]
    /\ kept /\ phase # "end" => (phase = "pause" <=> \E s \in Side : ~online[s])
    /\ OnceRecorded

(* A match starts with both its students there. *)
LEMMA SessionInvInit == SessionInit => SessionInv
<1> SUFFICES ASSUME SessionInit PROVE SessionInv
  OBVIOUS
<1>1. TypeOK
  BY TypeInit DEF SessionInit
<1>2. phase = "ready"
  BY DEF SessionInit, Init
<1> QED
  BY <1>1, <1>2 DEF SessionInit, SessionInv, OnceRecorded, Everyone

(* Every event of a session keeps SessionInv. *)
LEMMA SessionInvStep == SessionInv /\ [SessionNext]_sessionVars => SessionInv'
<1> SUFFICES ASSUME SessionInv, [SessionNext]_sessionVars PROVE SessionInv'
  OBVIOUS
<1>1. TypeOK'
  BY TypeStep, SessionMatchStep DEF SessionInv
<1> USE DEF SessionInv, OnceRecorded, connVars, lifeVars
<1>2. phase \in {"ready", "play", "goal", "pause", "end"}
  BY DEF TypeOK
<1>3. ASSUME vars' = vars PROVE phase' = phase
  BY <1>3 DEF vars
<1>4. ASSUME NEW s \in Side, Blows(s) PROVE SessionInv'
  BY <1>1, <1>4, BlowPhase DEF Blows
<1>5. ASSUME NEW s \in Side, Press(s) PROVE SessionInv'
  BY <1>1, <1>3, <1>5 DEF Press
<1>6. ASSUME NEW s \in Side, Leave(s) PROVE SessionInv'
  <2>1. CASE LeavePaused(s)
    BY <1>1, <1>3, <1>6, <2>1 DEF Leave, Arrives, LeavePaused, Drop, Nobody
  <2>2. CASE LeaveRunning(s)
    <3>1. phase # "end" /\ phase' = "end"
      BY <2>2 DEF LeaveRunning, Forfeit, Finish
    <3> QED
      BY <1>1, <1>6, <2>2, <3>1 DEF Leave, Arrives, LeaveRunning, EndMatch
  <2>3. CASE LeaveEnded(s)
    BY <1>1, <1>3, <1>6, <2>3 DEF Leave, Arrives, LeaveEnded, Drop, Nobody
  <2> QED
    BY <1>6, <2>1, <2>2, <2>3 DEF Leave
<1>7. ASSUME NEW s \in Side, Disconnect(s) PROVE SessionInv'
  <2>1. CASE phase = "end"
    BY <1>1, <1>3, <1>7, <2>1 DEF Disconnect, PauseMatch
  <2>2. CASE phase # "end"
    <3>1. phase' = "pause" /\ ~online'[s] /\ online' \in [Side -> BOOLEAN]
      BY <1>3, <1>7, <2>2 DEF Disconnect, PauseMatch, Pause
    <3> QED
      BY <1>1, <1>7, <2>2, <3>1 DEF Disconnect
  <2> QED
    BY <2>1, <2>2
<1>8. ASSUME NEW s \in Side, Reconnect(s) PROVE SessionInv'
  <2>1. online'[s] /\ online'[1 - s] = online[1 - s] /\ online' \in [Side -> BOOLEAN]
    BY <1>8, Sides DEF Reconnect
  <2>2. CASE phase = "end"
    BY <1>1, <1>3, <1>8, <2>1, <2>2 DEF Reconnect
  <2>3. CASE phase # "end" /\ online[1 - s]
    <3>1. phase = "pause" /\ phase' = "ready"
      BY <1>8, <2>3 DEF Reconnect, Unpause
    <3>2. \A t \in Side : online'[t]
      BY <2>1, <2>3, Sides DEF Side
    <3> QED
      BY <1>1, <1>8, <2>1, <3>1, <3>2 DEF Reconnect
  <2>4. CASE phase # "end" /\ ~online[1 - s]
    <3>1. phase = "pause" /\ phase' = "pause"
      BY <1>3, <1>8, <2>4 DEF Reconnect
    <3> QED
      BY <1>1, <1>8, <2>1, <2>4, <3>1, Sides DEF Reconnect
  <2> QED
    BY <2>2, <2>3, <2>4
<1>9. CASE TickPause
  <2>1. phase = "pause" /\ phase' = "pause" /\ kept
    BY <1>9 DEF TickPause, StepPause
  <2>2. (kept' = kept /\ member' = member) \/ (kept' = FALSE /\ member' = Nobody)
    BY <1>9 DEF TickPause, Drop
  <2>3. UNCHANGED <<online, saved, recorded>>
    BY <1>9 DEF TickPause
  <2>4. recorded' = IF phase' = "end" THEN 1 ELSE 0
    BY <2>1, <2>3
  <2>5. kept' => kept' = kept /\ member' = member
    BY <2>2
  <2>6. member' \in [Side -> BOOLEAN] /\ kept' \in BOOLEAN
    <3>1. Nobody \in [Side -> BOOLEAN]
      BY DEF Nobody
    <3>2. member' \in {member, Nobody}
      BY <2>2
    <3>3. kept' \in BOOLEAN
      BY <2>2
    <3> QED
      BY <3>1, <3>2, <3>3
  <2>7. kept' => (saved' <=> phase' = "end")
    BY <2>1, <2>3
  <2> QED
    BY <1>1, <2>1, <2>3, <2>4, <2>5, <2>6, <2>7
<1>10. CASE TickRun
  <2>1. phase \in {"ready", "play", "goal"} /\ phase' \in {"ready", "play", "goal", "end"}
    BY <1>10, RunPhase DEF TickRun
  <2>2. kept /\ UNCHANGED <<kept, member, online>>
    BY <1>10 DEF TickRun
  <2>3. IF phase' = "end" THEN EndMatch ELSE UNCHANGED <<saved, recorded>>
    BY <1>10 DEF TickRun
  <2>4. ~saved /\ recorded = 0
    BY <2>1, <2>2
  <2>5. CASE phase' = "end"
    BY <1>1, <2>1, <2>2, <2>3, <2>4, <2>5 DEF EndMatch
  <2>6. CASE phase' # "end"
    BY <1>1, <2>1, <2>2, <2>3, <2>4, <2>6
  <2> QED
    BY <2>5, <2>6
<1>11. CASE TickEnded \/ Cancel
  BY <1>1, <1>3, <1>11 DEF TickEnded, Cancel, Drop, Nobody
<1>12. CASE UNCHANGED sessionVars
  BY <1>1, <1>3, <1>12 DEF sessionVars
<1> QED
  BY <1>4, <1>5, <1>6, <1>7, <1>8, <1>9, <1>10, <1>11, <1>12 DEF SessionNext

(* Every match with a verdict is recorded exactly once, whichever way it    *)
(* was decided, and a match called off or abandoned is never recorded.      *)
THEOREM RecordedOnce == SessionSpec => []OnceRecorded
<1>1. SessionInit => SessionInv
  BY SessionInvInit
<1>2. SessionInv /\ [SessionNext]_sessionVars => SessionInv'
  BY SessionInvStep
<1>3. SessionInv => OnceRecorded
  BY DEF SessionInv
<1> QED
  BY <1>1, <1>2, <1>3, PTL DEF SessionSpec

-----------------------------------------------------------------------------
(* While one of its students is away a match stands still: clock, injury    *)
(* time, winds, score and the time to kick off wait for the return.         *)
THEOREM StandsStill == SessionSpec => StoppedWhileAway
<1> DEFINE A == kept /\ (\E s \in Side : ~online[s] /\ member[s]) /\ phase # "end"
                  => UNCHANGED <<playLeft, played, injury, score, nBlows, kickLeft>>
<1>1. SessionInv /\ [SessionNext]_sessionVars => A
  <2> SUFFICES ASSUME SessionInv, [SessionNext]_sessionVars, kept, phase = "pause"
               PROVE  UNCHANGED <<playLeft, played, injury, score, nBlows, kickLeft>>
    BY DEF SessionInv
  <2> USE DEF clockVars, kickVars
  <2>1. ASSUME vars' = vars
        PROVE  UNCHANGED <<playLeft, played, injury, score, nBlows, kickLeft>>
    BY <2>1 DEF vars
  <2>2. ASSUME NEW s \in Side, Blows(s) PROVE FALSE
    BY <2>2, BlowPhase DEF Blows
  <2>3. ASSUME NEW s \in Side, Leave(s) PROVE vars' = vars
    BY <2>3 DEF Leave, LeavePaused, LeaveRunning, LeaveEnded
  <2>4. ASSUME NEW s \in Side, Press(s) \/ Disconnect(s) PROVE vars' = vars
    BY <2>4 DEF Press, Disconnect, PauseMatch
  <2>5. ASSUME NEW s \in Side, Reconnect(s)
        PROVE  UNCHANGED <<playLeft, played, injury, score, nBlows, kickLeft>>
    BY <2>1, <2>5 DEF Reconnect, Unpause
  <2>6. CASE TickPause
    BY <2>6 DEF TickPause, StepPause
  <2>7. CASE TickRun
    BY <2>7, RunPhase DEF TickRun
  <2>8. CASE TickEnded \/ Cancel
    BY <2>1, <2>8 DEF TickEnded, Cancel
  <2>9. CASE UNCHANGED sessionVars
    BY <2>1, <2>9 DEF sessionVars
  <2> QED
    BY <2>1, <2>2, <2>3, <2>4, <2>5, <2>6, <2>7, <2>8, <2>9 DEF SessionNext
<1>2. SessionInit => SessionInv
  BY SessionInvInit
<1>3. SessionInv /\ [SessionNext]_sessionVars => SessionInv'
  BY SessionInvStep
<1>4. SessionInv /\ [SessionNext]_sessionVars => [A]_sessionVars
  BY <1>1
<1> QED
  BY <1>2, <1>3, <1>4, PTL DEF SessionSpec, StoppedWhileAway

-----------------------------------------------------------------------------
(* The refinement.  lifeOf is what MatchLife sees of a match. *)
lifeOf == IF ~kept THEN "gone" ELSE IF phase = "end" THEN "decided"
          ELSE IF phase = "pause" THEN "waiting" ELSE "on"

(* A new match is what MatchLife starts with. *)
LEMMA LifeInit == SessionInit => Life!Init
<1> SUFFICES ASSUME SessionInit PROVE Life!Init
  OBVIOUS
<1>1. winner = NoSide /\ phase = "ready" /\ kept /\ online = Everyone
  BY DEF SessionInit, Init
<1> QED
  BY <1>1 DEF Life!Init, Life!Side, NoSide, Everyone, Side

(* Every event of a session is a step of MatchLife or none. *)
LEMMA LifeStep == SessionInv /\ SessionInv' /\ [SessionNext]_sessionVars => [Life!Next]_Life!vars
<1> SUFFICES ASSUME SessionInv, SessionInv', [SessionNext]_sessionVars
             PROVE  [Life!Next]_Life!vars
  OBVIOUS
<1>s. Life!Side = Side
  BY DEF Life!Side, Side
<1>v. ASSUME UNCHANGED <<lifeOf, online, winner>> PROVE UNCHANGED Life!vars
  BY <1>v DEF Life!vars, lifeOf
<1>k. phase \in {"ready", "play", "goal", "pause", "end"}
      /\ phase' \in {"ready", "play", "goal", "pause", "end"}
      /\ kept \in BOOLEAN /\ kept' \in BOOLEAN /\ winner' \in Side \cup {-1}
  BY DEF SessionInv, TypeOK, NoSide
<1>m. ASSUME vars' = vars PROVE phase' = phase /\ winner' = winner
  BY <1>m DEF vars, resultVars
<1> USE DEF connVars, lifeVars
(* A match that leaves the hub, and one that is decided. *)
<1>1. ASSUME kept, ~kept', UNCHANGED <<online, winner>> PROVE Life!Vanish
  BY <1>1, <1>k DEF Life!Vanish
<1>2. ASSUME kept, kept', phase \notin {"pause", "end"}, phase' = "end", UNCHANGED online
      PROVE  Life!Decide
  <2>1. \A s \in Side : online[s]
    BY <1>2 DEF SessionInv
  <2> QED
    BY <1>2, <1>k, <1>s, <2>1 DEF Life!Decide, Life!Both
<1>3. ASSUME NEW s \in Side, Blows(s) PROVE UNCHANGED Life!vars
  BY <1>3, <1>v, BlowPhase DEF Blows, lifeOf
<1>4. ASSUME NEW s \in Side, Press(s) PROVE UNCHANGED Life!vars
  BY <1>4, <1>m, <1>v DEF Press, lifeOf
<1>5. ASSUME NEW s \in Side, Leave(s) PROVE [Life!Next]_Life!vars
  <2>1. CASE LeavePaused(s)
    BY <1>1, <1>5, <1>m, <2>1 DEF Leave, Arrives, LeavePaused, Drop, Life!Next
  <2>2. CASE LeaveRunning(s)
    BY <1>2, <1>5, <2>2
       DEF Leave, Arrives, LeaveRunning, Forfeit, Finish, Life!Next
  <2>3. CASE LeaveEnded(s) /\ member[1 - s]
    BY <1>5, <1>m, <1>v, <2>3 DEF Leave, Arrives, LeaveEnded, lifeOf
  <2>4. CASE LeaveEnded(s) /\ ~member[1 - s]
    BY <1>1, <1>5, <1>m, <2>4 DEF Leave, Arrives, LeaveEnded, Drop, Life!Next
  <2> QED
    BY <1>5, <2>1, <2>2, <2>3, <2>4 DEF Leave
<1>6. ASSUME NEW s \in Side, Disconnect(s) PROVE Life!Lose(s)
  <2>1. kept /\ kept' /\ online[s] /\ online' = [online EXCEPT ![s] = FALSE]
    BY <1>6 DEF Disconnect
  <2>2. phase' = (IF phase = "end" THEN "end" ELSE "pause") /\ winner' = winner
    BY <1>6, <1>m, <1>k DEF Disconnect, PauseMatch, Pause, resultVars, SessionInv
  <2> QED
    BY <1>k, <2>1, <2>2 DEF Life!Lose
<1>7. ASSUME NEW s \in Side, Reconnect(s) PROVE Life!Return(s)
  <2>1. kept /\ kept' /\ ~online[s] /\ online' = [online EXCEPT ![s] = TRUE]
    BY <1>7 DEF Reconnect
  <2>2. phase # "end" => phase = "pause" /\ member[s]
    BY <1>7, <2>1 DEF SessionInv
  <2>3. phase' = (IF phase = "end" THEN "end" ELSE IF online[1 - s] THEN "ready" ELSE "pause")
        /\ winner' = winner
    BY <1>7, <1>m, <2>2 DEF Reconnect, Unpause, resultVars
  <2> QED
    BY <1>k, <2>1, <2>2, <2>3 DEF Life!Return
<1>8. CASE TickPause
  <2>1. phase = "pause" /\ phase' = "pause" /\ kept /\ UNCHANGED <<online, winner>>
    BY <1>8 DEF TickPause, StepPause, resultVars
  <2>2. kept' = kept \/ ~kept'
    BY <1>k, <2>1
  <2> QED
    BY <1>1, <1>k, <1>v, <2>1, <2>2 DEF Life!Next, lifeOf
<1>9. CASE TickRun
  <2>1. kept /\ kept' /\ UNCHANGED online
    BY <1>9 DEF TickRun
  <2>2. /\ phase \in {"ready", "play", "goal"} /\ phase' \in {"ready", "play", "goal", "end"}
        /\ phase' # "end" => winner' = winner
    BY <1>9, RunPhase DEF TickRun
  <2>3. CASE phase' = "end"
    BY <1>2, <2>1, <2>2, <2>3 DEF Life!Next
  <2>4. CASE phase' # "end"
    BY <1>v, <2>1, <2>2, <2>4 DEF lifeOf
  <2> QED
    BY <2>3, <2>4
<1>10. CASE TickEnded \/ Cancel
  BY <1>1, <1>m, <1>10 DEF TickEnded, Cancel, Drop, Life!Next
<1>11. CASE UNCHANGED sessionVars
  BY <1>m, <1>v, <1>11 DEF sessionVars, lifeOf
<1>12. \A s \in Side : Life!Lose(s) \/ Life!Return(s) => Life!Next
  BY <1>s DEF Life!Next
<1> QED
  BY <1>3, <1>4, <1>5, <1>6, <1>7, <1>8, <1>9, <1>10, <1>11, <1>12 DEF SessionNext

(* The match in all its detail keeps the promise of MatchLife: decided only *)
(* with both students there, on again when both are back, and final.        *)
THEOREM SessionImplementsLife == SessionSpec => LifeKept
<1>1. SessionInit => SessionInv /\ Life!Init
  BY SessionInvInit, LifeInit
<1>2. SessionInv /\ [SessionNext]_sessionVars => SessionInv'
  BY SessionInvStep
<1>3. SessionInv /\ SessionInv' /\ [SessionNext]_sessionVars => [Life!Next]_Life!vars
  BY LifeStep
<1> QED
  BY <1>1, <1>2, <1>3, PTL DEF SessionSpec, LifeKept, Life!Spec
=============================================================================
