---------------------------- MODULE MatchProofs ----------------------------
(***************************************************************************)
(* Proofs about Match for every choice of its constants.                   *)
(***************************************************************************)
EXTENDS Match, TLAPS

-----------------------------------------------------------------------------
(* The constants, one by one. *)
LEMMA Durations ==
    /\ ReadyDur \in Nat /\ ReadyDur > 0 /\ GoalPause \in Nat /\ GoalPause > 0
    /\ KickoffWait \in Nat /\ KickoffWait > 0 /\ BlowDur \in Nat /\ BlowDur > 0
    /\ Cooldown \in Nat /\ Cooldown > BlowDur /\ MissPenalty \in Nat
    /\ MaxCooldown \in Nat /\ Cooldown <= MaxCooldown
    /\ Second \in Nat /\ Second > 0 /\ WaitCap \in Nat
BY MatchAssumption

(* The fields of the rules a match may have (Rules.valid). *)
LEMMA RulesType ==
    ASSUME rules \in RuleSet
    PROVE  rules.time \in Nat /\ rules.goals \in Nat /\ rules.goldenGoal \in BOOLEAN
BY MatchAssumption DEF Rules

(* The two sides: numbers, different from each other and from NoSide. *)
LEMMA Sides ==
    /\ 0 \in Side /\ 1 \in Side /\ NoSide \notin Side
    /\ \A s \in Side : s \in Int /\ 1 - s \in Side /\ 1 - s # s
BY DEF Side, NoSide

(* finish names a side or nobody. *)
LEMMA LeaderType == \A sc : Leader(sc) \in Side \cup {NoSide}
BY Sides DEF Leader

(* Duration.Round: the time shown is a natural number of steps, at most    *)
(* half a second less than the time measured.                              *)
LEMMA Rounding ==
    ASSUME injury \in Nat
    PROVE  injuryShown \in Nat /\ 2 * injuryShown >= 2 * injury - Second
<1> DEFINE q == (2 * injury + Second) \div (2 * Second)
<1>1. Second \in Nat /\ Second > 0
  BY Durations
<1>2. q \in Nat
  BY <1>1
<1>3. 2 * injury + Second < (2 * Second) * (q + 1)
  BY <1>1
<1>4. injuryShown = q * Second
  BY DEF injuryShown
<1> HIDE DEF q
<1>5. (2 * Second) * (q + 1) = 2 * (q * Second) + 2 * Second /\ q * Second \in Nat
  BY <1>1, <1>2
<1> QED
  BY <1>1, <1>3, <1>4, <1>5

(* No injury time is shown only if it was less than half a second. *)
LEMMA RoundedAway ==
    ASSUME injury \in Nat, injuryShown = 0
    PROVE  2 * injury < Second
<1> DEFINE q == (2 * injury + Second) \div (2 * Second)
<1>1. Second \in Nat /\ Second > 0
  BY Durations
<1>2. q \in Nat /\ 2 * injury + Second < (2 * Second) * (q + 1)
  BY <1>1
<1>3. q * Second = 0
  BY DEF injuryShown
<1> HIDE DEF q
<1>4. q = 0
  BY <1>1, <1>2, <1>3
<1> QED
  BY <1>1, <1>2, <1>4

-----------------------------------------------------------------------------
(* Type correctness *)

(* A step of rest leaves no cooldown negative. *)
LEMMA RestType ==
    ASSUME TypeOK, Rest
    PROVE  cd' \in [Side -> Nat]
BY DEF TypeOK, Rest, Monus

(* The clock of a step of play is never negative. *)
LEMMA PlayClockType ==
    ASSUME TypeOK, PlayClock
    PROVE  playLeft' \in Nat /\ played' \in Nat /\ injury' \in Nat /\ lost' \in Nat
           /\ inInjury' \in BOOLEAN
<1>1. injuryShown \in Nat
  BY Rounding DEF TypeOK
<1> QED
  BY <1>1 DEF TypeOK, PlayClock, Monus

(* A step of play leaves a side, or nobody, to kick off. *)
LEMMA AwaitKickType ==
    ASSUME TypeOK, AwaitKick
    PROVE  kicker' \in Side \cup {NoSide} /\ kickLeft' \in Int
BY DEF TypeOK, AwaitKick

(* A new match has the types of its fields. *)
LEMMA TypeInit == Init => TypeOK
<1> SUFFICES ASSUME Init PROVE TypeOK
  OBVIOUS
<1> QED
  <2>1. rules.time \in Nat
    BY RulesType DEF Init
  <2> QED
    BY <2>1, Durations, Sides DEF Init, TypeOK, Reasons

(* Every handler and every tick keeps the types. *)
LEMMA TypeStep == TypeOK /\ [Next]_vars => TypeOK'
<1> SUFFICES ASSUME TypeOK, [Next]_vars PROVE TypeOK'
  OBVIOUS
<1> USE Durations, Sides DEF TypeOK, clockVars, resultVars, kickVars
<1>1. ASSUME NEW s \in Side, Blow(s) PROVE TypeOK'
  BY <1>1 DEF Blow
<1>2. ASSUME NEW s \in Side, Miss(s) PROVE TypeOK'
  BY <1>2 DEF Miss, Least, Monus
<1>3. ASSUME NEW s \in Side, Forfeit(s) PROVE TypeOK'
  BY <1>3 DEF Forfeit, Finish, Reasons
<1>4. CASE Pause
  <2>1. blows' = {} /\ moving' \in BOOLEAN /\ cd' \in [Side -> Nat]
    <3>1. CASE phase = "goal"
      <4>1. CentreBall
        BY <1>4, <3>1 DEF Pause
      <4> QED
        BY <4>1 DEF CentreBall
    <3>2. CASE phase # "goal"
      BY <1>4, <3>2 DEF Pause
    <3> QED
      BY <3>1, <3>2
  <2>2. kickSide' \in Side \cup {NoSide} /\ kicker' \in Side \cup {NoSide}
    BY <1>4 DEF Pause, KeepKick
  <2> QED
    BY <1>4, <2>1, <2>2 DEF Pause
<1>5. CASE Unpause
  BY <1>5 DEF Unpause
<1>6. CASE StepPause
  BY <1>6, RestType DEF StepPause, Least
<1>7. CASE StepCountdown
  <2>1. cd' \in [Side -> Nat]
    BY <1>7, RestType DEF StepCountdown
  <2>2. playLeft' \in Nat /\ injury' \in Nat /\ lost' \in Nat
    BY <1>7 DEF StepCountdown, StoppedClock, Monus
  <2>3. played' \in Nat /\ inInjury' \in BOOLEAN /\ golden' \in BOOLEAN /\ phaseLeft' \in Nat
    BY <1>7 DEF StepCountdown, StoppedClock, Monus
  <2> QED
    BY <1>7, <2>1, <2>2, <2>3 DEF StepCountdown
<1>8. CASE StepTimeUp
  <2>1. winner' \in Side \cup {NoSide} /\ reason' \in Reasons /\ phase' = "end" /\ blows' = {}
    BY <1>8, LeaderType DEF StepTimeUp, TimeVerdict, Finish, Reasons
  <2> QED
    BY <1>8, <2>1, RestType, PlayClockType, AwaitKickType DEF StepTimeUp
<1>9. CASE StepPlay
  <2>1. blows' \subseteq [side : Side, nth : Nat, left : Nat]
    BY <1>9 DEF StepPlay
  <2>2. moving' \in BOOLEAN /\ golden' \in BOOLEAN
    BY <1>9 DEF StepPlay, GoesGolden, TimeUp, ToInjury, Timed, Level
  <2> QED
    BY <1>9, <2>1, <2>2, RestType, PlayClockType, AwaitKickType DEF StepPlay
<1>10. ASSUME NEW s \in Side, StepGoal(s) PROVE TypeOK'
  <2> DEFINE sc == [score EXCEPT ![s] = @ + 1]
  <2>1. score' = sc /\ sc \in [Side -> Nat] /\ scorer' \in Side
    BY <1>10 DEF StepGoal
  <2>2. golden' \in BOOLEAN
    BY <1>10 DEF StepGoal, GoesGolden, TimeUp, ToInjury, Timed, Level
  <2>3. /\ winner' \in Side \cup {NoSide} /\ reason' \in Reasons
        /\ phase' \in {"goal", "end"} /\ phaseLeft' \in Nat
        /\ blows' = {} /\ moving' \in BOOLEAN /\ kickSide' \in Side \cup {NoSide}
    BY <1>10, LeaderType DEF StepGoal, Concede, CentreBall, Finish, Reasons
  <2>4. cd' \in [Side -> Nat]
    BY <1>10, RestType DEF StepGoal, Concede, CentreBall
  <2> QED
    BY <1>10, <2>1, <2>2, <2>3, <2>4, PlayClockType, AwaitKickType DEF StepGoal
<1>11. CASE UNCHANGED vars
  BY <1>11 DEF vars, ballVars
<1> QED
  BY <1>1, <1>2, <1>3, <1>4, <1>5, <1>6, <1>7, <1>8, <1>9, <1>10, <1>11 DEF Next, Step

(* Every reachable state of a match has the types the program declares:     *)
(* in particular no clock, cooldown or countdown is ever negative.          *)
THEOREM TypeCorrect == Spec => []TypeOK
<1>1. Init => TypeOK
  BY TypeInit
<1>2. TypeOK /\ [Next]_vars => TypeOK'
  BY TypeStep
<1> QED
  BY <1>1, <1>2, PTL DEF Spec

-----------------------------------------------------------------------------
(* The clock.  RegularTime and FullTime are not inductive by themselves: in *)
(* injury time the balance is that of FullTime with what is still left, and *)
(* the phase says which of them a match is in.                              *)
ClockInv ==
    /\ TypeOK
    /\ phase = "end" <=> reason # "none"
    /\ rules.time > 0 /\ ~golden /\ phase # "end" =>
        IF inInjury THEN 2 * (played + lost + playLeft) >= 2 * rules.time - Second
        ELSE /\ played + injury + playLeft >= rules.time
             /\ playLeft > 0 => played + injury + playLeft = rules.time
    /\ RegularTime
    /\ FullTime

(* A new match has all its time left. *)
LEMMA ClockInit == Init => ClockInv
<1> SUFFICES ASSUME Init PROVE ClockInv
  OBVIOUS
<1>1. TypeOK
  BY TypeInit
<1>2. rules.time \in Nat
  BY RulesType DEF Init
<1>3. /\ played = 0 /\ injury = 0 /\ playLeft = rules.time
      /\ ~inInjury /\ phase = "ready" /\ reason = "none"
  BY DEF Init
<1>4. RegularTime
  BY <1>2, <1>3 DEF RegularTime
<1>5. FullTime
  BY <1>3 DEF FullTime
<1> QED
  BY <1>1, <1>2, <1>3, <1>4, <1>5 DEF ClockInv

(* One step of play keeps the balance, also when injury time is entered. *)
LEMMA PlayClockBalance ==
    ASSUME ClockInv, phase = "play", PlayClock, rules.time > 0, ~golden
    PROVE  /\ inInjury' => 2 * (played' + lost' + playLeft') >= 2 * rules.time - Second
           /\ ~inInjury' => /\ played' + injury' + playLeft' >= rules.time
                            /\ playLeft' > 0 => played' + injury' + playLeft' = rules.time
           /\ TimeUp => /\ playLeft' = 0
                        /\ ~inInjury' => 2 * injury' < Second
<1>1. rules.time \in Nat
  BY RulesType DEF ClockInv, TypeOK
<1>2. /\ playLeft \in Nat /\ played \in Nat /\ injury \in Nat /\ lost \in Nat
      /\ inInjury \in BOOLEAN
  BY DEF ClockInv, TypeOK
<1>3. injuryShown \in Nat /\ 2 * injuryShown >= 2 * injury - Second
  BY <1>2, Rounding
<1>4. injuryShown = 0 => 2 * injury < Second
  BY <1>2, RoundedAway
<1>5. Second \in Nat
  BY Durations
<1> USE <1>1, <1>2, <1>3, <1>4, <1>5
<1>6. played' = played + 1 /\ lost' = lost /\ injury' = injury
  BY DEF PlayClock
<1>b1. inInjury => 2 * (played + lost + playLeft) >= 2 * rules.time - Second
  BY DEF ClockInv
<1>b2. ~inInjury => /\ played + injury + playLeft >= rules.time
                    /\ playLeft > 0 => played + injury + playLeft = rules.time
  BY DEF ClockInv
<1>7. CASE ToInjury
  <2>1. inInjury' /\ ~inInjury /\ ~TimeUp /\ playLeft <= 1 /\ playLeft' = injuryShown
    BY <1>7 DEF PlayClock, ToInjury, TimeUp, Timed
  <2>2. played + injury + playLeft >= rules.time
    BY <2>1 DEF ClockInv
  <2> QED
    BY <1>6, <2>1, <2>2
<1>8. CASE ~ToInjury
  <2>1. inInjury' = inInjury /\ playLeft' = Monus(playLeft, 1)
    BY <1>8 DEF PlayClock, Timed
  <2>2. TimeUp => playLeft <= 1 /\ (~inInjury => injuryShown = 0)
    BY <1>8 DEF TimeUp, ToInjury, Timed
  <2>3. CASE inInjury
    BY <1>6, <1>b1, <2>1, <2>2, <2>3 DEF Monus
  <2>4. CASE ~inInjury
    BY <1>6, <1>b2, <2>1, <2>2, <2>4 DEF Monus
  <2> QED
    BY <2>3, <2>4
<1> QED
  BY <1>7, <1>8

(* What is missing is the injury time rounded away. *)
LEMMA HalfSecondShort ==
    ASSUME NEW t \in Nat, NEW p \in Nat, NEW i \in Nat, NEW l \in Nat, NEW u \in Nat,
           p + i >= t, 2 * i < u
    PROVE  2 * (p + l) >= 2 * t - u
<1>1. 2 * p + 2 * i >= 2 * t
  OBVIOUS
<1>2. 2 * (p + l) = 2 * p + 2 * l
  OBVIOUS
<1> QED
  BY <1>1, <1>2

(* Every handler and every tick keeps the balance of the clock. *)
LEMMA ClockStep == ClockInv /\ [Next]_vars => ClockInv'
<1> SUFFICES ASSUME ClockInv, [Next]_vars PROVE ClockInv'
  OBVIOUS
<1> DEFINE Regular == /\ played + injury + playLeft >= rules.time
                      /\ playLeft > 0 => played + injury + playLeft = rules.time
           Extra   == 2 * (played + lost + playLeft) >= 2 * rules.time - Second
           Running == rules.time > 0 /\ ~golden /\ phase # "end"
<1>1. TypeOK /\ TypeOK'
  BY TypeStep DEF ClockInv
<1>2. /\ rules.time \in Nat /\ Second \in Nat
      /\ playLeft \in Nat /\ played \in Nat /\ injury \in Nat /\ lost \in Nat
      /\ inInjury \in BOOLEAN /\ golden \in BOOLEAN
  BY <1>1, RulesType, Durations DEF TypeOK
<1>3. (phase = "end" <=> reason # "none") /\ FullTime
  BY DEF ClockInv
<1>4. (Running /\ inInjury => Extra) /\ (Running /\ ~inInjury => Regular)
  BY DEF ClockInv
(* It is enough to keep the balance of a running match, and to say what     *)
(* the clock shows when a match ends.                                       *)
<1> DEFINE Kept == /\ phase' = "end" <=> reason' # "none"
                   /\ Running' /\ inInjury' => Extra'
                   /\ Running' /\ ~inInjury' => Regular'
                   /\ RegularTime' /\ FullTime'
<1>5. SUFFICES Kept
  BY <1>1 DEF ClockInv
<1>6. ASSUME UNCHANGED <<rules, clockVars>>, phase # "end", phase' # "end", reason' = reason
      PROVE  Kept
  BY <1>3, <1>4, <1>6 DEF clockVars, RegularTime, FullTime
<1> USE DEF clockVars, resultVars, kickVars
<1>7. ASSUME NEW s \in Side, Blow(s) PROVE Kept
  BY <1>6, <1>7 DEF Blow
<1>8. ASSUME NEW s \in Side, Miss(s) PROVE Kept
  BY <1>6, <1>8 DEF Miss
<1>9. ASSUME NEW s \in Side, Forfeit(s) PROVE Kept
  BY <1>4, <1>9 DEF Forfeit, Finish, RegularTime, FullTime
<1>10. CASE Pause
  BY <1>6, <1>10 DEF Pause
<1>11. CASE Unpause
  BY <1>6, <1>11 DEF Unpause
<1>12. CASE StepPause
  BY <1>6, <1>12 DEF StepPause
<1>13. CASE StepCountdown
  <2>1. /\ phase # "end" /\ phase' # "end" /\ reason' = reason /\ rules' = rules
        /\ played' = played /\ inInjury' = inInjury /\ golden' = golden
    BY <1>13 DEF StepCountdown, StoppedClock
  <2>2. \/ playLeft' = playLeft /\ injury' = injury /\ lost' = lost
        \/ /\ playLeft' = Monus(playLeft, 1)
           /\ injury' = IF inInjury THEN injury ELSE injury + 1
           /\ lost' = IF inInjury /\ playLeft > 0 THEN lost + 1 ELSE lost
    BY <1>13 DEF StepCountdown, StoppedClock
  <2>3. (Running /\ inInjury => Extra') /\ (Running /\ ~inInjury => Regular')
    BY <1>2, <1>4, <2>1, <2>2 DEF Monus
  <2> QED
    BY <1>3, <2>1, <2>3 DEF RegularTime, FullTime
<1>14. CASE StepTimeUp
  <2>1. /\ phase = "play" /\ PlayClock /\ TimeUp /\ Timed /\ rules' = rules /\ golden' = golden
        /\ phase' = "end" /\ reason' \in {"time", "blows"}
    BY <1>14 DEF StepTimeUp, TimeUp, TimeVerdict, Finish
  <2>2. /\ inInjury' => 2 * (played' + lost' + playLeft') >= 2 * rules.time - Second
        /\ ~inInjury' => played' + injury' + playLeft' >= rules.time
        /\ playLeft' = 0 /\ (~inInjury' => 2 * injury' < Second)
    BY <2>1, PlayClockBalance DEF Timed
  <2>3. played' \in Nat /\ lost' \in Nat /\ injury' \in Nat /\ inInjury' \in BOOLEAN
    BY <1>1 DEF TypeOK
  <2>4. 2 * (played' + lost') >= 2 * rules.time - Second
    <3>1. CASE inInjury'
      BY <1>2, <2>2, <2>3, <3>1
    <3>2. CASE ~inInjury'
      <4>1. played' + injury' >= rules.time /\ 2 * injury' < Second
        BY <2>2, <2>3, <3>2
      <4> QED
        BY <1>2, <2>3, <4>1, HalfSecondShort
    <3> QED
      BY <3>1, <3>2
  <2> QED
    BY <2>1, <2>4 DEF RegularTime, FullTime
<1>15. ASSUME phase = "play", PlayClock, rules' = rules, ~golden' => ~golden,
              phase' = "end" <=> reason' # "none", reason' \notin {"time", "blows"}
       PROVE  Kept
  <2>1. rules.time > 0 /\ ~golden => /\ inInjury' => Extra'
                                     /\ ~inInjury' => Regular'
    BY <1>15, PlayClockBalance
  <2> QED
    BY <1>15, <2>1 DEF RegularTime, FullTime
<1>16. CASE StepPlay
  BY <1>3, <1>15, <1>16 DEF StepPlay
<1>17. ASSUME NEW s \in Side, StepGoal(s) PROVE Kept
  <2>1. phase = "play" /\ PlayClock /\ rules' = rules /\ (~golden' => ~golden)
    BY <1>17 DEF StepGoal
  <2>2. phase' = "end" <=> reason' # "none"
    BY <1>3, <1>17, <2>1 DEF StepGoal, Finish, Concede
  <2>3. reason' \notin {"time", "blows"}
    BY <1>3, <1>17, <2>1 DEF StepGoal, Finish
  <2> QED
    BY <1>15, <2>1, <2>2, <2>3
<1>18. CASE UNCHANGED vars
  BY <1>3, <1>4, <1>18 DEF vars, ClockInv, RegularTime, FullTime
<1> QED
  BY <1>7, <1>8, <1>9, <1>10, <1>11, <1>12, <1>13, <1>14, <1>16, <1>17, <1>18 DEF Next, Step

(* Regular time is accounted for step by step, and a match the clock        *)
(* decided was played for the time of the rules, to half a second.          *)
THEOREM ClockCorrect == Spec => [](RegularTime /\ FullTime)
<1>1. Init => ClockInv
  BY ClockInit
<1>2. ClockInv /\ [Next]_vars => ClockInv'
  BY ClockStep
<1>3. ClockInv => RegularTime /\ FullTime
  BY DEF ClockInv
<1> QED
  BY <1>1, <1>2, <1>3, PTL DEF Spec

(* Until regular time is over, no step is counted twice or lost. *)
THEOREM RegularTimeCorrect == Spec => []RegularTime
  BY ClockCorrect, PTL

-----------------------------------------------------------------------------
(* Kick-off.  The right to it is kept in kickSide outside play and in      *)
(* kicker during play, and the ball is at rest whenever play begins.       *)
KickInv ==
    /\ TypeOK
    /\ phase \in {"ready", "goal"} => ~moving
    /\ phase # "play" => blows = {}
    /\ phase = "play" => kickSide = NoSide
    /\ phase \in {"ready", "goal", "pause"} => kicker = NoSide
    /\ KickerFirst
    /\ KickOffRight

(* A new match waits for its first kick-off at rest. *)
LEMMA KickInit == Init => KickInv
<1> SUFFICES ASSUME Init PROVE KickInv
  OBVIOUS
<1>1. TypeOK
  BY TypeInit
<1>2. score[0] = 0 /\ score[1] = 0
  BY Sides DEF Init
<1>3. Conceder = firstKick
  BY <1>2 DEF Conceder, NoGoalYet
<1> QED
  BY <1>1, <1>3 DEF Init, KickInv, KickerFirst, KickOffRight

(* Every handler and every tick keeps the right to kick off. *)
LEMMA KickStep == KickInv /\ [Next]_vars => KickInv'
<1> SUFFICES ASSUME KickInv, [Next]_vars PROVE KickInv'
  OBVIOUS
<1>1. TypeOK /\ TypeOK'
  BY TypeStep DEF KickInv
<1>2. ASSUME score' = score, scorer' = scorer, firstKick' = firstKick
      PROVE  Conceder' = Conceder
  BY <1>2 DEF Conceder, NoGoalYet
<1> USE DEF clockVars, resultVars, kickVars, KickInv, KickerFirst, KickOffRight, Rolls
<1>3. ASSUME NEW s \in Side, Blow(s) PROVE KickInv'
  BY <1>1, <1>2, <1>3, Sides DEF Blow, TypeOK
<1>4. ASSUME NEW s \in Side, Miss(s) PROVE KickInv'
  BY <1>1, <1>2, <1>4 DEF Miss
<1>5. ASSUME NEW s \in Side, Forfeit(s) PROVE KickInv'
  BY <1>1, <1>2, <1>5 DEF Forfeit, Finish
<1>6. CASE Pause
  <2>1. Conceder' = Conceder
    BY <1>2, <1>6 DEF Pause
  <2>2. kicker' = NoSide /\ kickSide' \in {NoSide, Conceder}
    BY <1>1, <1>6 DEF Pause, KeepKick, TypeOK
  <2>3. blows' = {} /\ phase' = "pause"
    BY <1>6 DEF Pause, CentreBall
  <2> QED
    BY <1>1, <2>1, <2>2, <2>3
<1>7. CASE Unpause
  BY <1>1, <1>2, <1>7 DEF Unpause
<1>8. CASE StepPause
  BY <1>1, <1>2, <1>8 DEF StepPause
<1>9. CASE StepCountdown
  <2>1. Conceder' = Conceder /\ ~moving' /\ blows' = {}
    BY <1>2, <1>9 DEF StepCountdown
  <2>2. \/ phase' = phase /\ UNCHANGED kickVars
        \/ phase' = "play" /\ kicker' = kickSide /\ kickLeft' = KickoffWait /\ kickSide' = NoSide
    BY <1>9 DEF StepCountdown
  <2> QED
    BY <1>1, <1>9, <2>1, <2>2, Durations DEF StepCountdown
<1>10. ASSUME phase = "play", AwaitKick
       PROVE  /\ kicker' \in {NoSide, kicker}
              /\ kicker' # NoSide => kickLeft' > 0
  BY <1>1, <1>10 DEF AwaitKick, TypeOK
<1>11. CASE StepTimeUp
  <2>1. Conceder' = Conceder /\ phase = "play" /\ phase' = "end" /\ blows' = {}
    BY <1>2, <1>11 DEF StepTimeUp, TimeVerdict, Finish
  <2> QED
    BY <1>1, <1>10, <1>11, <2>1 DEF StepTimeUp
<1>12. CASE StepPlay
  <2>1. Conceder' = Conceder /\ phase = "play" /\ phase' = "play" /\ kickSide' = kickSide
    BY <1>2, <1>12 DEF StepPlay
  <2>2. ~Rolls => ~moving' /\ blows' = {}
    BY <1>12 DEF StepPlay
  <2> QED
    BY <1>1, <1>10, <1>12, <2>1, <2>2 DEF StepPlay
<1>13. ASSUME NEW s \in Side, StepGoal(s) PROVE KickInv'
  <2>1. phase = "play" /\ kicker = NoSide /\ kickSide = NoSide /\ kicker' = NoSide
    BY <1>10, <1>13 DEF StepGoal
  <2>2. score'[s] > 0 /\ score'[1 - s] >= 0 /\ score'[0] \in Nat /\ score'[1] \in Nat
    BY <1>1, <1>13, Sides DEF StepGoal, TypeOK
  <2>3. score'[0] + score'[1] # 0
    BY <2>2 DEF Side
  <2>4. Conceder' = 1 - s
    BY <1>13, <2>3 DEF StepGoal, Conceder, NoGoalYet
  <2>5. CASE phase' = "end"
    BY <1>1, <1>13, <2>1, <2>4, <2>5 DEF StepGoal, Concede, Finish
  <2>6. CASE phase' = "goal"
    BY <1>1, <1>13, <2>1, <2>4, <2>6 DEF StepGoal, Concede, CentreBall, Finish
  <2> QED
    BY <1>13, <2>5, <2>6 DEF StepGoal, Concede, Finish
<1>14. CASE UNCHANGED vars
  BY <1>1, <1>2, <1>14 DEF vars, ballVars
<1> QED
  BY <1>3, <1>4, <1>5, <1>6, <1>7, <1>8, <1>9, <1>11, <1>12, <1>13, <1>14 DEF Next, Step

(* Nothing moves before the kick-off has been taken or has lapsed, and it   *)
(* belongs to the side that conceded the last goal.                         *)
THEOREM KickOffCorrect == Spec => [](KickerFirst /\ KickOffRight)
<1>1. Init => KickInv
  BY KickInit
<1>2. KickInv /\ [Next]_vars => KickInv'
  BY KickStep
<1>3. KickInv => KickerFirst /\ KickOffRight
  BY DEF KickInv
<1> QED
  BY <1>1, <1>2, <1>3, PTL DEF Spec

(* A disconnection, a countdown or a goal never takes the kick-off from the *)
(* side it belongs to.                                                      *)
THEOREM KickRightCorrect == Spec => KickRightKept
<1> DEFINE A == \A s \in Side : s \in {kickSide, kicker} /\ s \notin {kickSide', kicker'}
                  => nBlows'[s] > nBlows[s] \/ (kicker = s /\ kickLeft <= 1)
<1>1. KickInv /\ [Next]_vars => A
  <2> SUFFICES ASSUME KickInv, [Next]_vars, NEW t \in Side, t \in {kickSide, kicker},
                      t \notin {kickSide', kicker'}
               PROVE  nBlows'[t] > nBlows[t] \/ (kicker = t /\ kickLeft <= 1)
    OBVIOUS
  <2> USE Sides DEF KickInv, clockVars, resultVars, kickVars
  <2>1. ASSUME NEW s \in Side, Blow(s) PROVE nBlows'[t] > nBlows[t]
    BY <2>1 DEF Blow, TypeOK
  <2>2. ASSUME NEW s \in Side, Miss(s) \/ Forfeit(s) PROVE FALSE
    BY <2>2 DEF Miss, Forfeit
  <2>3. CASE Pause
    BY <2>3 DEF Pause, KeepKick
  <2>4. CASE Unpause \/ StepPause
    BY <2>4 DEF Unpause, StepPause
  <2>5. CASE StepCountdown
    BY <2>5 DEF StepCountdown
  <2>6. CASE StepTimeUp \/ StepPlay
    BY <2>6 DEF StepTimeUp, StepPlay, AwaitKick
  <2>7. ASSUME NEW s \in Side, StepGoal(s) PROVE FALSE
    BY <2>7 DEF StepGoal, KickerFirst
  <2>8. CASE UNCHANGED vars
    BY <2>8 DEF vars
  <2> QED
    BY <2>1, <2>2, <2>3, <2>4, <2>5, <2>6, <2>7, <2>8 DEF Next, Step
<1>2. Init => KickInv
  BY KickInit
<1>3. KickInv /\ [Next]_vars => KickInv'
  BY KickStep
<1>4. KickInv /\ [Next]_vars => [A]_vars
  BY <1>1
<1> QED
  BY <1>2, <1>3, <1>4, PTL DEF Spec, KickRightKept

-----------------------------------------------------------------------------
(* Winds.  A wind still acting is never spent, so it is covered by the rest *)
(* of its side and a second one cannot join it.                             *)
WindInv ==
    /\ TypeOK
    /\ \A b \in blows : b.left > 0
    /\ OneWind
    /\ BoundedRest

(* A new match has no wind and nobody rests. *)
LEMMA WindInit == Init => WindInv
<1> SUFFICES ASSUME Init PROVE WindInv
  OBVIOUS
<1>1. TypeOK
  BY TypeInit
<1> QED
  BY <1>1, Durations DEF Init, WindInv, OneWind, BoundedRest

(* Every handler and every tick keeps winds covered by rests. *)
LEMMA WindStep == WindInv /\ [Next]_vars => WindInv'
<1> SUFFICES ASSUME WindInv, [Next]_vars PROVE WindInv'
  OBVIOUS
<1>1. TypeOK /\ TypeOK'
  BY TypeStep DEF WindInv
<1> USE Durations DEF clockVars, resultVars, kickVars, WindInv, OneWind, BoundedRest
<1>2. ASSUME blows' = {}, BoundedRest' PROVE WindInv'
  BY <1>1, <1>2
<1>3. Rest => BoundedRest'
  BY <1>1 DEF Rest, Monus, TypeOK
<1>4. ASSUME NEW s \in Side, Blow(s) PROVE WindInv'
  <2>1. \A b \in blows : b.side # s
    BY <1>1, <1>4 DEF Blow, TypeOK
  <2>2. DEFINE n == [side |-> s, nth |-> nBlows[s], left |-> BlowDur]
  <2>3. blows' = blows \cup {n} /\ n.side = s /\ n.left = BlowDur /\ phase' = "play"
    BY <1>4 DEF Blow
  <2>4. cd'[s] = Cooldown /\ \A t \in Side : t # s => cd'[t] = cd[t]
    BY <1>1, <1>4 DEF Blow, TypeOK
  <2> HIDE DEF n
  <2>5. \A b \in blows : cd'[b.side] = cd[b.side]
    BY <1>1, <2>1, <2>4 DEF TypeOK
  <2>6. BoundedRest'
    BY <1>1, <2>4
  <2> QED
    BY <1>1, <2>1, <2>3, <2>4, <2>5, <2>6
<1>5. ASSUME NEW s \in Side, Miss(s) PROVE WindInv'
  <2>1. /\ \A t \in Side : cd'[t] >= cd[t] /\ cd'[t] <= MaxCooldown
        /\ blows' = blows /\ phase' = phase
    BY <1>1, <1>5 DEF Miss, Least, Monus, TypeOK
  <2>2. \A b \in blows : b.side \in Side /\ b.left \in Nat
    BY <1>1 DEF TypeOK
  <2> QED
    BY <1>1, <2>1, <2>2 DEF TypeOK
<1>6. ASSUME NEW s \in Side, Forfeit(s) PROVE WindInv'
  BY <1>2, <1>6 DEF Forfeit, Finish
<1>7. CASE Pause
  <2>1. blows' = {} /\ (cd' = cd \/ cd' = [s \in Side |-> 0])
    BY <1>7 DEF Pause, CentreBall
  <2> QED
    BY <1>2, <2>1
<1>8. CASE Unpause
  BY <1>1, <1>8 DEF Unpause
<1>9. CASE StepPause
  BY <1>1, <1>2, <1>3, <1>9 DEF StepPause
<1>10. CASE StepCountdown
  <2>1. blows' = {}
    BY <1>10 DEF StepCountdown
  <2>2. BoundedRest'
    BY <1>3, <1>10 DEF StepCountdown
  <2> QED
    BY <1>2, <2>1, <2>2
<1>11. CASE StepTimeUp
  BY <1>2, <1>3, <1>11 DEF StepTimeUp, TimeVerdict, Finish
<1>12. CASE StepPlay
  <2> DEFINE Older(a) == [a EXCEPT !.left = @ - 1]
  <2>1. \A b \in blows' : \E a \in blows : a.left > 1 /\ b = Older(a)
    BY <1>12 DEF StepPlay
  <2>2. \A a \in blows : /\ a.side \in Side /\ a.left \in Nat /\ cd[a.side] \in Nat
                         /\ Older(a).side = a.side /\ Older(a).left = a.left - 1
    BY <1>1 DEF TypeOK
  <2>3. \A t \in Side : cd'[t] = Monus(cd[t], 1)
    BY <1>12 DEF StepPlay, Rest
  <2> HIDE DEF Older
  <2>4. ASSUME NEW b \in blows'
        PROVE  /\ b.left > 0 /\ b.left + Cooldown - BlowDur <= cd'[b.side]
    <3>1. PICK a \in blows : a.left > 1 /\ b = Older(a)
      BY <2>1
    <3>2. b.side = a.side /\ b.left = a.left - 1 /\ a.left \in Nat /\ a.side \in Side
      BY <2>2, <3>1
    <3>3. cd'[b.side] = Monus(cd[a.side], 1) /\ cd[a.side] \in Nat
      BY <2>2, <2>3, <3>2
    <3>4. a.left + Cooldown - BlowDur <= cd[a.side]
      OBVIOUS
    <3> QED
      BY <3>1, <3>2, <3>3, <3>4 DEF Monus
  <2>5. ASSUME NEW b \in blows', NEW c \in blows', b.side = c.side PROVE b = c
    <3>1. PICK a \in blows : b = Older(a)
      BY <2>1
    <3>2. PICK d \in blows : c = Older(d)
      BY <2>1
    <3>3. a.side = d.side
      BY <2>2, <2>5, <3>1, <3>2
    <3> QED
      BY <3>1, <3>2, <3>3
  <2> QED
    BY <1>1, <1>3, <1>12, <2>4, <2>5 DEF StepPlay
<1>13. ASSUME NEW s \in Side, StepGoal(s) PROVE WindInv'
  <2>1. blows' = {} /\ (Rest \/ cd' = [t \in Side |-> 0])
    BY <1>13 DEF StepGoal, Concede, CentreBall, Finish
  <2> QED
    BY <1>2, <1>3, <2>1
<1>14. CASE UNCHANGED vars
  BY <1>1, <1>14 DEF vars, ballVars
<1> QED
  BY <1>4, <1>5, <1>6, <1>7, <1>8, <1>9, <1>10, <1>11, <1>12, <1>13, <1>14 DEF Next, Step

(* At most one wind of a side acts on the ball, only during play, and no    *)
(* number of misses makes a rest longer than its maximum.                   *)
THEOREM WindCorrect == Spec => [](OneWind /\ BoundedRest)
<1>1. Init => WindInv
  BY WindInit
<1>2. WindInv /\ [Next]_vars => WindInv'
  BY WindStep
<1>3. WindInv => OneWind /\ BoundedRest
  BY DEF WindInv
<1> QED
  BY <1>1, <1>2, <1>3, PTL DEF Spec

-----------------------------------------------------------------------------
(* Verdict.  Before the end nobody has reached the goals of the rules, and  *)
(* a golden goal is played only while the score is level.                   *)
VerdictInv ==
    /\ TypeOK
    /\ phase # "end" => winner = NoSide /\ reason = "none"
    /\ phase # "end" /\ rules.goals > 0 => \A s \in Side : score[s] < rules.goals
    /\ golden => rules.goldenGoal
    /\ golden /\ phase # "end" => score[0] = score[1]
    /\ VerdictJustified

(* Who leads a score. *)
LEMMA LeaderIs ==
    ASSUME NEW sc \in [Side -> Nat], NEW s \in Side, sc[s] > sc[1 - s]
    PROVE  Leader(sc) = s
<1>1. CASE s = 0
  BY <1>1 DEF Leader
<1>2. CASE s = 1
  BY <1>2 DEF Leader, Side
<1> QED
  BY <1>1, <1>2 DEF Side

(* Nobody leads exactly when the score is level. *)
LEMMA LeaderLevel ==
    ASSUME NEW sc \in [Side -> Nat]
    PROVE  Leader(sc) = NoSide <=> sc[0] = sc[1]
BY DEF Leader, Side, NoSide

(* A new match has no verdict. *)
LEMMA VerdictInit == Init => VerdictInv
<1> SUFFICES ASSUME Init PROVE VerdictInv
  OBVIOUS
<1>1. TypeOK
  BY TypeInit
<1>2. /\ phase = "ready" /\ winner = NoSide /\ reason = "none" /\ ~golden
      /\ \A s \in Side : score[s] = 0
  BY DEF Init
<1> QED
  BY <1>1, <1>2 DEF VerdictInv, VerdictJustified

(* Every handler and every tick keeps the verdict justified. *)
LEMMA VerdictStep == VerdictInv /\ [Next]_vars => VerdictInv'
<1> SUFFICES ASSUME VerdictInv, [Next]_vars PROVE VerdictInv'
  OBVIOUS
<1>1. TypeOK /\ TypeOK'
  BY TypeStep DEF VerdictInv
<1>2. /\ rules.goals \in Nat /\ score \in [Side -> Nat] /\ nBlows \in [Side -> Nat]
      /\ score[0] \in Nat /\ score[1] \in Nat /\ golden \in BOOLEAN
  BY <1>1, RulesType, Sides DEF TypeOK
<1> USE DEF clockVars, resultVars, kickVars
(* Whatever goes on without a goal or a verdict keeps the invariant. *)
<1>3. ASSUME phase # "end", phase' # "end",
             UNCHANGED <<rules, score, resultVars>>, golden' => golden \/ GoesGolden
      PROVE  VerdictInv'
  <2>1. golden' => rules.goldenGoal /\ score[0] = score[1]
    BY <1>3 DEF VerdictInv, GoesGolden, Level
  <2>2. winner' = NoSide /\ reason' = "none"
    BY <1>3 DEF VerdictInv
  <2> QED
    BY <1>1, <1>3, <2>1, <2>2 DEF VerdictInv, VerdictJustified
<1>4. ASSUME NEW s \in Side, Blow(s) PROVE VerdictInv'
  BY <1>3, <1>4 DEF Blow
<1>5. ASSUME NEW s \in Side, Miss(s) PROVE VerdictInv'
  BY <1>3, <1>5 DEF Miss
<1>6. ASSUME NEW s \in Side, Forfeit(s) PROVE VerdictInv'
  BY <1>1, <1>6, Sides DEF Forfeit, Finish, VerdictInv, VerdictJustified
<1>7. CASE Pause
  BY <1>3, <1>7 DEF Pause
<1>8. CASE Unpause
  BY <1>3, <1>8 DEF Unpause
<1>9. CASE StepPause
  BY <1>3, <1>9 DEF StepPause
<1>10. CASE StepCountdown
  BY <1>3, <1>10 DEF StepCountdown, StoppedClock
<1>11. CASE StepTimeUp
  <2>1. /\ phase # "end" /\ phase' = "end" /\ golden' = golden
        /\ rules' = rules /\ score' = score /\ nBlows' = nBlows
        /\ rules.time > 0 /\ ~golden /\ ~GoesGolden /\ TimeUp /\ TimeVerdict
    BY <1>11 DEF StepTimeUp, TimeVerdict, Finish, TimeUp, Timed
  <2>2. CASE score[0] # score[1]
    <3>1. reason' = "time" /\ winner' = Leader(score)
      BY <2>1, <2>2 DEF TimeVerdict, Finish
    <3>2. Leader(score) # NoSide
      BY <1>2, <2>2, LeaderLevel
    <3> QED
      BY <1>1, <2>1, <3>1, <3>2 DEF VerdictInv, VerdictJustified
  <2>3. CASE score[0] = score[1] /\ nBlows[0] # nBlows[1]
    <3>1. reason' = "blows" /\ winner' = IF nBlows[1] < nBlows[0] THEN 1 ELSE 0
      BY <2>1, <2>3 DEF TimeVerdict, Finish
    <3>2. winner' \in Side /\ nBlows[winner'] < nBlows[1 - winner']
          /\ score[winner'] = score[1 - winner']
      BY <1>2, <2>3, <3>1, Sides
    <3> QED
      BY <1>1, <2>1, <3>1, <3>2 DEF VerdictInv, VerdictJustified
  <2>4. CASE score[0] = score[1] /\ nBlows[0] = nBlows[1]
    <3>1. reason' = "time" /\ winner' = NoSide
      BY <2>1, <2>4 DEF TimeVerdict, Finish
    <3>2. Leader(score) = NoSide
      BY <1>2, <2>4, LeaderLevel
    <3>3. Level /\ Level' /\ ~rules.goldenGoal
      BY <2>1, <2>4 DEF GoesGolden, Level
    <3> QED
      BY <1>1, <2>1, <3>1, <3>2, <3>3 DEF VerdictInv, VerdictJustified
  <2> QED
    BY <2>2, <2>3, <2>4
<1>12. CASE StepPlay
  BY <1>3, <1>12 DEF StepPlay
<1>13. ASSUME NEW s \in Side, StepGoal(s) PROVE VerdictInv'
  <2> DEFINE sc == [score EXCEPT ![s] = @ + 1]
  <2>1. /\ phase = "play" /\ rules' = rules /\ score' = sc /\ sc \in [Side -> Nat]
        /\ golden' = (golden \/ GoesGolden)
    BY <1>2, <1>13 DEF StepGoal
  <2>2. sc[s] = score[s] + 1 /\ sc[1 - s] = score[1 - s]
        /\ score[s] \in Nat /\ score[1 - s] \in Nat
    BY <1>2, Sides
  <2>3. golden' => rules.goldenGoal /\ score[s] = score[1 - s]
    BY <2>1, Sides DEF VerdictInv, GoesGolden, Level, Side
  <2>4. rules.goals > 0 => score[s] < rules.goals /\ score[1 - s] < rules.goals
    BY <2>1, Sides DEF VerdictInv
  <2> HIDE DEF sc
  <2>5. CASE /\ golden' \/ (rules.goals > 0 /\ sc[s] >= rules.goals)
             /\ Finish(IF golden' THEN "golden" ELSE "goals", Leader(sc))
    <3>1. sc[s] > sc[1 - s] /\ (~golden' => sc[s] = rules.goals /\ sc[1 - s] < rules.goals)
      BY <1>2, <2>2, <2>3, <2>4, <2>5
    <3>2. Leader(sc) = s
      BY <2>1, <3>1, LeaderIs
    <3>3. phase' = "end" /\ winner' = s
          /\ reason' = (IF golden' THEN "golden" ELSE "goals")
      BY <2>5, <3>2 DEF Finish
    <3>4. golden' => rules.goldenGoal /\ sc[s] = sc[1 - s] + 1
      BY <2>2, <2>3
    <3> QED
      BY <1>1, <2>1, <3>1, <3>3, <3>4 DEF VerdictInv, VerdictJustified
  <2>6. CASE /\ ~golden' /\ (rules.goals > 0 => sc[s] < rules.goals)
             /\ Concede(s) /\ UNCHANGED resultVars
    <3>1. phase' = "goal" /\ winner' = NoSide /\ reason' = "none"
      BY <2>1, <2>6 DEF Concede, VerdictInv
    <3>2. rules.goals > 0 => \A t \in Side : sc[t] < rules.goals
      BY <2>2, <2>4, <2>6 DEF Side
    <3> QED
      BY <1>1, <2>1, <2>6, <3>1, <3>2 DEF VerdictInv, VerdictJustified
  <2> QED
    BY <1>13, <2>5, <2>6 DEF StepGoal, sc
<1>14. CASE UNCHANGED vars
  BY <1>1, <1>14 DEF vars, VerdictInv, VerdictJustified, Level
<1> QED
  BY <1>4, <1>5, <1>6, <1>7, <1>8, <1>9, <1>10, <1>11, <1>12, <1>13, <1>14 DEF Next, Step

(* The verdict of every match agrees with its score, its winds and its      *)
(* rules; a match with golden goal never ends level.                        *)
THEOREM VerdictCorrect == Spec => []VerdictJustified
<1>1. Init => VerdictInv
  BY VerdictInit
<1>2. VerdictInv /\ [Next]_vars => VerdictInv'
  BY VerdictStep
<1>3. VerdictInv => VerdictJustified
  BY DEF VerdictInv
<1> QED
  BY <1>1, <1>2, <1>3, PTL DEF Spec

(* Nothing that arrives after the end changes the verdict: neither a blow,  *)
(* nor a student leaving or losing the connection, nor a tick.              *)
THEOREM VerdictStays == Spec => VerdictFinal
<1> DEFINE A == phase = "end" => UNCHANGED <<phase, winner, reason, score, nBlows>>
<1>1. [Next]_vars => [A]_vars
  <2> SUFFICES ASSUME [Next]_vars, phase = "end"
               PROVE  UNCHANGED <<phase, winner, reason, score, nBlows>>
    OBVIOUS
  <2>1. ASSUME NEW s \in Side PROVE ~Blow(s) /\ ~Miss(s) /\ ~Forfeit(s) /\ ~StepGoal(s)
    BY DEF Blow, Miss, Forfeit, StepGoal
  <2>2. ~Pause /\ ~Unpause /\ ~StepPause /\ ~StepCountdown /\ ~StepTimeUp /\ ~StepPlay
    BY DEF Pause, Unpause, StepPause, StepCountdown, StepTimeUp, StepPlay
  <2> QED
    BY <2>1, <2>2 DEF Next, Step, vars, resultVars
<1> QED
  BY <1>1, PTL DEF Spec, VerdictFinal
=============================================================================
