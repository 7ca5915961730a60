------------------------------- MODULE Match -------------------------------
(***************************************************************************)
(* The rules of one match (match.go): clock and injury time, kick-off      *)
(* rights, cooldowns, goals, verdicts, and the pause while a student is    *)
(* disconnected.  Every method runs in the hub goroutine.                  *)
(*                                                                         *)
(* One unit of time is one step of the simulation; the durations of the    *)
(* program are whole numbers of steps.  Where the ball is stays open: a    *)
(* step may put it into either goal whenever it moves or is being blown,   *)
(* and never otherwise (physics, collide).                                 *)
(***************************************************************************)
EXTENDS Integers

CONSTANTS
    RuleSet,      \* the rules a match may have: [time, goals, goldenGoal]
    ReadyDur, GoalPause, KickoffWait, BlowDur,
    Cooldown, MissPenalty, MaxCooldown,
    Second,       \* steps per second: injury time is shown in whole seconds
    BlowCap,      \* bound: winds blown by one side
    ScoreCap,     \* bound: goals of one side
    PlayedCap,    \* bound: steps of play
    InjuryCap,    \* bound: stopped time after which no connection is lost any more
    WaitCap       \* bound: the time waited in a pause is counted up to here

Side   == {0, 1}
NoSide == -1

(* Rules.valid: a match needs a time or a number of goals to end. *)
Rules == {r \in [time : Nat, goals : Nat, goldenGoal : BOOLEAN] : r.time > 0 \/ r.goals > 0}

ASSUME MatchAssumption ==
    /\ RuleSet \subseteq Rules
    /\ {ReadyDur, GoalPause, KickoffWait, BlowDur, Cooldown, MissPenalty, Second}
         \subseteq Nat \ {0}
    /\ MaxCooldown \in Nat /\ Cooldown <= MaxCooldown
    /\ BlowDur < Cooldown
    /\ {BlowCap, ScoreCap, PlayedCap, InjuryCap, WaitCap} \subseteq Nat

VARIABLES
    rules,      \* fixed when the match starts
    firstKick,  \* the side that kicks off first, NoSide for none
    phase,      \* "ready", "play", "goal", "pause", "end"
    phaseLeft,  \* time left in ready and goal, time waited in pause
    moving,     \* the ball has a velocity
    blows,      \* winds acting on the ball, the nth of its side, and their steps left
    score, scorer,
    nBlows,     \* winds blown
    cd,         \* cooldownLeft
    playLeft, played,
    injury, inInjury, golden,
    winner, reason,    \* reason "none" is the empty string
    kickSide,   \* who kicks off next
    kicker, kickLeft,  \* whose kick-off is still awaited, and for how long
    lost        \* history: steps the clock ran while injury time was stopped

clockVars == <<playLeft, played, injury, inInjury, golden, lost>>
kickVars  == <<kickSide, kicker, kickLeft>>
ballVars  == <<moving, blows, cd>>
resultVars == <<winner, reason>>
vars == <<rules, firstKick, phase, phaseLeft, ballVars, score, scorer, nBlows,
          clockVars, resultVars, kickVars>>

Reasons == {"none", "time", "goals", "blows", "golden", "forfeit"}

TypeOK ==
    /\ rules \in RuleSet
    /\ firstKick \in Side \cup {NoSide}
    /\ phase \in {"ready", "play", "goal", "pause", "end"}
    /\ phaseLeft \in Nat
    /\ moving \in BOOLEAN
    /\ blows \subseteq [side : Side, nth : Nat, left : Nat]
    /\ score \in [Side -> Nat] /\ scorer \in Side
    /\ nBlows \in [Side -> Nat]
    /\ cd \in [Side -> Nat]
    /\ playLeft \in Nat /\ played \in Nat /\ injury \in Nat /\ lost \in Nat
    /\ inInjury \in BOOLEAN /\ golden \in BOOLEAN
    /\ winner \in Side \cup {NoSide} /\ reason \in Reasons
    /\ kickSide \in Side \cup {NoSide} /\ kicker \in Side \cup {NoSide}
    /\ kickLeft \in Int

(* newMatch *)
Init ==
    /\ rules \in RuleSet /\ firstKick \in Side \cup {NoSide}
    /\ phase = "ready" /\ phaseLeft = ReadyDur
    /\ moving = FALSE /\ blows = {} /\ cd = [s \in Side |-> 0]
    /\ score = [s \in Side |-> 0] /\ scorer = 0 /\ nBlows = [s \in Side |-> 0]
    /\ playLeft = rules.time /\ played = 0 /\ injury = 0 /\ lost = 0
    /\ inInjury = FALSE /\ golden = FALSE
    /\ winner = NoSide /\ reason = "none"
    /\ kickSide = firstKick /\ kicker = NoSide /\ kickLeft = 0

-----------------------------------------------------------------------------
Monus(a, b) == IF a > b THEN a - b ELSE 0
Least(a, b) == IF a < b THEN a ELSE b

(* Mutant: whole seconds only. *)
injuryWhole == (injury \div Second) * Second

(* The stopped time to the nearest second, a half up (Duration.Round). *)
injuryShown == ((2 * injury + Second) \div (2 * Second)) * Second

Timed == rules.time > 0 /\ ~golden

Leader(sc) == IF sc[0] > sc[1] THEN 0 ELSE IF sc[1] > sc[0] THEN 1 ELSE NoSide

(* kickoff: the ball rests on the centre spot, nobody is tired. *)
CentreBall ==
    /\ moving' = FALSE /\ blows' = {}
    /\ cd' = [s \in Side |-> 0]

(* Mutant: the hub and the match both advance the clock of the cooldowns. *)
RestTwice == cd' = [s \in Side |-> Monus(cd[s], 2)]

(* m.now advances in every phase, so a cooldown runs out in a pause too. *)
Rest == cd' = [s \in Side |-> Monus(cd[s], 1)]

(* finish *)
Finish(why, who) ==
    /\ phase' = "end" /\ reason' = why /\ winner' = who
    /\ blows' = {}

-----------------------------------------------------------------------------
(* Input of the students *)

(* applyBlow: the wind is let out.  The awaited kicker has kicked off. *)
Blow(s) ==
    /\ phase = "play" /\ kicker \in {NoSide, s} /\ cd[s] = 0
    /\ nBlows[s] < BlowCap
    /\ blows' = blows \cup {[side |-> s, nth |-> nBlows[s], left |-> BlowDur]}
    /\ cd' = [cd EXCEPT ![s] = Cooldown]
    /\ nBlows' = [nBlows EXCEPT ![s] = @ + 1]
    /\ kicker' = NoSide
    /\ UNCHANGED <<rules, firstKick, phase, phaseLeft, moving, score, scorer,
                   clockVars, resultVars, kickSide, kickLeft>>

(* applyBlow while still resting: the rest gets longer, up to MaxCooldown. *)
Miss(s) ==
    /\ phase = "play" /\ kicker \in {NoSide, s} /\ cd[s] > 0
    /\ cd' = [cd EXCEPT ![s] = @ + Least(MissPenalty, Monus(MaxCooldown, @))]
    /\ UNCHANGED <<rules, firstKick, phase, phaseLeft, moving, blows, score, scorer,
                   nBlows, clockVars, resultVars, kickVars>>

(* Mutant: leaving the end screen forfeits the match again. *)
ForfeitAgain(s) ==
    /\ Finish("forfeit", 1 - s)
    /\ UNCHANGED <<rules, firstKick, phaseLeft, moving, score, scorer, nBlows, cd,
                   clockVars, kickVars>>

(* forfeit *)
Forfeit(s) ==
    /\ phase # "end"
    /\ Finish("forfeit", 1 - s)
    /\ UNCHANGED <<rules, firstKick, phaseLeft, moving, score, scorer, nBlows, cd,
                   clockVars, kickVars>>

-----------------------------------------------------------------------------
(* Disconnection *)

(* Mutant: a pause forgets whose kick-off it is. *)
LoseKick == kicker' = NoSide /\ UNCHANGED kickSide

(* A kick-off still awaited becomes the next kick-off. *)
KeepKick ==
    IF phase = "play" THEN kickSide' = kicker /\ kicker' = NoSide
                      ELSE UNCHANGED <<kickSide, kicker>>

(* pauseForReconnect: the right to kick off that is still awaited is kept. *)
Pause ==
    /\ phase \notin {"end", "pause"}
    /\ injury <= InjuryCap
    /\ IF phase = "goal" THEN CentreBall ELSE blows' = {} /\ UNCHANGED <<moving, cd>>
    /\ KeepKick
    /\ phase' = "pause" /\ phaseLeft' = 0
    /\ UNCHANGED <<rules, firstKick, score, scorer, nBlows, clockVars, resultVars, kickLeft>>

(* unpause *)
Unpause ==
    /\ phase = "pause"
    /\ phase' = "ready" /\ phaseLeft' = ReadyDur /\ moving' = FALSE
    /\ UNCHANGED <<rules, firstKick, blows, cd, score, scorer, nBlows,
                   clockVars, resultVars, kickVars>>

-----------------------------------------------------------------------------
(* step *)

StepPause ==
    /\ phase = "pause"
    /\ phaseLeft' = Least(phaseLeft + 1, WaitCap)
    /\ Rest
    /\ UNCHANGED <<rules, firstKick, phase, moving, blows, score, scorer, nBlows,
                   clockVars, resultVars, kickVars>>

(* Mutant: a countdown after a reconnection is not made up for. *)
StoppedClockUnpaid ==
    LET runs == Timed /\ (phase = "goal" \/ played > 0) IN
    /\ playLeft' = IF runs THEN Monus(playLeft, 1) ELSE playLeft
    /\ injury' = IF Timed /\ phase = "goal" /\ ~inInjury THEN injury + 1 ELSE injury
    /\ lost' = IF runs /\ inInjury /\ playLeft > 0 THEN lost + 1 ELSE lost
    /\ UNCHANGED <<played, inInjury, golden>>

(* In a countdown the clock runs on, and what it loses becomes injury time; *)
(* it stands still before the first kick-off.                               *)
StoppedClock ==
    LET runs == Timed /\ (phase = "goal" \/ played > 0) IN
    /\ playLeft' = IF runs THEN Monus(playLeft, 1) ELSE playLeft
    /\ injury' = IF runs /\ ~inInjury THEN injury + 1 ELSE injury
    /\ lost' = IF runs /\ inInjury /\ playLeft > 0 THEN lost + 1 ELSE lost
    /\ UNCHANGED <<played, inInjury, golden>>

StepCountdown ==
    /\ phase \in {"ready", "goal"}
    /\ StoppedClock
    /\ phaseLeft' = Monus(phaseLeft, 1)
    /\ IF phaseLeft > 1
       THEN Rest /\ UNCHANGED <<phase, kickVars>>
       ELSE /\ phase' = "play" /\ cd' = [s \in Side |-> 0]
            /\ kicker' = kickSide /\ kickLeft' = KickoffWait /\ kickSide' = NoSide
    /\ UNCHANGED <<rules, firstKick, moving, blows, score, scorer, nBlows, resultVars>>

(* Mutant: the awaited kick-off never lapses. *)
AwaitKickForEver == UNCHANGED <<kicker, kickLeft>>

(* A kick-off that is not taken in time is free for both. *)
AwaitKick ==
    /\ kickLeft' = IF kicker # NoSide THEN kickLeft - 1 ELSE kickLeft
    /\ kicker' = IF kickLeft <= 1 THEN NoSide ELSE kicker

(* Mutant: injury time is followed by injury time. *)
ToInjuryAgain == Timed /\ playLeft <= 1 /\ injuryShown > 0

(* The clock of a step of play: regular time is followed by the injury time *)
(* shown, and then the time is up.                                          *)
ToInjury == Timed /\ playLeft <= 1 /\ ~inInjury /\ injuryShown > 0
TimeUp   == Timed /\ playLeft <= 1 /\ ~ToInjury

PlayClock ==
    /\ played' = played + 1
    /\ inInjury' = (inInjury \/ ToInjury)
    /\ playLeft' = IF ~Timed THEN playLeft
                   ELSE IF ToInjury THEN injuryShown ELSE Monus(playLeft, 1)
    /\ UNCHANGED <<injury, lost>>

(* Mutant: the side that blew more wins a level match. *)
TimeVerdictMoreWinds ==
    IF score[0] # score[1] THEN Finish("time", Leader(score))
    ELSE IF nBlows[0] # nBlows[1]
         THEN Finish("blows", IF nBlows[1] < nBlows[0] THEN 0 ELSE 1)
         ELSE Finish("time", NoSide)

(* What is decided when the time is up: the score, then the fewer winds,    *)
(* then a golden goal if the rules have one, or it is a draw.               *)
Level       == score[0] = score[1] /\ nBlows[0] = nBlows[1]
GoesGolden  == TimeUp /\ Level /\ rules.goldenGoal
TimeVerdict ==
    IF score[0] # score[1] THEN Finish("time", Leader(score))
    ELSE IF nBlows[0] # nBlows[1]
         THEN Finish("blows", IF nBlows[1] < nBlows[0] THEN 1 ELSE 0)
         ELSE Finish("time", NoSide)

(* A step of play in which the time runs out for good. *)
StepTimeUp ==
    /\ phase = "play" /\ played < PlayedCap
    /\ TimeUp /\ ~GoesGolden
    /\ AwaitKick /\ PlayClock /\ Rest
    /\ TimeVerdict
    /\ UNCHANGED <<rules, firstKick, phaseLeft, moving, score, scorer, nBlows, golden, kickSide>>

(* The ball can only get anywhere if it moves or somebody blows. *)
Rolls == moving \/ blows # {}

(* A step of play without a goal (physics): the winds get older. *)
StepPlay ==
    /\ phase = "play" /\ played < PlayedCap
    /\ TimeUp => GoesGolden
    /\ AwaitKick /\ PlayClock /\ Rest
    /\ golden' = (golden \/ GoesGolden)
    /\ moving' \in (IF Rolls THEN BOOLEAN ELSE {FALSE})
    /\ blows' = {[b EXCEPT !.left = @ - 1] : b \in {a \in blows : a.left > 1}}
    /\ UNCHANGED <<rules, firstKick, phase, phaseLeft, score, scorer, nBlows, resultVars, kickSide>>

(* Mutant: the scorer kicks off again. *)
ConcedeToScorer(s) ==
    /\ phase' = "goal" /\ phaseLeft' = GoalPause
    /\ CentreBall
    /\ kickSide' = s

(* goal: the side that conceded kicks off after the ceremony. *)
Concede(s) ==
    /\ phase' = "goal" /\ phaseLeft' = GoalPause
    /\ CentreBall
    /\ kickSide' = 1 - s

(* A step of play that ends with the ball in a goal (physics, goal). *)
StepGoal(s) ==
    LET sc == [score EXCEPT ![s] = @ + 1] IN
    /\ phase = "play" /\ played < PlayedCap
    /\ TimeUp => GoesGolden
    /\ Rolls /\ score[s] < ScoreCap
    /\ AwaitKick /\ PlayClock
    /\ golden' = (golden \/ GoesGolden)
    /\ score' = sc /\ scorer' = s
    /\ \/ /\ golden' \/ (rules.goals > 0 /\ sc[s] >= rules.goals)
          /\ Finish(IF golden' THEN "golden" ELSE "goals", Leader(sc))
          /\ moving' = TRUE /\ Rest
          /\ UNCHANGED <<phaseLeft, kickSide>>
       \/ /\ ~golden' /\ (rules.goals > 0 => sc[s] < rules.goals)
          /\ Concede(s) /\ UNCHANGED resultVars
    /\ UNCHANGED <<rules, firstKick, nBlows>>

Step == StepPause \/ StepCountdown \/ StepTimeUp \/ StepPlay \/ \E s \in Side : StepGoal(s)

Next ==
    \/ \E s \in Side : Blow(s) \/ Miss(s) \/ Forfeit(s)
    \/ Pause \/ Unpause
    \/ Step

Spec == Init /\ [][Next]_vars

-----------------------------------------------------------------------------
(* Clock *)

(* Until the regular time is over, what was played, what was stopped and    *)
(* what is left make up the time of the rules: no step is counted twice or  *)
(* lost, whichever of the countdowns, goals and pauses it falls into.       *)
RegularTime ==
    rules.time > 0 /\ ~golden /\ ~inInjury /\ reason \in {"none", "goals", "forfeit"} =>
        /\ played + injury + playLeft >= rules.time
        /\ playLeft > 0 => played + injury + playLeft = rules.time

(* A match the clock decided was played for the time of the rules, to half *)
(* a second, except for the stops during injury time itself.               *)
FullTime ==
    reason \in {"time", "blows"} => 2 * (played + lost) >= 2 * rules.time - Second

-----------------------------------------------------------------------------
(* Ball and kick-off *)

(* While a side is still to kick off, nothing moves: no goal can fall       *)
(* before the side with the right to it has blown or let it pass.           *)
KickerFirst == phase = "play" /\ kicker # NoSide => ~Rolls /\ kickLeft > 0

(* Winds act only during play, at most one of each side, and none of them  *)
(* outlives the rest its side must take.                                   *)
OneWind ==
    /\ blows # {} => phase = "play"
    /\ \A a, b \in blows : a.side = b.side => a = b
    /\ \A b \in blows : b.left + Cooldown - BlowDur <= cd[b.side]

(* Misses never add up to a rest longer than the maximum. *)
BoundedRest == \A s \in Side : cd[s] <= MaxCooldown

(* The right to kick off belongs to the side that conceded the last goal,  *)
(* at first to firstKick.                                                  *)
NoGoalYet    == score[0] + score[1] = 0
Conceder     == IF NoGoalYet THEN firstKick ELSE 1 - scorer
KickOffRight ==
    /\ kickSide \in {NoSide, Conceder} /\ kicker \in {NoSide, Conceder}
    /\ phase = "goal" => kickSide = Conceder
    /\ phase # "end" => kickSide = NoSide \/ kicker = NoSide

(* A side loses its right to kick off only by blowing or by letting the    *)
(* time for it pass: a disconnection, whenever it comes, keeps it.         *)
KickRightKept ==
    [][\A s \in Side : s \in {kickSide, kicker} /\ s \notin {kickSide', kicker'}
          => nBlows'[s] > nBlows[s] \/ (kicker = s /\ kickLeft <= 1)]_vars

-----------------------------------------------------------------------------
(* Verdict *)

(* The verdict agrees with the score, the winds and the rules, and a match *)
(* with golden goal never ends level.                                      *)
VerdictJustified ==
    LET w == winner  o == 1 - winner IN
    /\ phase = "end" <=> reason # "none"
    /\ reason = "none" => w = NoSide
    /\ reason = "time" => /\ rules.time > 0 /\ w = Leader(score)
                          /\ w = NoSide => Level /\ ~rules.goldenGoal
    /\ reason = "blows" => /\ rules.time > 0 /\ w \in Side
                           /\ score[w] = score[o] /\ nBlows[w] < nBlows[o]
    /\ reason = "goals" => w \in Side /\ score[w] = rules.goals /\ score[o] < rules.goals
    /\ reason = "golden" => w \in Side /\ rules.goldenGoal /\ score[w] = score[o] + 1
    /\ reason = "forfeit" => w \in Side

(* What a verdict says stays: an ended match ignores every late input, a    *)
(* lost connection and the ticks that still come.                           *)
VerdictFinal == [][phase = "end" => UNCHANGED <<phase, winner, reason, score, nBlows>>]_vars

=============================================================================
