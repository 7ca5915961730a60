SPECIFICATION Spec
CONSTANTS
    RuleSet <- MCRules
    ReadyDur = 2
    GoalPause = 1
    KickoffWait = 2
    BlowDur = 2
    Cooldown = 3
    MissPenalty = 2
    MaxCooldown = 4
    Second = 3
    BlowCap = 2
    ScoreCap = 2
    PlayedCap = 7
    InjuryCap = 2
    WaitCap = 1
CHECK_DEADLOCK FALSE
INVARIANT RegularTime
INVARIANT FullTime
INVARIANT OneWind
INVARIANT KickOffRight
INVARIANT VerdictJustified
PROPERTY VerdictFinal
PROPERTY KickRightKept
