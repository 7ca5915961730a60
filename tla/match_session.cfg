SPECIFICATION FairSessionSpec
CONSTANTS
    RuleSet <- MCSessionRules
    ReadyDur = 1
    GoalPause = 1
    KickoffWait = 1
    BlowDur = 1
    Cooldown = 2
    MissPenalty = 1
    MaxCooldown = 2
    Second = 3
    BlowCap = 1
    ScoreCap = 1
    PlayedCap = 5
    InjuryCap = 1
    BothGoneWait = 2
    WaitCap = 3
CHECK_DEADLOCK FALSE
INVARIANT OnceRecorded
PROPERTY LifeKept
PROPERTY StoppedWhileAway
PROPERTY AbandonedDropped
PROPERTY TimedMatchEnds
PROPERTY KickOffLapses
