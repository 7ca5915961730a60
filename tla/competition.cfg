SPECIFICATION Spec
CONSTANTS
    Counts = {2, 3, 4, 5}
    Leagues <- MCLeagues
    Goals = {0, 1, 2}
    PlayCap = 3
    DecideCap = 4
INVARIANT TypeOK
INVARIANT Fed
INVARIANT Knockout
INVARIANT NotStuck
INVARIANT DiskCurrent
INVARIANT RoundRobin
INVARIANT RanksFair
PROPERTY ResultStands
