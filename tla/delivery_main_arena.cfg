SPECIFICATION Spec
CONSTANTS
    Cap = 3
    MatchCap = 2
    VerCap = 1
CHECK_DEADLOCK FALSE
PROPERTY MainArenaLeftAlone
