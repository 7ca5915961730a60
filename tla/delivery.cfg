SPECIFICATION FairSpec
CONSTANTS
    Cap = 2
    MatchCap = 2
    VerCap = 1
CHECK_DEADLOCK FALSE
INVARIANT TypeOK
INVARIANT InStep
PROPERTY NeverBack
PROPERTY CatchesUp
