SPECIFICATION Spec
CONSTANTS
    Fixture = {f1, f2}
    Result = {r1, r2}
    CompCap = 2
    Seconds = {0, 1}
SYMMETRY Symmetry
CHECK_DEADLOCK FALSE
INVARIANT TypeOK
INVARIANT Recovers
INVARIANT ResultOnFile
INVARIANT ListFaithful
