SPECIFICATION Spec
CONSTANTS
    None = None
    k1 = k1
    k2 = k2
    Conn = {c1, c2, c3, c4}
    Token = {t1, t2, t3}
    Key = {k1}
    Pid = {p1, p2}
    Mid = {m1}
    Code = {}
    Fixture = {}
    FxA <- MCFxA
    FxB <- MCFxB
SYMMETRY Symmetry
INVARIANT NoCrashInMatch
