SPECIFICATION Spec
CONSTANTS
    None = None
    k1 = k1
    k2 = k2
    Conn = {c1, c2, c3}
    Token = {t1, t2}
    Key = {k1, k2}
    Pid = {p1, p2, p3}
    Mid = {m1, m2}
    Code = {r1}
    Fixture = {f1, f2}
    FxA <- MCFxA
    FxB <- MCFxB
SYMMETRY Symmetry
INVARIANT FixturePlaying
PROPERTY NotPulledAway
PROPERTY RecordOnlyPlayed
