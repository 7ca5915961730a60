SPECIFICATION Spec
CONSTANTS
    None = None
    k1 = k1
    k2 = k2
    Conn = {c1, c2, c3}
    Token = {t1, t2, t3}
    Key = {k1}
    Pid = {p1, p2, p3}
    Mid = {m1, m2}
    Code = {r1, r2}
    Fixture = {}
    FxA <- MCFxA
    FxB <- MCFxB
SYMMETRY Symmetry
INVARIANT TypeOK
INVARIANT SessionMaps
INVARIANT HeardOrClosed
INVARIANT PausedIffAway
INVARIANT RoomsLinked
INVARIANT InvitesFresh
INVARIANT SubClosedQuiet
INVARIANT SeatsHeld
