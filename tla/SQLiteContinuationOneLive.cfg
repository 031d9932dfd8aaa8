SPECIFICATION Spec
CONSTANTS
    Process = {p1, p2}
    NoProcess = NoProcess
    Thread = {x1, x2, x3}
    Turn = {t1, t2, t3}
    NoTurn = NoTurn
    Unused = Unused
    NoRow = NoRow
    LeasesExpire = FALSE
    MaxToken = 1
SYMMETRY Symmetry
INVARIANT OneLiveTurn
