SPECIFICATION Spec
CONSTANTS
    Process = {p1, p2}
    NoProcess = NoProcess
    Thread = {x1, x2}
    Turn = {t1, t2, t3}
    NoTurn = NoTurn
    Unused = Unused
    NoRow = NoRow
    LeasesExpire = TRUE
    MaxToken = 2
SYMMETRY Symmetry
PROPERTIES
    ImplementsContract
    AcknowledgesNamed
