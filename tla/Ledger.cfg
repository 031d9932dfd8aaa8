SPECIFICATION Spec
CONSTANTS
    Process = {p1, p2}
    NoProcess = NoProcess
    Logical = {l1}
    Argument = {a1}
    NoOp = NoOp
    NoReceipt = NoReceipt
    NoRecord = NoRecord
    Call = {c1, c2}
    Names <- AnyName
    ExecRequest = {e1}
    McpRequest = {m1}
SYMMETRY Symmetry
INVARIANTS
    AtMostOnce
    SuccessIsDurable
PROPERTY ReceiptFinal
