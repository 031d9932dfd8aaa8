SPECIFICATION Spec
CONSTANTS
    Process = {p1}
    NoProcess = NoProcess
    Logical = {l1}
    Argument = {a1, a2}
    NoOp = NoOp
    NoReceipt = NoReceipt
    NoRecord = NoRecord
    Call = {c1}
    Names <- AnyName
    ExecRequest = {e1}
    McpRequest = {}
SYMMETRY Symmetry
INVARIANT ReceiptOfThisOperation
