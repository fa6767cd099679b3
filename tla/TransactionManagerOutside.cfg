SPECIFICATION Spec
CONSTANTS
    Call = {c1}
    Outsider = {o1}
    Key = {k1}
    MaxDepth = 1
    MaxWork = 1
    CallbackMayThrow = FALSE
    NoCall = NoCall
INVARIANT
    OutsideWritesStay
