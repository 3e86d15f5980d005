SPECIFICATION Spec
CONSTANTS
    None = None
    Obj = {o1}
    Hnd = {h1}
    Ctx = {n1}
    MaxMsg = 1
INVARIANTS NullNeverCalled
CHECK_DEADLOCK FALSE
