SPECIFICATION Spec
CONSTANTS
    None = None
    Obj = {o1}
    Bev = {b1}
    Handler = {h1}
    Write = {w1}
INVARIANT FailedSslKilled
CHECK_DEADLOCK FALSE
