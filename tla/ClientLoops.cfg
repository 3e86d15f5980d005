SPECIFICATION PartsSpec
CONSTANTS
    None = None
    Op = {s1, s2, o1}
    Stream = {s1, s2}
    Obj = {b1}
    Bev = {e1}
    Handler = {h1}
    Write = {w1}
INVARIANTS TypesOK ListsHoldLiving EachAnswered FailuresKnown
PROPERTIES MessageAnswered ConnectAnswered CleanupComes
CHECK_DEADLOCK FALSE
