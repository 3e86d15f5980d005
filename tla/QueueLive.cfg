SPECIFICATION FairSpec
CONSTANTS
    None = None
    Raw = Raw
    Queue = {q1, q2}
    Base = {b1, b2}
    Post = {p1}
    Callable = {f1}
    Moved = {f1}
    Keeps = {"objects"}
INVARIANT NoCrash
PROPERTIES BreakEndsLoop Delivered
CHECK_DEADLOCK FALSE
