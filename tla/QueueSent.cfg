SPECIFICATION Spec
CONSTANTS
    None = None
    Raw = Raw
    Queue = {q1, q2}
    Base = {b1, b2, b3}
    Post = {p1, p2}
    Callable = {f1, g1}
    Moved = {f1}
    Keeps = {"base"}
INVARIANT CalledWhereSent
ACTION_CONSTRAINTS NoLoopControl DispatchOnly
SYMMETRY Symmetry
CHECK_DEADLOCK FALSE
