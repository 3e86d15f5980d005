SPECIFICATION Spec
CONSTANTS
    None = None
    Raw = Raw
    Queue = {q1}
    Base = {b1}
    Post = {p1}
    Callable = {g1}
    Moved = {}
    Keeps = {}
PROPERTIES DispatchTellsEvents
CHECK_DEADLOCK FALSE
