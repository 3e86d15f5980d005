SPECIFICATION PartsSpec
CONSTANTS
    None = None
    Obj = {h1, h2}
    Bev = {f1, f2}
    Handler = {s1}
    Write = {w1, w2}
    EvObj = {h1, h2, s1}
    Heap = {h1, h2}
    HeapEvent = {e1}
    Fn = {f1, f2}
INVARIANTS EvTypeOK EventsOwned OnlyLooseGoWrong OwnedUntilFreed CleanupOnce
SYMMETRY Symmetry
CHECK_DEADLOCK FALSE
