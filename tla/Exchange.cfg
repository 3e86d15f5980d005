SPECIFICATION PartsSpec
CONSTANTS
    None = None
    Obj = {o1, o2}
    Hnd = {h1}
    Ctx = {n1, n2}
    MaxMsg = 2
    Op = {o1, o2}
    Own = {n1, n2}
    List = {l1, l2}
    Name = {server, location}
    Edge = {location}
    Value = {o1, o2}
    Empty = Empty
    Lines = 3
    Transfers = 2
    Chunks = 3
    Resps = 3
INVARIANTS TypesOK KnowsItsObject ContextsApart OnlyCloseOvertakes HeadersKept
    StoreKeepsSent TransfersApart
SYMMETRY Symmetry
CHECK_DEADLOCK FALSE
