SPECIFICATION Spec
CONSTANTS
    Name = {accept}
    Edge = {accept}
    Value = {v1}
    Empty = Empty
    Lines = 1
    Chunks = 0
    Transfers = 1
    Resps = 1
    None = None
INVARIANT CaseIgnored
CHECK_DEADLOCK FALSE
