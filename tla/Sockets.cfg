SPECIFICATION PartsSpec
CONSTANTS
    None = None
    Obj = {a, b, f1}
    Fn = {f1}
    Lev = {x, y, z}
    Addr = {u, v}
    Conn = {c1}
    Sock = {x, y, z}
    Fd = {3, 4}
    Files = 3
    V4 = {a, b}
    V6 = {s}
    Ss = {u, v}
    View = {w}
    Host = {h}
    Loop = h
    Port = {0, 65616}
    Que = {a, b}
    EvBase = {x, y, z}
    DnsObj = {u, v}
    Dns = {n1, n2}
INVARIANTS TypesOK ListenersKept OnlyMovedGoWrong DescriptorsKept ShapeKept FreedInTime
PROPERTIES Values
CONSTRAINTS OneCopy FewAddresses
SYMMETRY Symmetry
CHECK_DEADLOCK FALSE
