SPECIFICATION PartsSpec
CONSTANTS
    None = None
    Own = {o1, o2, o3}
    Ref = {r1, r2}
    Evb = {e1, e2, e3, e4}
    Input = {in}
    Output = {out}
    Byte = {b1, b2}
    Thread = {t1, t2}
INVARIANTS TypeOK OneHolder RefValid
PROPERTIES StringsSpec SoleReadsWhole
SYMMETRY Symmetry
CHECK_DEADLOCK FALSE
