SPECIFICATION Spec
CONSTANTS
    Writer = {w1}
    Reader = {r1}
    Temp = {t1, t2}
    MaxPut = 2
INVARIANTS AcknowledgedIsDurable
