SPECIFICATION Spec
CONSTANTS
    Writer = {w1, w2}
    Reader = {r1}
    Temp = {t1, t2}
    MaxPut = 3
SYMMETRY Interchangeable
INVARIANTS ReadersSeeWhole AcknowledgedSurvives TempIsOurs
