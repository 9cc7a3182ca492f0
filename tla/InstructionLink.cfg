SPECIFICATION LinkSpec
CONSTANTS
    Linker = {l1, l2, l3}
    MaxEdits = 2
SYMMETRY Interchangeable
CHECK_DEADLOCK FALSE
INVARIANTS LinkedIsUsable CreatedOnce
PROPERTIES NothingIsReplaced
