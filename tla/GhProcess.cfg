SPECIFICATION SpecHelpersEnd
CONSTANTS
    MaxOwed = 3
    MaxOutput = 2
    PipeCapacity = 1
CHECK_DEADLOCK FALSE
INVARIANTS OkIsWhole CapIsExact TreeIsGone NoPipeDeadlock
PROPERTIES RunReturns
