SPECIFICATION Spec
CONSTANTS
    MaxOwed = 3
    MaxOutput = 2
    PipeCapacity = 1
CHECK_DEADLOCK FALSE
PROPERTIES TimeoutPreventsStuck
