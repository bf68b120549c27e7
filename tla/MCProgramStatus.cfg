SPECIFICATION Spec
CONSTANTS
    Processes = {0}
    First = 0
    MaxPresses = 3
    MaxHits = 1
CHECK_DEADLOCK FALSE
INVARIANTS StatusTrue
