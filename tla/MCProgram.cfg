SPECIFICATION Spec
CONSTANTS
    Processes = {0, 1}
    First = 0
    MaxPresses = 5
    MaxHits = 3
CHECK_DEADLOCK FALSE
INVARIANTS NoSilentHalt GreyedOut IInv
