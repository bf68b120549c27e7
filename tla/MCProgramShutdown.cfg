SPECIFICATION Spec
CONSTANTS
    Processes = {0, 1}
    First = 0
    MaxPresses = 1
    MaxHits = 0
CHECK_DEADLOCK FALSE
PROPERTIES AlreadyShutDown
