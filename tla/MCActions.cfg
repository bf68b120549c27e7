CONSTANTS
    p1 = p1
    p2 = p2
    t1 = t1
    t2 = t2
    NULL = NULL
    Points <- MCPoints
    Tags <- MCTags
    Lists <- MCLists
    BUFFER_SIZE = 10
    IntSize = 1
    MaxPairs = 2
    MaxClicks = 5
    MaxDialogs = 1
SPECIFICATION Spec
INVARIANTS Agreement OrderAgrees IInv
CHECK_DEADLOCK FALSE
