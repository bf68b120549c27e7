SPECIFICATION FairSpec
CONSTANTS
    f1 = f1
    f2 = f2
    p1 = p1
    p2 = p2
    None = None
    Files = {f1, f2}
    Paths = {p1, p2}
    Path0 = p1
    Exists <- MCExists
    Unreadable <- MCOneBad
    MaxRequests = 1
    MaxDepth = 1
    MaxDialogs = 0
    MaxBeats = 0
    MaxDescents = 1
CHECK_DEADLOCK FALSE
PROPERTIES UnreadableAnswered
