SPECIFICATION FairSpec
CONSTANTS
    f1 = f1
    f2 = f2
    p1 = p1
    p2 = p2
    None = None
    Files = {f1, f2}
    Paths = {p1, p2}
    Path0 = p1
    Exists <- MCExists
    Unreadable <- MCNone
    MaxRequests = 3
    MaxDepth = 2
    MaxDialogs = 1
    MaxBeats = 1
    MaxDescents = 3
CHECK_DEADLOCK FALSE
INVARIANTS RequestsMatched CacheSound PathsSafe IInv
PROPERTIES ReadEnds CallsReturn ServerExits
