CONSTANTS
    Declarations <- MCDeclarations
    Files <- MCFiles
    Texts <- MCTexts
    NoFile <- MCNoFile
    Missing <- MCMissing
    Priority <- MCPriority
    MaxMessages = 2
    MaxRefreshes = 1
    MaxWaits = 2
SPECIFICATION Spec
INVARIANTS
    WindowSound
PROPERTIES Follows
CHECK_DEADLOCK FALSE
