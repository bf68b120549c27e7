SPECIFICATION FairSpec
CONSTANTS
    StrayKinds <- MCStrayKinds
    MaxData = 1
    MaxHeartbeats = 1
CHECK_DEADLOCK FALSE
PROPERTIES DirectoryStartsUp
