SPECIFICATION FairSpec
CONSTANTS
    StrayKinds <- MCStrayKinds
    MaxData = 1
    MaxHeartbeats = 1
CHECK_DEADLOCK FALSE
INVARIANTS Authentic NoStolenAnswer TerminatedServerDown IInv
PROPERTIES NoHastyKill OnlyKnownHangs QuitEnds ServerExits
