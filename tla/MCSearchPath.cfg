SPECIFICATION FairSpec
CONSTANTS
    Names <- MCNames
    Dirs <- MCDirs
    Real <- MCReal
    Subdirs <- MCSubdirs
    Lists <- OrderlyLists
    Length <- MCLength
    BufLen <- MCBufLen
CHECK_DEADLOCK FALSE
INVARIANTS LookedOnce IInv
PROPERTIES ImplementsLookup Terminates
