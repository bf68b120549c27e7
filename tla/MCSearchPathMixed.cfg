SPECIFICATION Spec
CONSTANTS
    Names <- MCNames
    Dirs <- MCDirs
    Real <- MCReal
    Subdirs <- MCSubdirs
    Lists <- AllLists
    Length <- MCLength
    BufLen <- MCBufLen
CHECK_DEADLOCK FALSE
INVARIANTS RecursiveEntriesSearched
