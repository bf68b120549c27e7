CONSTANTS
    Rollups <- MCRollups
    Entries <- MCEntries
    Pairs <- MCPairs
    Values <- MCValues
    Nodes <- MCNodes
    MiscStats <- MCMisc
    L = 2
SPECIFICATION Spec
INVARIANTS
    IInv
    AnswersRight
