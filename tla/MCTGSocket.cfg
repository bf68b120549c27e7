SPECIFICATION FairSpec
CONSTANTS
    HeaderLen = 2
    Sizes <- MCSizes
    MaxMsgs = 3
    Cap = 3
INVARIANTS Delivered NeverStuck IInv
PROPERTIES ImplementsChannel RecvReturns
