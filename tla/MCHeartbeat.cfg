SPECIFICATION FairLeaseSpec
CONSTANTS
    Interval = 2
    MaxBlock = 3
    MaxBusy = 2
    Timeout = 8
INVARIANTS LeaseIInv
PROPERTIES SilenceEnds
