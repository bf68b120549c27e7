SPECIFICATION PollingSpec
CONSTANTS
    HeaderLen = 2
    Sizes <- MCSizes
    MaxMsgs = 2
    Cap = 3
PROPERTIES CloseReported
