SPECIFICATION FairSpec
CONSTANTS
    h1 = h1
    h2 = h2
    b1 = b1
    Handles <- MCHandles
    NoHandle = NoHandle
    Bytes <- MCBytes
    ReadTimesOut = TRUE
    MaxPosts = 4
INVARIANTS TypeOK HandlesOwned ValidMeansConnected ClosedWhileOpening EveryEndReportedOnce
PROPERTIES ImplementsLink StopEndsRun
