SPECIFICATION Spec
CONSTANTS
    h1 = h1
    h2 = h2
    b1 = b1
    b2 = b2
    Handles <- MCHandles
    NoHandle = NoHandle
    Buffers <- MCBuffers
    MaxFragments = 2
    FreeRDP = TRUE
    MaxPosts = 4
INVARIANTS TypeOK BuffersOutliveWrites ConnectedIsFound
PROPERTY ImplementsLink
CHECK_DEADLOCK FALSE
