SPECIFICATION AllSpec
CHECK_DEADLOCK FALSE
CONSTANTS
    NBlocks = 4
    BlockBits = 2
    MaxCounter = 13
    Steps = 4
    SystemSteps = 2
    MaxSecs = 3
    MaxCalls = 12
    Ids = {1, 2, 3}
    Ranges <- MCRanges
    MaxTime = 3
    MaxSeq = 4
    Handles = {1, 2, 3}
INVARIANTS
    RingExact
    OnTime
    
    SessionsAgree
PROPERTIES
    ImplementsAntiReplay
    Advances
    ImplementsTimerQueue
