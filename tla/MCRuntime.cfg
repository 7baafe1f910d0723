SPECIFICATION Spec
CONSTANTS
    Scripts <- MCScripts
    Interruptible <- MCInterruptible
    None = None
    NoField = NoField
    Missing = Missing
    NoNode = NoNode
    NodeSet <- MCNodes
    PatchSet <- MCPatches
    Clients = {c1}
    Queries <- MCQueries
    MaxPeerId = 3
    MaxDelta = 1
    MaxRouteIds = 2
    Moves = "none"
    Ids = {1, 2}
    Keys = {"k1", "k2"}
    Responses <- MCResponses
INVARIANTS
    
    HomeAgreed
    PeersConsistent
    MonitorCurrent
    
    

    
CHECK_DEADLOCK FALSE
