SPECIFICATION Spec
CONSTANTS
    Servers <- RegionServers
    Peers = {"a"}
    MaxPackets = 2
    MaxFrames = 1
    MaxDrops = 1
    Pings <- ClientPings
    Plans <- ClientPlans
    Capacity = 1
    MaxResponses = 2
    MaxCommands = 2
    MaxFailures = 2
    MaxTime = 1
INVARIANTS
    ForwardedInOrder
    UpdatesHandled
    ReadsInOrder
    NetcheckSound
PROPERTIES
    HomeKept
    CandidatesInTurn
    LinksLive
CHECK_DEADLOCK FALSE
