SPECIFICATION Spec
CHECK_DEADLOCK FALSE
CONSTANTS
    x = x
    y = y
    self = self
    p1 = p1
    p2 = p2
    None = None
    Addrs = {x, y, self}
    Remote = {x, y}
    PeerIds = {p1, p2}
    PeerSets = {{p1}, {p1, p2}}
    PeerRoutes <- MCPeerRoutes
    First <- MCFirst
    SelfRoutes <- MCSelfRoutes
    SourceFilters <- MCSourceFilters
    PacketFilters <- MCPacketFilters
    Arrivals <- MCArrivals
    MaxTransports = 1
    MaxPackets = 2
    MaxArrivals = 1
    MaxTime = 2
    MaxChanges = 1
    TimerRanges <- MCTimerRanges
    Packets = {d}
    Empty = Empty
    Psk = psk
INVARIANTS
    IdsAgree
    WakesInTime
    FlowOrder
PROPERTIES
    TrafficMoves
