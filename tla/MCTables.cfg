SPECIFICATION Spec
CONSTANTS
    a = a
    b = b
    c = c
    Values = {x, y}
    NoValue = NoValue
    RoutePrefixes <- MCRoutePrefixes
    StrideBits = 2
    Strides = 2
    Names = {"base", "x"}
    DefaultName = "base"
    NoName = NoName
    NoField = NoField
    WireRulesets <- MCRulesets
    Ips = {a, b, c}
    Stacks <- MCStacks
    Caps = {"k", "l"}
    Protos = {"tcp", "udp", "other"}
    DefaultProtos = {"tcp", "udp"}
    PortSample = {0, 1, 2, 5, 9, 10, 15}
INVARIANTS
    ContainersMatch
    ConversionsExact
    FiltersDecide
CHECK_DEADLOCK FALSE
