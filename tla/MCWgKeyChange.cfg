SPECIFICATION Spec
CONSTANTS
    Me = Me
    Keys = {k1, k2}
    Psks = {psk}
    PeerIds = {p1}
    SessionIds = {i1, i2, i3}
    EventIds = {1, 2}
    Packets = {d}
    Empty = Empty
    None = None
    MAX_QUEUED = 1
    WINDOW_SIZE = 2
    STALE_AFTER = 0
    EXPIRED_AFTER = 1
    HANDSHAKE_TIMEOUT = 1
    KEEPALIVE_TIMEOUT = 1
    COOKIE_ROTATION_TIME = 1
    FreshIds = FALSE
    KeyCollisions = FALSE
    Removable = {}
    CookieKeys = {}
    RemoteIds = {r1}
    RemoteEphs = {x1}
    Timestamps = {1}
    Counters = {0}
    MaxTime = 2
    MaxEphemerals = 2
    MaxBatch = 1
    MaxNonce = 1
INVARIANTS
    InitiationsAcceptable
