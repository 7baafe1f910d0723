SPECIFICATION MCSpec
SYMMETRY Symmetry
CONSTANTS
    Me = Me
    p1 = p1
    k1 = k1
    Keys = {k1, k2}
    Psks = {psk}
    PeerIds = {p1, p2}
    SessionIds = {i1, i2, i3}
    EventIds = {1, 2}
    Packets = {d}
    Empty = Empty
    None = None
    MAX_QUEUED = 1
    WINDOW_SIZE = 2
    STALE_AFTER = 0
    EXPIRED_AFTER = 1
    HANDSHAKE_TIMEOUT = 1
    KEEPALIVE_TIMEOUT = 1
    COOKIE_ROTATION_TIME = 1
    FreshIds = FALSE
    KeyCollisions = FALSE
    Removable = {p1}
    CookieKeys = {k1}
    RemoteIds = {r1}
    RemoteEphs = {x1}
    Timestamps = {1}
    Counters = {0, 1}
    MaxTime = 3
    MaxEphemerals = 3
    MaxBatch = 1
    MaxNonce = 1
INVARIANTS
    SessionIdsOwned
    NeverPanics
    NoReplay
    NonceUnique
    ReceiveExpiresWithTransmit
    HandshakeTimed
