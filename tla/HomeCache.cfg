SPECIFICATION HomeSpec
CONSTANTS
    Req = {r1, r2}
    Lists = 2
    TTL = 2
    Timeout = 1
    MaxTime = 4
    Conn = {c1, c2}
    NoEntry = NoEntry
SYMMETRY Symmetry
INVARIANTS
    ServedIsFresh
    CachedIsCoherent
PROPERTIES
    SlipsBackAtMostTimeout
