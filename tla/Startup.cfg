SPECIFICATION StartupSpec
CONSTANTS
    MaxFaults = 3
    Request = {r1, r2}
INVARIANTS
    StartupInv
    ServingIsReady
PROPERTIES
    EventuallyServing
    StopEnds
    CutShortStaysShort
