SPECIFICATION Spec
CONSTANTS
    Requests = {r1, r2, r3, r4}
    Clients = {alice, bob, carol}
    RequestsPerMinute = 2
    MaxRateClients = 2
    MaxInflight = 2
    MaxBody = 1
    Window = 2
    MaxTime = 3
SYMMETRY RequestsAndClients
INVARIANTS SlotsCounted RateBounded
PROPERTIES RefusedWithCause PoolRefined
CHECK_DEADLOCK FALSE
