SPECIFICATION Spec
CONSTANTS
    Calls = {c1, c2}
    Body = body
    Prims = {p1}
    Capacity = 1
    MaxNest = 1
    KeepsReceiver = FALSE
    MayPanic = TRUE
INVARIANTS
    GateHeldByLiveHandler
CHECK_DEADLOCK FALSE
