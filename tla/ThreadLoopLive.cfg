SPECIFICATION FairSpec
CONSTANTS
    Calls = {c1, c2, c3}
    Body = body
    Prims = {}
    Capacity = 1
    MaxNest = 0
    KeepsReceiver = FALSE
    MayPanic = FALSE
INVARIANTS
    GateHeldByLiveHandler
PROPERTIES
    TerminateResolves
    CallsAnswered
CHECK_DEADLOCK FALSE
