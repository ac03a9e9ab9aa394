SPECIFICATION Spec
CONSTANTS
    Calls = {c1, c2, c3}
    Body = body
    Prims = {p1}
    Capacity = 2
    MaxNest = 1
    KeepsReceiver = FALSE
    MayPanic = TRUE
SYMMETRY CallSymmetry
INVARIANTS
    TypeOK
    OneHandlerAtATime
    OutcomeAgreesWithStatus
    NoRequestStranded
    FutureFollowsTask
    BrokenReasonAgrees
    ExclusiveNeedsReceiver
PROPERTIES
    ImplementsLifecycle
CHECK_DEADLOCK FALSE
