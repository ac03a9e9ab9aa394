SPECIFICATION FairSpec
CONSTANTS
    Tasks = {w1, w2, w3}
    Threads = {t1, t2}
    Initial = 1
    MaxReleased = 2
INVARIANTS
    TypeOK
    NoWaiterMissed
    NoFulfilmentLost
    PermitsConserved
    NoPermitIdle
    WaitersAgreeOnReason
    ReasonExplained
PROPERTIES
    BreakFreesWaiters
    FulfilmentDelivered
CHECK_DEADLOCK FALSE
