SPECIFICATION FairSpec
CONSTANTS
    a1 = a1
    a2 = a2
    m1 = m1
    m2 = m2
    thread = thread
    top = top
    Tasks = {a1, a2, m1, m2}
    Threads = {thread, top}
    ThreadOf <- MCThreadOf
    Capacity = 1
INVARIANTS
    TypeOK
    FreeWakesAll
    BlockedOnlyWithoutWork
    ExactlyOnce
    NoneIsTheEnd
    ResolversAgree
    PanicsAfterDrop
PROPERTIES
    StrandedForGood
    DoneStaysDone
    WaitsEnd
CHECK_DEADLOCK FALSE
