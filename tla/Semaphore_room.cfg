SPECIFICATION FairSpec
CONSTANTS
    Thread = {t1, t2, t3, t4, t5}
    t1 = t1
    t2 = t2
    t3 = t3
    t4 = t4
    t5 = t5
    NoThread = NoThread
    Concurrency = 2
    Spurious = TRUE
INVARIANTS
    RoomKept
    TicketsCounted
    NoLostWakeup
PROPERTIES
    ImplementsGate
    SleepersAreCalled
