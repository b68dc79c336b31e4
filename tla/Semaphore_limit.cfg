SPECIFICATION Spec
CONSTANTS
    Thread = {t1, t2, t3}
    t1 = t1
    t2 = t2
    t3 = t3
    NoThread = NoThread
    Concurrency = 1
    Spurious = FALSE
INVARIANTS
    LimitRespected
