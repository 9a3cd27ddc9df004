CONSTANTS
    Threads = {t1, t2, t3}
    Nobody = Nobody
    MaxRounds = 2
SPECIFICATION Spec
INVARIANT BarrierHolds
CHECK_DEADLOCK FALSE
