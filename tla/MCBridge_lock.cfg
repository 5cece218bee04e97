\* Two sinks contend for the lock through two tasks, with operator and time.
SPECIFICATION FairSpec
CONSTANTS
    Sinks = {k1, k2}
    Ids = {id1}
    Sources = {u1}
    Callers = {t1, t2}
    NULL = NULL
    BRIDGE_MAX_SINKS = 2
    IdleTicks = 1
    MaxPumps = 0
    MaxDowns = 0
PROPERTY OvertakesOnlyInSilence
PROPERTY AutoTakeover
CHECK_DEADLOCK FALSE
