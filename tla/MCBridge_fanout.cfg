\* Two sources are swapped and pump events while sinks are being attached.
SPECIFICATION Spec
CONSTANTS
    Sinks = {k1, k2}
    Ids = {}
    Sources = {u1, u2}
    Callers = {}
    NULL = NULL
    BRIDGE_MAX_SINKS = 2
    IdleTicks = 0
    MaxPumps = 2
    MaxDowns = 1
SYMMETRY CallerSymmetry
INVARIANT DetachedUsedOnce
INVARIANT FanoutExact
CHECK_DEADLOCK FALSE
