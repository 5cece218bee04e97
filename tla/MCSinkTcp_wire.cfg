\* Two connections with two commands each and every kind of source: the end of
\* sessions, the use of the control, and the handing back of the wire beside the
\* web interface.
SPECIFICATION FairSpec
CONSTANTS
    Slots = {1, 2}
    Conns = {a, b}
    NULL = NULL
    Bauds = {1}
    Formats = {1}
    DeviceDefault <- Coding11
    GlobalDefault <- Coding11
    Kinds = {"usb", "uart", "ncp"}
    WebKinds = {"uart"}
    MaxCommands = 2
    MaxGens = 2
    MaxDrops = 1
INVARIANT WireReverts
PROPERTY SetByControllerOrDropped
PROPERTY DeadSessionsEnd
CHECK_DEADLOCK FALSE
