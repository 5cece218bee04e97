SPECIFICATION Spec
CONSTANTS
    Slots = {1, 2}
    Conns = {a, b, c}
    NULL = NULL
    Bauds = {1}
    Formats = {1}
    DeviceDefault <- Coding11
    GlobalDefault <- Coding11
    Kinds = {"usb", "ncp"}
    WebKinds = {}
    MaxCommands = 1
    MaxGens = 2
    MaxDrops = 2
SYMMETRY ConnSymmetry
INVARIANT ControllerIsServed
INVARIANT OneTaskPerSlot
INVARIANT AtMostOneStaleSession
PROPERTY ImplementsPortLease
CHECK_DEADLOCK FALSE
