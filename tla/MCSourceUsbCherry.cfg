SPECIFICATION FairSpec
CONSTANTS
    Devices = {d1, d2}
    Ports = {p1, p2}
    Callers = {c1}
    NULL = NULL
    VidPid = VidPid
INVARIANT HandlesAlive
INVARIANT IdentityIntact
INVARIANT ClaimHasOwner
PROPERTY ReadyUntilPulled
PROPERTY UnplugCompletes
