SPECIFICATION FairSpec
CONSTANTS
    Devices = {d1}
    ExtPorts = {1, 2}
    HUB = HUB
    NULL = NULL
    MqSize = 7
    MaxAddr = 4
    MaxPlugs = 2
    MaxRoot = 2
    MaxFaults = 1
INVARIANT AddressesAccounted
INVARIANT NoOrphans
INVARIANT PollAlive
PROPERTY PortsSettle
CHECK_DEADLOCK FALSE
