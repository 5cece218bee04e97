\* One stick with a serial number that its bootloader does not report: it is
\* attached three times, say as application, as bootloader and as application.
SPECIFICATION FairSpec
CONSTANTS
    Sticks = {s1}
    HasSerial = {s1}
    NULL = NULL
    VidPid = VidPid
    MaxSes = 3
    NBlocks = 2
    MaxFaults = 1
    MaxFlash = 1
INVARIANT OnlyGoneTornDown
INVARIANT KeyOfAttached
INVARIANT FlashWhole
PROPERTY Served
CHECK_DEADLOCK FALSE
