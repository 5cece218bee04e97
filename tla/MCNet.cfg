SPECIFICATION FairSpec
CONSTANTS
    Nets = {home}
    None = None
    MAX_RETRY = 1
    WdtTicks = 1
    MaxClients = 1
    MaxTries = 1
    MaxEvents = 2
INVARIANT ApFlagTruthful
INVARIANT ClientsCounted
PROPERTY OfflineFallsBack
PROPERTY WatchdogFires
