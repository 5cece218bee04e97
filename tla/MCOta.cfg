SPECIFICATION FairSpec
CONSTANTS
    Images <- Offers
    Factory <- Shipped
    Manifests <- Announced
    Erased = Erased
    Junk = Junk
    VER_STR_MAX = 8
INVARIANT AlwaysBoots
INVARIANT BootsOwnFirmware
INVARIANT OfferIsLater
PROPERTY InstallEnds
PROPERTY WatchdogRearmed
