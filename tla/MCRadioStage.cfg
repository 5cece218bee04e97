SPECIFICATION FairSpec
CONSTANTS
    Images <- Uploads
    Factory <- Shipped
    Erased = Erased
    Cal = Cal
    PartSize = 6
    MaxCuts = 2
INVARIANT AcceptedAppWhole
INVARIANT InSyncAppWhole
INVARIANT NoNeedlessRewrite
PROPERTY ImplementsStagedImage
PROPERTY BootCompletes
