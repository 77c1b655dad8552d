SPECIFICATION StartupFairSpec
CONSTANTS
    PoolReturns = TRUE
    Tiers <- TwoTiers
    Limits <- TierLimits
    Memory = 4
    MaximumSupported = 100
    Directories <- ThreeDirectories
    Asked = ""
    UnitNofile = 11
    DefaultNrOpen = 11
    DefaultStack = 8
    MaxFaults = 2
    KB = 4
    Word = 64
INVARIANTS
    NoSilentDeath
    StartupTypeOK
    RuntimeGuaranteed
    SameForAll
    TemplateFound
PROPERTIES
    ReturnsAfterWatch
    WatcherRecovers
    StopCompletes
