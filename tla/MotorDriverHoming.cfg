SPECIFICATION FairSpec
CONSTANTS
    Requests <- Homings
    Modes <- BothModes
    Disturbances <- FaultsOrLost
    Fibers = {f1}
    PrimeCycles = 2
    BootEnables = TRUE
    SingleCaller = TRUE
    MaxExchanges = 2
INVARIANT OneExchange
INVARIANT ModeRestoredUnpowered
PROPERTY HomingEnds
