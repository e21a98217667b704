SPECIFICATION HoldSpec
CONSTANTS
    Requests <- Switching
    Modes <- BothModes
    Disturbances <- Faults
    Fibers = {f1}
    PrimeCycles = 2
    BootEnables = FALSE
    SingleCaller = TRUE
    MaxExchanges = 2
INVARIANT EnergisedByIntent
INVARIANT RecoverRespectsIntent
INVARIANT StoppedIsSilent
PROPERTY KeepsSafeStop
PROPERTY QuickStopHolds
