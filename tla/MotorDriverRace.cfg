SPECIFICATION Spec
CONSTANTS
    Requests <- NotHoming
    Modes <- OneMode
    Disturbances <- FaultsOrRestarts
    Fibers = {f1}
    PrimeCycles = 1
    BootEnables = TRUE
    SingleCaller = FALSE
    MaxExchanges = 2
PROPERTY ShutdownWins
