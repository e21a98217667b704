SPECIFICATION Spec
CONSTANTS
    Requests <- Homings
    Modes <- BothModes
    Disturbances <- NoDisturbance
    Fibers = {f1}
    PrimeCycles = 2
    BootEnables = TRUE
    SingleCaller = TRUE
    MaxExchanges = 2
PROPERTY ShutdownWins
