SPECIFICATION LiveSpec
CONSTANTS
    Requests <- Recovering
    Modes <- OneMode
    Disturbances <- FaultyOrSilent
    Fibers = {f1}
    PrimeCycles = 1
    BootEnables = TRUE
    SingleCaller = TRUE
    MaxExchanges = 2
PROPERTY StopFinishes
PROPERTY LadderEnds
PROPERTY WatchdogTrips
PROPERTY PowerRemoved
