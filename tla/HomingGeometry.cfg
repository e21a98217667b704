SPECIFICATION FairSpec
CONSTANTS
    MaxInt = 7
    Configs <- SomeConfigs
    Tracks <- LongShort
    Starts <- AnyStart
    Transients = FALSE
INVARIANT CentreIsMidway
INVARIANT EndsAreStops
INVARIANT ZeroIsAtCentre
PROPERTY ReleasesStop
PROPERTY HomingReturns
\* a homing that was refused or is done does nothing more
CHECK_DEADLOCK FALSE
