SPECIFICATION FairProcess
CONSTANTS
    Nodes = {n1, n2}
    None = None
    BootEnables = FALSE
    Fails = TRUE
    MaxPosted = 1
INVARIANT QuietExit
INVARIANT NoDriveLeftRunning
PROPERTY ResetJustified
PROPERTY SignalEnds
\* a process that has ended does nothing more
CHECK_DEADLOCK FALSE
