SPECIFICATION FairSpec
CONSTANTS
    Threads = {t1, t2, t3}
    Drives = {d1, d2}
    Buses = {b1, b2}
    None = None
    Overlapping = TRUE
    Tooling = FALSE
    Mismatches = FALSE
    StartFails = TRUE
INVARIANT RegistryHoldsLive
INVARIANT AppOutlivesCallers
INVARIANT NodesKnown
PROPERTY CallsReturn
