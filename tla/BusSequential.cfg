SPECIFICATION Spec
CONSTANTS
    Threads = {t1, t2}
    Drives = {d1, d2, d3}
    Buses = {b1, b2}
    None = None
    Overlapping = FALSE
    Tooling = TRUE
    Mismatches = TRUE
    StartFails = FALSE
SYMMETRY Alike
INVARIANT OneMaster
