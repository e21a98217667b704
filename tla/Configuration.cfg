SPECIFICATION FairSpec
CONSTANTS
    Nodes = {1, 2}
    Configured = {1, 2}
    Summaries <- Rebased
    Objects = {"controlword", "target", "statusword"}
    Modes = {"csp", "csv"}
    Switched = {1}
    NoMode = "unset"
    Params <- TwoParams
    SaveParams = TRUE
    Factory <- InNvm
    FactoryMode = "csp"
INVARIANT NeverHalfProgrammed
INVARIANT BootedAsLaid
INVARIANT SavedWhole
INVARIANT DistinctIdentifiers
PROPERTY BootsAsSelected
PROPERTY ConfigReturns
