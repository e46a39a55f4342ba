SPECIFICATION SystemSpec
CONSTANTS
    None = None
    Rows = {r1}
    Tasks = {t1, t2, t3, t4}
    Workers = {w1, w2}
    MaxAttempts = 2
    Routes = {"add"}
    EarlyCommit = FALSE
    Faults = FALSE
    LiveRedelivery = FALSE
    PartialInspect = TRUE
    MaxCrashes = 2
    Headroom = 3
SYMMETRY Symmetry
INVARIANT AttemptsBound
INVARIANT OneOwner
INVARIANT OneResult
INVARIANT NoDuplicates
INVARIANT PendingIsComing
PROPERTY IndexedStays
