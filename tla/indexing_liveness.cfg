SPECIFICATION FairSpec
CONSTANTS
    None = None
    Rows = {r1}
    Tasks = {t1, t2, t3, t4}
    Workers = {w1}
    MaxAttempts = 2
    Routes = {"add"}
    EarlyCommit = FALSE
    Faults = FALSE
    LiveRedelivery = FALSE
    PartialInspect = FALSE
    MaxCrashes = 1
    Headroom = 3
PROPERTY RowsResolve
