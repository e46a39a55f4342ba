SPECIFICATION SystemSpec
CONSTANTS
    None = None
    Rows = {r1}
    Tasks = {t1, t2, t3}
    Workers = {w1, w2}
    MaxAttempts = 2
    Routes = {"add", "reindex", "cancel", "remove", "reextract"}
    EarlyCommit = TRUE
    Faults = TRUE
    LiveRedelivery = FALSE
    PartialInspect = FALSE
    MaxCrashes = 0
    Headroom = 1
SYMMETRY Symmetry
INVARIANT RemovedIsEmpty
