SPECIFICATION Spec
CONSTANTS
    None = None
    Tasks = {t1}
    Workers = {w1, w2}
    MaxRetries = 0
    MaxMishaps = 1
    Faults = TRUE
    Large = TRUE
    MaxHolders = 1
    MaxInterruptions = 1
    MaxUnattributed = 1
    Overdue = TRUE
    LiveRedelivery = TRUE
SYMMETRY Symmetry
PROPERTY CancelSticks
CHECK_DEADLOCK FALSE
