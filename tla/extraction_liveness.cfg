SPECIFICATION FairSpec
CONSTANTS
    None = None
    Tasks = {t1}
    Workers = {w1}
    MaxRetries = 1
    MaxMishaps = 1
    Faults = FALSE
    Large = TRUE
    MaxHolders = 1
    MaxInterruptions = 2
    MaxUnattributed = 2
    Overdue = FALSE
    LiveRedelivery = FALSE
PROPERTY ExtractionResolves
CHECK_DEADLOCK FALSE
