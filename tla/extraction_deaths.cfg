SPECIFICATION Spec
CONSTANTS
    None = None
    Tasks = {t1, t2}
    Workers = {w1, w2}
    MaxRetries = 0
    MaxMishaps = 2
    Faults = FALSE
    Large = FALSE
    MaxHolders = 1
    MaxInterruptions = 2
    MaxUnattributed = 2
    Overdue = FALSE
    LiveRedelivery = FALSE
SYMMETRY Symmetry
 
INVARIANT NoFalseCharge
INVARIANT LatestWins
 
CHECK_DEADLOCK FALSE
