SPECIFICATION FairSpec
CONSTANTS
    None = None
    Chains = {c1, c2, c3}
    TickInterval = 2
    LockTTL = 2
    Interval = 4
    MaxRuns = 2
    MaxDeploys = 2
    MaxDeaths = 2
    Slow = FALSE
    Faults = FALSE
INVARIANT ScheduleKept
PROPERTY TicksGoOn
PROPERTY Spaced
