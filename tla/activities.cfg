SPECIFICATION Spec
CONSTANTS
    None = None
    Actors = {a1, a2}
    Runs = {"r1", "r2"}
    Servers = {"p1"}
    KindsOf <- MCKinds
    Callers <- MCCallers
    Turns = {"t1", "t2", "t3"}
    Window = 3
    Events = 1
    Calls = {1, 2}
    Kbs = {"k1", "k2"}
    Args = {"x"}
    Editors = {1}
    Users = {2}
    Changes = 2
    Sweeps = 1
    Attempts = 2
    Blocks = {"agent", "code"}
    Agent = "agent"
    AgentKbs = 2
    Executions = 1
    Arms = 1
    Chains = {"c1", "c2", "c3"}
    TickInterval = 2
    LockTTL = 2
    Interval = 4
    MaxRuns = 2
    MaxDeploys = 2
    MaxDeaths = 2
SYMMETRY Symmetry
INVARIANT RunsEndOnce
INVARIANT RunsHaveTheirPlace
INVARIANT TurnsAreApart
INVARIANT HistoryIsWhole
INVARIANT CallsAreApart
 
INVARIANT LoginWithinTools
 
CHECK_DEADLOCK FALSE
