SPECIFICATION FairSpec
CONSTANTS
    Deliveries = {d1, d2, d3}
    MaxHolders = 2
    Lease = 2
    TimeLimit = 7
    Wait = 1
    Cut = {d3}
INVARIANT SlotsBound
INVARIANT TimelyKeepsLease
INVARIANT RedeliveryFindsLapsed
PROPERTY SlotFrees
