SPECIFICATION FairSpec
CONSTANTS
    KBs = {k1, k2}
    Touched = {k1}
    Versions = {v1, v2}
 
PROPERTY LiveCheckStays
PROPERTY QueuedIsGated
