SPECIFICATION Spec
CONSTANTS
    None = None
    Absent = Absent
    Unknown = Unknown
    Threads = {w1, w2}
    Tables = {"doc_chunks", "page_index_items"}
    Langs = {"english", "german"}
    KeywordRetries = 1
    KeywordEvents = 3
    KBs = {"k1", "k2"}
    Watched = {"k1"}
    Definitions = {"d1", "d2"}
    MaxIndexes = 2
    MaxFailures = 2
    MaxBreaks = 1
    MaxRebuilds = 1
    VectorRetries = 0
    VectorEvents = 1
    Waiters = {1, 2, 3}
    MaxLooks = 1
    WaiterEvents = 3
    Faults = 2
    Searches = 2
    MaxRows = 1
    Sections = {1, 2, 3, 4}
    Sources = {"a", "b"}
    Worlds <- MCWorlds
    Longest = 3
    Kinds <- MCKinds
    Budgets = {0, 4, 7}
    ImageCost = 3
SYMMETRY Symmetry
 
 
 
 
 
INVARIANT ResultsAreOwed
INVARIANT ContextIsCovered
PROPERTY OnlyWhatWasAsked
CHECK_DEADLOCK FALSE
