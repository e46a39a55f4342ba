--------------------------- MODULE KnowledgeBases ---------------------------
(* A knowledge base beside its rows: the indexes it has, and how it is searched.
   The components meet in the database only, in rows and catalog entries that
   each draws as far as it reads them, so that each runs by itself, the one that
   "part" names from the start. *)
EXTENDS FiniteSets, Naturals

CONSTANTS None, Absent, Unknown,
          Threads,                                                                            \* what runs the tasks
          Tables, Langs, KeywordRetries, KeywordEvents,                                       \* KeywordIndex
          KBs, Watched, Definitions, MaxIndexes, MaxFailures, MaxBreaks, MaxRebuilds, VectorRetries, VectorEvents,  \* VectorIndex
          Waiters, MaxLooks, WaiterEvents,                                                    \* VectorWaiters
          Faults, Searches, MaxRows,                                                          \* StoreSearch
          Sections, Sources, Worlds,                                                             \* KbSearch; the sources are KeywordFile's as well
          Longest, Kinds, Budgets, ImageCost                                                  \* ContextFormat

VARIABLES part,
          config, kpart, kindex, ktask, outcome, safe, kleft,                                                        \* KeywordIndex
          rows, file, counted, cache, worker, keyword, attached, rebuilds, disturbed,                                \* KeywordFile
          size, vindex, vtask, others, foreign, taken, failed, vleft,                                                \* VectorIndex
          marker, pending, wtask, table, owed, excuse, wleft,                                                        \* VectorWaiters
          kb, ready, tx, set, held, stage, leg, known, lost, blame, answer, degraded, searches, faults,              \* StoreSearch
          world, ask, at, pool, main, funds, charged, done,                                                          \* KbSearch
          items, images, grouped, budget, order, n, tokens, seen, blocks, refs, shown, noted, stopped, stored, read  \* ContextFormat

KI == INSTANCE KeywordIndex WITH Slots <- Threads, MaxRetries <- KeywordRetries, Budget <- KeywordEvents, part <- kpart, index <- kindex,
                                 task <- ktask, left <- kleft
KF == INSTANCE KeywordFile WITH Workers <- Threads
VI == INSTANCE VectorIndex WITH Slots <- Threads, MaxRetries <- VectorRetries, Events <- VectorEvents, index <- vindex, task <- vtask, left <- vleft
VW == INSTANCE VectorWaiters WITH Slots <- Waiters, Events <- WaiterEvents, task <- wtask, left <- wleft
SS == INSTANCE StoreSearch WITH at <- stage, ask <- leg, left <- searches
KS == INSTANCE KbSearch WITH Items <- Sections
CF == INSTANCE ContextFormat

\* There is a language; a file has rows of sources that can be counted, and none is
\* a file of its own; what a count is compared with is a number, a build may fail once, and what is
\* searched is made of the items there are.
ASSUME KnowledgeBasesAssumption ==
    /\ Langs # {} /\ KeywordRetries \in Nat
    /\ IsFiniteSet(Sources) /\ \A s \in SUBSET KF!Items : s # Absent
    /\ MaxFailures \in Nat \ {0}
    /\ None \notin Waiters
    /\ MaxRows \in Nat /\ KS!SearchAssumption /\ Budgets \subseteq Nat

kiVars == <<config, kpart, kindex, ktask, outcome, safe, kleft>>
kfVars == <<rows, file, counted, cache, worker, keyword, attached, rebuilds, disturbed>>
viVars == <<size, vindex, vtask, others, foreign, taken, failed, vleft>>
vwVars == <<marker, pending, wtask, table, owed, excuse, wleft>>
ssVars == <<kb, ready, tx, set, held, stage, leg, known, lost, blame, answer, degraded, searches, faults>>
ksVars == <<world, ask, at, pool, main, funds, charged, done>>
cfVars == <<items, images, grouped, budget, order, n, tokens, seen, blocks, refs, shown, noted, stopped, stored, read>>
vars == <<part, kiVars, kfVars, viVars, vwVars, ssVars, ksVars, cfVars>>

\* What a part that does not run has for its state.
NoKI == /\ config = None /\ kpart = None /\ kindex = None /\ ktask = None /\ outcome = None /\ safe = None /\ kleft = None
NoKF == /\ rows = None /\ file = None /\ counted = None /\ cache = None /\ worker = None /\ keyword = None /\ attached = None
        /\ rebuilds = None /\ disturbed = None
NoVI == /\ size = None /\ vindex = None /\ vtask = None /\ others = None /\ foreign = None /\ taken = None /\ failed = None
        /\ vleft = None
NoVW == /\ marker = None /\ pending = None /\ wtask = None /\ table = None /\ owed = None /\ excuse = None /\ wleft = None
NoSS == /\ kb = None /\ ready = None /\ tx = None /\ set = None /\ held = None /\ stage = None /\ leg = None /\ known = None
        /\ lost = None /\ blame = None /\ answer = None /\ degraded = None /\ searches = None /\ faults = None
NoKS == /\ world = None /\ ask = None /\ at = None /\ pool = None /\ main = None /\ funds = None /\ charged = None /\ done = None
NoCF == /\ items = None /\ images = None /\ grouped = None /\ budget = None /\ order = None /\ n = None /\ tokens = None /\ seen = None
        /\ blocks = None /\ refs = None /\ shown = None /\ noted = None /\ stopped = None /\ stored = None /\ read = None
Init == \/ part = "keyword index" /\ KI!Init /\ NoKF /\ NoVI /\ NoVW /\ NoSS /\ NoKS /\ NoCF
        \/ part = "keyword file" /\ NoKI /\ KF!Init /\ NoVI /\ NoVW /\ NoSS /\ NoKS /\ NoCF
        \/ part = "vector index" /\ NoKI /\ NoKF /\ VI!Init /\ NoVW /\ NoSS /\ NoKS /\ NoCF
        \/ part = "vector waiters" /\ NoKI /\ NoKF /\ NoVI /\ VW!Init /\ NoSS /\ NoKS /\ NoCF
        \/ part = "store" /\ NoKI /\ NoKF /\ NoVI /\ NoVW /\ SS!Init /\ NoKS /\ NoCF
        \/ part = "search" /\ NoKI /\ NoKF /\ NoVI /\ NoVW /\ NoSS /\ KS!Init /\ NoCF
        \/ part = "context" /\ NoKI /\ NoKF /\ NoVI /\ NoVW /\ NoSS /\ NoKS /\ CF!Init
KeywordIndexStep == part = "keyword index" /\ KI!Next /\ UNCHANGED <<part, kfVars, viVars, vwVars, ssVars, ksVars, cfVars>>
KeywordFileStep == part = "keyword file" /\ KF!Next /\ UNCHANGED <<part, kiVars, viVars, vwVars, ssVars, ksVars, cfVars>>
VectorIndexStep == part = "vector index" /\ VI!Next /\ UNCHANGED <<part, kiVars, kfVars, vwVars, ssVars, ksVars, cfVars>>
VectorWaitersStep == part = "vector waiters" /\ VW!Next /\ UNCHANGED <<part, kiVars, kfVars, viVars, ssVars, ksVars, cfVars>>
StoreStep == part = "store" /\ SS!Next /\ UNCHANGED <<part, kiVars, kfVars, viVars, vwVars, ksVars, cfVars>>
SearchStep == part = "search" /\ KS!Next /\ UNCHANGED <<part, kiVars, kfVars, viVars, vwVars, ssVars, cfVars>>
ContextStep == part = "context" /\ CF!Next /\ UNCHANGED <<part, kiVars, kfVars, viVars, vwVars, ssVars, ksVars>>
Next == KeywordIndexStep \/ KeywordFileStep \/ VectorIndexStep \/ VectorWaitersStep \/ StoreStep \/ SearchStep \/ ContextStep
Spec == Init /\ [][Next]_vars

(* The components' properties; each is stated, and commented on, in its module,
   and each component's first has its types as well. *)

(* A knowledge base's rows leave the DEFAULT partition only for a task that was
   asked to move them, and the ready index of its language is dropped only by a
   drop, or by an ensure that read the configuration before it was changed,
   whatever tasks overlap (services/pg_bm25_index.py). *)
OnlyWhatWasAsked == [][part = "keyword index" => KI!MoveAsked /\ KI!DropDue]_vars
(* Every index has somebody who answers for it: an INVALID one a task that will
   come to it, a vector index one statement at a time on its table, failures that
   are counted and carried over, and no certificate of another definition
   (services/pg_bm25_index.py, services/pg_vector_index.py). *)
IndexesAreOwned == /\ part = "keyword index" => KI!TypeOK /\ KI!InvalidIsOwned
                   /\ part = "vector index" => VI!TypeOK /\ VI!OneStatement /\ VI!BuildsBounded /\ VI!StaleNotCertified
(* Once the tasks that follow a commit are done, the bm25s file a search would
   read has every committed row, however runs of two threads, rebuilds, evictions
   from the cache and changes of method interleave, unless a rebuild was overtaken
   (services/sparse_retrieval/sparse_index_store.py). *)
FileComplete == part = "keyword file" => KF!TypeOK /\ KF!FileComplete
(* A knowledge base that is owed a vector index has a dispatch that will come to
   it, though waiters' keys lapse and surveys fail (tasks/indexing.py). *)
OwedIsServed == part = "vector waiters" => VW!TypeOK /\ VW!OwedIsServed
(* Whatever statements of a search fail, the settings it borrowed are back when it
   is over, unless the restore failed too, and only a statement of the search
   itself aborts the transaction it was given (services/base_vector_store.py). *)
SearchLeavesNoTrace == part = "store" => SS!TypeOK /\ SS!GivenBack /\ SS!OnlyOwnAborts
(* The exact statement runs only on a population that was counted, within the read
   budget, and no search is left with every way to read the table priced out,
   unless a restore failed before it (services/base_vector_store.py). *)
SearchIsExact == part = "store" => SS!ExactWithinBudget /\ SS!SomeScanLeft
(* A document the floor guarantees a place is in the answer, the floor's rows take
   no more than that place, what a graph adds comes once and ranks below every
   match, and an answer was paid for (services/knowledge_search.py). *)
ResultsAreOwed == part = "search" => KS!FloorKept /\ KS!FloorOnlyFills /\ KS!ExpandedApart /\ KS!PaidAnswer
(* The context is a prefix of the results, within the budget, what is "already
   shown above" is covered there, and what is stored has a reference wherever an
   image was (services/knowledge_search.py, services/context_handler.py). *)
ContextIsCovered == part = "context" => CF!PrefixIncluded /\ CF!NotedIsCovered /\ CF!StoredByReference

(* What comments and docstrings of the code say and the code does not do, as the
   README tells: a search survives a pgvector too old for the iterative scan; a
   charge follows the operation it is for; an item "already shown above" has its
   text above; nothing that was dispatched is dropped without an error. *)
SurvivesIterativeScan == part = "store" => SS!SurvivesIterativeScan
ChargedSucceeded == part = "search" => KS!ChargedSucceeded
NotedIsShown == part = "context" => CF!NotedIsShown
NothingDropped == part = "vector waiters" => VW!NothingDropped
=============================================================================
