---------------------------- MODULE KeywordFile ----------------------------
(* The bm25s file index of one knowledge base (services/sparse_retrieval): one
   index on disk, and a copy in the memory of the worker process that is never
   compared with the disk again. Its threads share both: runs of index_source
   keep the file up to date after their commit, each addition and removal under
   one lock; build_bm25_for_kb writes it anew and takes the lock only to drop
   the copy. The web processes only read. Once the knowledge base has a partition of its own nothing reads or
   writes it any more. *)
EXTENDS Naturals, FiniteSets

CONSTANTS Sources,   \* the sources of the knowledge base
          Workers,   \* the threads of the worker process (worker_pool = "threads")
          Absent     \* no index, no metadata, nothing cached

Items == Sources \X {1, 2}   \* a source's item, before and after a re-index
Nothing == [task |-> "idle", add |-> {}, remove |-> {}]

VARIABLES rows,      \* the committed items
          file,      \* the items of the index on disk, or Absent
          counted,   \* the item_count of metadata.json, or Absent
          cache,     \* the index in the memory of the process, or Absent
          worker,    \* worker[w]: the task of thread w and what it has still to do
          keyword,   \* the knowledge base's method uses a keyword leg
          attached,  \* it has a partition of its own
          rebuilds,  \* a build_bm25_for_kb is queued
          disturbed  \* history: rows or file changed under a build, and no build was undisturbed since
vars == <<rows, file, counted, cache, worker, keyword, attached, rebuilds, disturbed>>

TypeOK == /\ rows \subseteq Items
          /\ file = Absent \/ file \in (SUBSET Items) \ {{}}
          /\ counted = Absent \/ counted \in 1..Cardinality(Items)
          /\ cache = Absent \/ cache \subseteq Items
          /\ worker \in [Workers -> [task : {"idle", "remove", "add", "build", "drop"}, add : SUBSET Items, remove : SUBSET Items]]
          /\ {keyword, attached, rebuilds, disturbed} \subseteq BOOLEAN

Init == /\ rows = {} /\ file = Absent /\ counted = Absent /\ cache = Absent
        /\ worker = [w \in Workers |-> Nothing]
        /\ keyword \in BOOLEAN /\ attached = FALSE /\ rebuilds = FALSE /\ disturbed = FALSE

Busy(s) == \E w \in Workers : worker[w].task \in {"remove", "add"} /\ \E v \in {1, 2} : <<s, v>> \in worker[w].add
Exists == file # Absent
Building == \E w \in Workers : worker[w].task \in {"build", "drop"}
\* Mutant: a manager is used as it is in memory.
NotLoaded == IF cache = Absent THEN {} ELSE cache
\* What a manager holds once it is loaded: one that is empty is loaded from the disk.
Loaded == IF cache \in {Absent, {}} THEN (IF Exists THEN file ELSE {}) ELSE cache
Added(w) == Loaded \union worker[w].add
Remaining(w) == Loaded \ worker[w].remove

-----------------------------------------------------------------------------
(* index_source: the rows are committed first, the file follows *)
ShouldBuildNow == keyword /\ ~attached
Commit(w, s) == /\ worker[w].task = "idle" /\ ~Busy(s)
                /\ LET old == rows \cap ({s} \X {1, 2})
                       new == {IF <<s, 1>> \in old THEN <<s, 2>> ELSE <<s, 1>>}
                   IN /\ rows' = (rows \ old) \union new
                      /\ worker' = [worker EXCEPT ![w] = [task |-> "remove", add |-> new, remove |-> old]]
                /\ disturbed' = (disturbed \/ Building)
                /\ UNCHANGED <<file, counted, cache, keyword, attached, rebuilds>>
\* Removes what the commit replaced; the last item takes the directory with it.
RemoveAndSave(w) ==
    LET left == Remaining(w)
        nothing == ~ShouldBuildNow \/ worker[w].remove = {} \/ ~Exists IN
    /\ worker[w].task = "remove"
    /\ worker' = [worker EXCEPT ![w] = IF ShouldBuildNow THEN [@ EXCEPT !.task = "add"] ELSE Nothing]
    /\ IF nothing THEN UNCHANGED <<file, counted, cache, disturbed>>
       ELSE /\ cache' = IF left = {} THEN Absent ELSE left
            /\ file' = IF left = {} THEN Absent ELSE left
            /\ counted' = IF left = {} THEN Absent ELSE counted
            /\ disturbed' = (disturbed \/ Building)
    /\ UNCHANGED <<rows, keyword, attached, rebuilds>>
AddAndSave(w) ==
    LET all == Added(w) IN
    /\ worker[w].task = "add"
    /\ worker' = [worker EXCEPT ![w] = Nothing]
    /\ cache' = all /\ file' = all
    /\ disturbed' = (disturbed \/ Building)
    /\ UNCHANGED <<rows, counted, keyword, attached, rebuilds>>

(* build_bm25_for_kb: the items are read first, then written in place; only
   the copy in memory is dropped under the lock *)
ReadItems(w) == /\ rebuilds /\ worker[w].task = "idle"
                /\ rebuilds' = FALSE
                /\ worker' = [worker EXCEPT ![w] = IF rows = {} THEN Nothing ELSE [task |-> "build", add |-> rows, remove |-> {}]]
                /\ disturbed' = (disturbed /\ Building)
                /\ UNCHANGED <<rows, file, counted, cache, keyword, attached>>
RebuildFromScratch(w) == /\ worker[w].task = "build"
                         /\ file' = worker[w].add
                         /\ worker' = [worker EXCEPT ![w].task = "drop"]
                         /\ UNCHANGED <<rows, counted, cache, keyword, attached, rebuilds, disturbed>>
DropCache(w) == /\ worker[w].task = "drop"
                /\ counted' = Cardinality(worker[w].add)
                /\ cache' = Absent
                /\ worker' = [worker EXCEPT ![w] = Nothing]
                /\ UNCHANGED <<rows, file, keyword, attached, rebuilds, disturbed>>
\* The least recently used index leaves the cache of the process.
Evict == /\ cache # Absent
         /\ cache' = Absent
         /\ UNCHANGED <<rows, file, counted, worker, keyword, attached, rebuilds, disturbed>>

-----------------------------------------------------------------------------
(* What others do *)
\* A source is deleted: its rows go with the cascade, its entries in the file stay.
DeleteSource(s) == /\ ~Busy(s) /\ rows \cap ({s} \X {1, 2}) # {}
                   /\ rows' = rows \ ({s} \X {1, 2})
                   /\ UNCHANGED <<file, counted, cache, worker, keyword, attached, rebuilds, disturbed>>
\* PATCH of the method: turning the keyword leg on queues a build from scratch.
SetMethod(k) == /\ k # keyword /\ ~rebuilds
                /\ keyword' = k
                /\ rebuilds' = (k /\ ~attached)
                /\ UNCHANGED <<rows, file, counted, cache, worker, attached, disturbed>>
\* ensure_pg_bm25_index: the file goes, with the copy in memory.
RetireFileIndex(w) == /\ ~attached /\ worker[w].task = "idle"
                      /\ attached' = TRUE /\ file' = Absent /\ counted' = Absent
                      /\ cache' = Absent
                      /\ UNCHANGED <<rows, worker, keyword, rebuilds, disturbed>>

Next == \/ \E w \in Workers : \/ \E s \in Sources : Commit(w, s)
                              \/ RemoveAndSave(w) \/ AddAndSave(w) \/ ReadItems(w) \/ RebuildFromScratch(w)
                              \/ DropCache(w) \/ RetireFileIndex(w)
        \/ Evict
        \/ \E s \in Sources : DeleteSource(s)
        \/ \E k \in BOOLEAN : SetMethod(k)
Spec == Init /\ [][Next]_vars

-----------------------------------------------------------------------------
(* What a keyword search on a process with a fresh cache can find: the file
   when it is the one to be read, the rows themselves otherwise. *)
Findable == IF attached \/ ~Exists THEN rows ELSE file
Quiet == (\A w \in Workers : worker[w].task = "idle") /\ ~rebuilds
(* Keyword search misses no committed row: however runs of several threads,
   rebuilds, evictions and changes of method interleave, the file that search
   would read has every row once the tasks that follow a commit are done,
   unless a build was overtaken by them. *)
FileComplete == Quiet /\ keyword /\ ~disturbed => rows \subseteq Findable
(* The same without the exception, which does not hold: a build writes what it
   read over what was added meanwhile. *)
AlwaysComplete == Quiet /\ keyword => rows \subseteq Findable
(* A build whose item count is that of the table has its items, which
   _compute_bm25_status takes for granted when it says ready. It does not hold: a
   re-index that the file does not follow may leave as many. *)
ReadyIsCurrent == Quiet /\ Exists /\ counted = Cardinality(rows) => rows \subseteq file
=============================================================================
