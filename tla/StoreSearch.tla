---------------------------- MODULE StoreSearch ----------------------------
(* The searches of one request on a knowledge base's store
   (services/base_vector_store.py): the vector leg with the planner settings it
   borrows for its transaction, and the keyword leg with its fallbacks and its
   statement timeout. They share a transaction: a statement that fails outside
   a savepoint leaves it aborted, and inside one leaves it as it was. *)
EXTENDS Naturals, Sequences

CONSTANTS Faults,   \* a bound on the statements that fail
          Searches, \* a bound on the searches of the transaction
          MaxRows   \* VECTOR_EXACT_SEARCH_MAX_ROWS; 0 where it is off or cannot be read

VARIABLES kb,      \* what the catalog and the files hold for the knowledge base
          ready,   \* this process's readiness cache
          tx,      \* "ok" or "aborted"
          set,     \* the settings away from the transaction's own
          held,    \* the context managers that are open, innermost first
          at, ask, \* the statement the search is at, and what was asked
          known,   \* pgvector is loaded on this connection
          lost,    \* the settings a restore failed to put back
          blame,   \* what failed outside a savepoint
          answer,  \* how the last leg was answered
          degraded, left, faults
vars == <<kb, ready, tx, set, held, at, ask, known, lost, blame, answer, degraded, left, faults>>

Scans == {"indexscan", "seqscan", "bitmapscan"}
\* The rows of the knowledge base in this item table, those in others, and what serves keywords.
Stores == [table : {"chunks", "nodes"}, own : BOOLEAN, rows : 0..2 * MaxRows, others : {0, 4 * MaxRows},
           index : {"no partition", "absent", "building", "ready"}, file : BOOLEAN]
Asks == [leg : {"vector", "hybrid", "keyword"}, restricted : BOOLEAN]
Init == /\ kb \in Stores /\ (kb.own => kb.table = "chunks")
        /\ ready = "unread" /\ tx = "ok" /\ set = {} /\ held = <<>> /\ at = "idle"
        /\ ask = [leg |-> "vector", restricted |-> FALSE] /\ known \in BOOLEAN /\ lost = {} /\ blame = {} /\ answer = "none"
        /\ degraded = FALSE /\ left = Searches /\ faults = Faults
Retired == kb.index # "no partition"   \* whatever its index is

Stay == UNCHANGED <<kb, ask>>
Fails == (tx = "aborted" /\ UNCHANGED faults) \/ (faults > 0 /\ faults' = faults - 1)
Holds == tx = "ok" /\ UNCHANGED faults
Go(to) == at' = to
\* A statement in no savepoint aborts the transaction, and the search raises.
Raises(what) == Fails /\ tx' = "aborted" /\ blame' = IF tx = "ok" THEN blame \union {what} ELSE blame
\* Leaving the open context managers, and then where.
Leave(to) == at' = IF held = <<>> THEN to ELSE "restore"

-----------------------------------------------------------------------------
(* The vector leg. *)
Begin == /\ at = "idle" /\ left > 0 /\ left' = left - 1
         /\ ask' \in Asks /\ answer' = "none" /\ Go(IF ask'.leg = "keyword" THEN "pg" ELSE "iterative")
         /\ UNCHANGED <<kb, ready, tx, set, held, known, lost, blame, degraded, faults>>
Route == IF ask.restricted THEN "insist" ELSE IF kb.table = "chunks" THEN "probe" ELSE "floor"
IterativeSet == at = "iterative" /\ Holds /\ set' = set \union {"iterative"} /\ Go(Route) /\ UNCHANGED <<tx, blame>>
\* "Logged, and the search still works": but the statement is in no savepoint.
IterativeFails == at = "iterative" /\ Raises("iterative") /\ Go(Route) /\ UNCHANGED set
ApplyIterativeScan == (IterativeSet \/ IterativeFails) /\ Stay /\ UNCHANGED <<ready, held, known, lost, answer, degraded, left>>

\* Reads the priors and prices the methods out, both or neither; without them the search goes on.
PriceOut(gucs, to) ==
    /\ \/ Holds /\ set' = set \union gucs /\ held' = <<[back |-> set \intersect gucs, of |-> gucs]>> \o held
       \/ Fails /\ UNCHANGED <<set, held>>
    /\ Go(to) /\ UNCHANGED <<ready, tx, known, lost, blame, answer, degraded, left>> /\ Stay
InsistOnExact == at = "insist" /\ PriceOut({"indexscan"}, "run")

\* This knowledge base's partial index: None, which is neither, where the probe fails.
Probe == /\ at = "probe"
         /\ \/ Holds /\ Go(IF kb.own THEN "sort" ELSE "floor")
            \/ Fails /\ Go("run")
         /\ UNCHANGED <<ready, tx, set, held, known, lost, blame, answer, degraded, left>> /\ Stay
PriceOutSort ==
    /\ at = "sort"
    /\ \/ Holds /\ set' = set \union {"sort"} /\ held' = <<[back |-> set \intersect {"sort"}, of |-> {"sort"}]>> \o held /\ Go("ef")
       \/ Fails /\ Go("run") /\ UNCHANGED <<set, held>>
    /\ UNCHANGED <<ready, tx, known, lost, blame, answer, degraded, left>> /\ Stay
\* Raised even where there was no prior to read, and then nothing puts it back.
RaiseEf ==
    /\ at = "ef"
    /\ \/ /\ Holds /\ set' = set \union {"ef"}
          /\ held' = IF known THEN <<[back |-> set \intersect {"ef"}, of |-> {"ef"}]>> \o held ELSE held
       \/ Fails /\ UNCHANGED <<set, held>>
    /\ Go("run") /\ UNCHANGED <<ready, tx, known, lost, blame, answer, degraded, left>> /\ Stay

\* Below the floor: count within the read budget, one more than it at most, and decide.
Floor == at = "floor" /\ MaxRows = 0 /\ Go("run") /\ UNCHANGED <<ready, tx, set, held, known, lost, blame, answer, degraded, left, faults>> /\ Stay
PriceOutScans == at = "floor" /\ MaxRows > 0 /\ PriceOut({"seqscan", "bitmapscan"}, "count")
Budget == 4 * MaxRows
\* Mutant: the population of this item table alone is held against the budget.
BelowByRows(rows, read) == rows <= MaxRows
Below(rows, read) == rows <= MaxRows /\ read <= Budget
Count == /\ at = "count"
         /\ LET read == IF kb.rows + kb.others > Budget THEN Budget + 1 ELSE kb.rows + kb.others
                not == IF held = <<>> THEN "run" ELSE "back out"
            IN \/ Holds /\ Go(IF Below(kb.rows, read) THEN "exact" ELSE not)
               \/ Fails /\ Go(not)
         /\ UNCHANGED <<ready, tx, set, held, known, lost, blame, answer, degraded, left>> /\ Stay

AfterVector == IF ask.leg = "hybrid" THEN "pg" ELSE "idle"
RunVector == /\ at \in {"run", "exact"} /\ known' = TRUE
             /\ \/ Holds /\ answer' = (IF at = "exact" THEN "exact" ELSE "vectors") /\ UNCHANGED <<tx, blame>> /\ Leave(AfterVector)
                \/ Raises("search") /\ answer' = "error" /\ Leave("idle")
             /\ UNCHANGED <<ready, set, held, lost, degraded, left>> /\ Stay

\* Each restore is in its own savepoint; one that fails leaves its settings for the transaction.
AfterLast == IF at = "back out" THEN "run" ELSE IF answer = "error" THEN "idle" ELSE AfterVector
PutBack == Holds /\ set' = (set \ Head(held).of) \union Head(held).back /\ UNCHANGED lost
\* Mutant: one handler for all the restores; the first that fails ends them.
RestoreTogether == /\ at \in {"restore", "back out"}
                   /\ \/ PutBack /\ held' = Tail(held) /\ Go(IF Len(held) > 1 THEN at ELSE AfterLast)
                      \/ Fails /\ lost' = lost \union Head(held).of /\ held' = <<>> /\ UNCHANGED set /\ Go(AfterLast)
                   /\ UNCHANGED <<ready, tx, known, blame, answer, degraded, left>> /\ Stay
Restore == /\ at \in {"restore", "back out"} /\ held' = Tail(held) /\ Go(IF Len(held) > 1 THEN at ELSE AfterLast)
           /\ \/ PutBack
              \/ Fails /\ lost' = lost \union Head(held).of /\ UNCHANGED set
           /\ UNCHANGED <<ready, tx, known, blame, answer, degraded, left>> /\ Stay

-----------------------------------------------------------------------------
(* The keyword leg: pg_search, the file, or the tsvector scan. *)
\* The readiness is cached, a failed read is not; the probe is in a savepoint.
PgIsUsable == /\ at = "pg"
              /\ \/ ready # "unread" /\ Go(IF ready = "ready" THEN "pg search" ELSE "retired") /\ UNCHANGED <<ready, faults>>
                 \/ ready = "unread" /\ Holds /\ ready' = kb.index /\ Go(IF kb.index = "ready" THEN "pg search" ELSE "retired")
                 \/ ready = "unread" /\ Fails /\ Go("retired") /\ UNCHANGED ready
              /\ UNCHANGED <<tx, set, held, known, lost, blame, answer, degraded, left>> /\ Stay
PgSearch == /\ at = "pg search"
            /\ \/ Holds /\ kb.index = "ready" /\ answer' = "index" /\ Go("idle")
               \/ (Fails \/ (kb.index # "ready" /\ UNCHANGED faults)) /\ Go("retired") /\ UNCHANGED answer
            /\ UNCHANGED <<ready, tx, set, held, known, lost, blame, degraded, left>> /\ Stay
FileIndexRetired ==
    /\ at = "retired"
    /\ \/ Holds /\ Go(IF Retired \/ ~kb.file THEN "tsvector" ELSE "file")
       \/ Fails /\ Go(IF kb.file THEN "file" ELSE "tsvector")   \* cannot tell: the file, if it has one
    /\ UNCHANGED <<ready, tx, set, held, known, lost, blame, answer, degraded, left>> /\ Stay
SearchFile == /\ at = "file" /\ Go("idle")
              /\ \/ Holds /\ answer' = "file" /\ UNCHANGED <<tx, blame>>
                 \/ Raises("items") /\ answer' = "error"
              /\ UNCHANGED <<ready, set, held, known, lost, degraded, left>> /\ Stay

\* keyword_search_for_hybrid: an empty leg, and the response says so. Alone, the timeout is the answer.
TimedOut == IF ask.leg = "hybrid" THEN degraded' = TRUE /\ answer' = "vectors" ELSE answer' = "timeout" /\ UNCHANGED degraded
\* Set, run and put back in one savepoint: a cancelled statement takes the setting with it.
FetchWithTimeout ==
    \/ Holds /\ answer' = "tsvector" /\ UNCHANGED degraded
    \/ tx = "ok" /\ faults > 0 /\ faults' = faults - 1 /\ TimedOut          \* cancelled by its own timeout
    \/ Fails /\ answer' = "error" /\ UNCHANGED degraded                     \* by anybody else, or broken
FullTextSearch == /\ at = "tsvector" /\ FetchWithTimeout /\ Go("idle")
                  /\ UNCHANGED <<ready, tx, set, held, known, lost, blame, left>> /\ Stay

\* The caches expire; builds end and are dropped; the request's transaction ends.
Elsewhere == /\ \/ ready' = "unread" /\ UNCHANGED kb
                \/ \E s \in {"absent", "building", "ready"} : Retired /\ kb' = [kb EXCEPT !.index = s] /\ UNCHANGED ready
             /\ left > 0 /\ left' = left - 1
             /\ UNCHANGED <<tx, set, held, at, ask, known, lost, blame, answer, degraded, faults>>
EndTransaction == /\ at = "idle" /\ tx' = "ok" /\ set' = {} /\ lost' = {} /\ blame' = {} /\ answer' = "none" /\ degraded' = FALSE
                  /\ UNCHANGED <<kb, ready, held, at, ask, known, left, faults>>

Next == \/ Begin \/ ApplyIterativeScan \/ InsistOnExact \/ Probe \/ PriceOutSort \/ RaiseEf \/ Floor \/ PriceOutScans
        \/ Count \/ RunVector \/ Restore \/ PgIsUsable \/ PgSearch \/ FileIndexRetired \/ SearchFile \/ FullTextSearch
        \/ Elsewhere \/ EndTransaction
Spec == Init /\ [][Next]_vars

-----------------------------------------------------------------------------
TypeOK == /\ kb \in Stores /\ tx \in {"ok", "aborted"} /\ set \union lost \subseteq Scans \union {"sort", "ef", "iterative"}
          /\ \A i \in 1..Len(held) : held[i].back \subseteq held[i].of
          /\ Len(held) <= 2 /\ (at = "idle" => held = <<>>)
(* A search leaves the transaction the settings it found: what it borrowed is
   back, whatever failed in between, unless the restore itself failed. The
   iterative scan is meant for the transaction, and so is ef_search on a
   connection that has not loaded pgvector. *)
GivenBack == at \in {"idle", "pg"} => set \subseteq lost \union {"iterative", "ef"}
(* The exact statement runs only on a population whose rows were counted, of
   every item table, within the read budget. *)
ExactWithinBudget == at = "exact" => kb.rows <= MaxRows /\ kb.rows + kb.others <= Budget /\ ~kb.own
(* No search is left with every way to read the table priced out, unless an
   earlier restore failed in this transaction. *)
SomeScanLeft == Scans \subseteq set => lost # {}
(* Only a statement of the search itself aborts the transaction: a probe, a
   setting, a restore or a keyword leg that fails leaves the rest of the
   request a transaction it can use. *)
OnlyOwnAborts == tx = "aborted" => blame # {}
(* "No-op (and logged) if pgvector is too old to know the GUC -- search still
   works, just without the fix": a search fails for its own statement. *)
SurvivesIterativeScan == answer = "error" => blame \ {"iterative"} # {}
=============================================================================
