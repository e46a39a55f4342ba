------------------------------ MODULE Indexing ------------------------------
(***************************************************************************)
(* The life of the rows of ai.indexed_sources: one row per (knowledge     *)
(* base, source), indexed by the Celery task index_source, which Redis    *)
(* delivers at least once.                                                 *)
(*                                                                         *)
(* A row is claimed by compare-and-swap (pending -> indexing, recording    *)
(* the task's id as owner); the run then deletes the row's artifacts, each *)
(* delete committed on its own, and its last write is fenced on still      *)
(* owning the row.  Routes reset, cancel and remove rows at any moment.    *)
(* The reconciler of rows whose worker died is IndexingWatchdog, which     *)
(* extends this module.                                                    *)
(*                                                                         *)
(* A task id stands for a uuid4: one that is acknowledged and that nothing *)
(* refers to any more is used again, which keeps the state space finite    *)
(* without bounding the number of requests.                                *)
(***************************************************************************)
EXTENDS Naturals, FiniteSets

CONSTANTS
    Rows,            \* ids of indexed_sources rows
    Tasks,           \* Celery task ids
    Workers,         \* threads of the worker pool, one per process
    None,            \* SQL NULL
    MaxAttempts,     \* MAX_ATTEMPTS (INDEXING_MAX_ATTEMPTS)
    Routes,          \* the requests users make: add, reindex, cancel, remove, reextract
    EarlyCommit,     \* TRUE: page_index, graph_index, full_document, doc2json
    Faults,          \* TRUE: publishes, balance checks and pre-claim reads may fail
    LiveRedelivery,  \* TRUE: a run may outlive the broker's visibility timeout
    MaxCrashes,      \* bound on the crashes explored
    Headroom         \* bound: users ask only while this many task ids are free

ASSUME IndexingAssumption ==
    /\ None \notin Tasks \cup Rows
    /\ Routes \subseteq {"add", "reindex", "cancel", "remove", "reextract"}
    /\ MaxAttempts \in Nat \ {0}
    /\ {MaxCrashes, Headroom} \subseteq Nat
    /\ {EarlyCommit, Faults, LiveRedelivery} \subseteq BOOLEAN

VARIABLES
    status,       \* index_status; "none" before the row exists, "removed" after
    owner,        \* celery_task_id
    attempts,     \* attempts
    stale,        \* last_dispatched_at is more than two minutes ago
    copies,       \* complete sets of artifacts the item tables hold: 0, 1, 2 = several
    results,      \* results committed since the user last asked: 0, 1, 2 = several
    ready,        \* sources.extraction_status = 'extracted'
    msg,          \* the row a task's message is about
    broker,       \* where a task's message is: queued, unacked or acked
    revoked,      \* task ids the workers discard on receipt
    pc,           \* how far each worker has come
    task,         \* the task each worker runs
    dispatching,  \* requests that have committed the reset and not yet published
    cancelling,   \* requests that have revoked and not yet written 'cancelled'
    crashes       \* crashes so far

rowVars == <<status, owner, attempts, stale>>
brokerVars == <<msg, broker, revoked>>
workVars == <<pc, task>>
userVars == <<dispatching, cancelling>>
vars == <<rowVars, copies, results, ready, brokerVars, workVars, userVars, crashes>>

-----------------------------------------------------------------------------
Absent == {"none", "removed"}
Statuses == {"pending", "indexing", "indexed", "failed", "cancelled"} \cup Absent
Kinds == {"add", "reindex"}

\* Positions of a run.  From "claimed" to "written" it believes it owns the row.
Owning == {"claimed", "cleared", "written"}
Positions == {"idle", "check", "reject", "claim"} \cup Owning
             \cup {"committed", "requeue", "done"}

Present(r) == status[r] \notin Absent
RowOf(w) == msg[task[w]]
Owns(w) == Present(RowOf(w)) /\ owner[RowOf(w)] = task[w]
Running(t) == {w \in Workers : task[w] = t}
More(n) == IF n = 2 THEN 2 ELSE n + 1

TypeOK ==
    /\ status \in [Rows -> Statuses]
    /\ owner \in [Rows -> Tasks \cup {None}]
    /\ attempts \in [Rows -> Nat]
    /\ stale \in [Rows -> BOOLEAN]
    /\ copies \in [Rows -> 0..2]
    /\ results \in [Rows -> 0..2]
    /\ ready \in [Rows -> BOOLEAN]
    /\ msg \in [Tasks -> Rows \cup {None}]
    /\ broker \in [Tasks -> {"queued", "unacked", "acked"}]
    /\ revoked \subseteq Tasks
    /\ pc \in [Workers -> Positions]
    /\ task \in [Workers -> Tasks \cup {None}]
    /\ dispatching \subseteq [row: Rows, kind: Kinds]
    /\ cancelling \subseteq Rows
    /\ crashes \in 0..MaxCrashes
    /\ \A w \in Workers : pc[w] # "idle" => task[w] \in Tasks /\ RowOf(w) \in Rows
    /\ \A t \in Tasks : broker[t] # "acked" => msg[t] \in Rows

Init ==
    /\ status = [r \in Rows |-> "none"]
    /\ owner = [r \in Rows |-> None]
    /\ attempts = [r \in Rows |-> 0]
    /\ stale = [r \in Rows |-> FALSE]
    /\ copies = [r \in Rows |-> 0]
    /\ results = [r \in Rows |-> 0]
    /\ ready = [r \in Rows |-> TRUE]
    /\ msg = [t \in Tasks |-> None]
    /\ broker = [t \in Tasks |-> "acked"]
    /\ revoked = {}
    /\ pc = [w \in Workers |-> "idle"]
    /\ task = [w \in Workers |-> None]
    /\ dispatching = {}
    /\ cancelling = {}
    /\ crashes = 0

-----------------------------------------------------------------------------
(* Publishing *)

FreshTasks ==
    {t \in Tasks : /\ broker[t] = "acked"
                   /\ \A r \in Rows : owner[r] # t
                   /\ Running(t) = {}}

\* The message leaves the broker.  When no other worker runs it either, what it
\* was about no longer matters.
Retire(t, others) ==
    /\ broker' = [broker EXCEPT ![t] = "acked"]
    /\ msg' = IF others = {} THEN [msg EXCEPT ![t] = None] ELSE msg
    /\ revoked' = IF others = {} THEN revoked \ {t} ELSE revoked

\* celery_app.control.revoke(owner), when there is one and it has a message.
Revoke(r) == revoked' = revoked \cup {t \in Tasks : t = owner[r] /\ broker[t] # "acked"}

\* Seeded bug: the message does not name its row.
PublishUnnamed(r) ==
    \E t \in FreshTasks :
        /\ msg' = [msg EXCEPT ![t] = None]
        /\ broker' = [broker EXCEPT ![t] = "queued"]
        /\ revoked' = revoked \ {t}

\* index_source.delay(kb, source, indexed_source_id = r)
Publish(r) ==
    \E t \in FreshTasks :
        /\ msg' = [msg EXCEPT ![t] = r]
        /\ broker' = [broker EXCEPT ![t] = "queued"]
        /\ revoked' = revoked \ {t}

-----------------------------------------------------------------------------
(* Routes *)

\* Task ids run out in no program: the instances stop asking before they do.
Headway == Cardinality(FreshTasks) >= Headroom + Cardinality(dispatching)

\* What every route that asks for an indexing run writes to the row.
Reset(r) ==
    /\ status' = [status EXCEPT ![r] = "pending"]
    /\ owner' = [owner EXCEPT ![r] = None]
    /\ attempts' = [attempts EXCEPT ![r] = 0]
    /\ stale' = [stale EXCEPT ![r] = FALSE]
    /\ results' = [results EXCEPT ![r] = 0]

\* POST /<kb>/sources: insert or upsert the row, to be dispatched after the commit.
AddSource(r) ==
    /\ "add" \in Routes /\ Headway
    /\ ready[r]
    /\ status[r] # "removed"
    /\ Reset(r)
    /\ dispatching' = dispatching \cup {[row |-> r, kind |-> "add"]}
    /\ UNCHANGED <<copies, ready, brokerVars, workVars, cancelling, crashes>>

\* POST /<kb>/reindex with ids: reset whatever the row's status is.
Reindex(r) ==
    /\ "reindex" \in Routes /\ Headway
    /\ Present(r)
    /\ Reset(r)
    /\ dispatching' = dispatching \cup {[row |-> r, kind |-> "reindex"]}
    /\ UNCHANGED <<copies, ready, brokerVars, workVars, cancelling, crashes>>

\* The request goes on to publish the task it promised.
Dispatch(d) ==
    /\ Publish(d.row)
    /\ dispatching' = dispatching \ {d}
    /\ UNCHANGED <<rowVars, copies, results, ready, workVars, cancelling, crashes>>

\* The publish raises.  Adding a source writes 'failed', fenced on nothing;
\* re-indexing has no handler and leaves the row as the reset left it.
DispatchFails(d) ==
    /\ Faults
    /\ dispatching' = dispatching \ {d}
    /\ IF d.kind = "add" /\ Present(d.row)
       THEN status' = [status EXCEPT ![d.row] = "failed"]
       ELSE UNCHANGED status
    /\ UNCHANGED <<owner, attempts, stale, copies, results, ready, brokerVars,
                   workVars, cancelling, crashes>>

\* Adding a source checks the balance after the commit: a refusal ends the request.
BalanceRefused(d) ==
    /\ Faults
    /\ d.kind = "add"
    /\ dispatching' = dispatching \ {d}
    /\ UNCHANGED <<rowVars, copies, results, ready, brokerVars, workVars,
                   cancelling, crashes>>

\* POST .../cancel, first half: read the status, revoke the owner.
CancelBegin(r) ==
    /\ "cancel" \in Routes
    /\ status[r] \in {"pending", "indexing"}
    /\ cancelling' = cancelling \cup {r}
    /\ Revoke(r)
    /\ UNCHANGED <<rowVars, copies, results, ready, msg, broker, workVars,
                   dispatching, crashes>>

\* POST .../cancel, second half: write 'cancelled' over whatever is there now.
CancelEnd(r) ==
    /\ r \in cancelling
    /\ cancelling' = cancelling \ {r}
    /\ IF Present(r) THEN status' = [status EXCEPT ![r] = "cancelled"]
                     ELSE UNCHANGED status
    /\ UNCHANGED <<owner, attempts, stale, copies, results, ready, brokerVars,
                   workVars, dispatching, crashes>>

\* DELETE .../<indexed_source>: revoke a task in flight, delete the row; the
\* foreign keys cascade to every item table.
RemoveSource(r) ==
    /\ "remove" \in Routes
    /\ Present(r)
    /\ IF status[r] \in {"pending", "indexing"} THEN Revoke(r) ELSE UNCHANGED revoked
    /\ status' = [status EXCEPT ![r] = "removed"]
    /\ owner' = [owner EXCEPT ![r] = None]
    /\ attempts' = [attempts EXCEPT ![r] = 0]
    /\ stale' = [stale EXCEPT ![r] = FALSE]
    /\ copies' = [copies EXCEPT ![r] = 0]
    /\ results' = [results EXCEPT ![r] = 0]
    /\ UNCHANGED <<ready, msg, broker, workVars, userVars, crashes>>

\* A re-extraction takes the source out of 'extracted' and brings it back.
SourceChanges(r) ==
    /\ "reextract" \in Routes
    /\ ready' = [ready EXCEPT ![r] = ~@]
    /\ UNCHANGED <<rowVars, copies, results, brokerVars, workVars, userVars, crashes>>

-----------------------------------------------------------------------------
(* The broker *)

\* Seeded bug: without acks_late, the message is gone when the run begins.
FetchEarlyAck(w, t) ==
    /\ pc[w] = "idle"
    /\ broker[t] = "queued"
    /\ t \notin revoked
    /\ broker' = [broker EXCEPT ![t] = "acked"]
    /\ pc' = [pc EXCEPT ![w] = "check"]
    /\ task' = [task EXCEPT ![w] = t]
    /\ UNCHANGED <<rowVars, copies, results, ready, msg, revoked, userVars, crashes>>

\* A worker takes a message; it discards the message of a revoked task.
Fetch(w, t) ==
    /\ pc[w] = "idle"
    /\ broker[t] = "queued"
    /\ IF t \in revoked
       THEN /\ Retire(t, Running(t))
            /\ UNCHANGED workVars
       ELSE /\ broker' = [broker EXCEPT ![t] = "unacked"]
            /\ pc' = [pc EXCEPT ![w] = "check"]
            /\ task' = [task EXCEPT ![w] = t]
            /\ UNCHANGED <<msg, revoked>>
    /\ UNCHANGED <<rowVars, copies, results, ready, userVars, crashes>>

\* acks_late: the message is acknowledged when the task has returned.  One that
\* was redelivered meanwhile stays in the queue.
Acknowledge(w) ==
    /\ pc[w] = "done"
    /\ pc' = [pc EXCEPT ![w] = "idle"]
    /\ task' = [task EXCEPT ![w] = None]
    /\ IF broker[task[w]] = "queued" THEN UNCHANGED brokerVars
       ELSE Retire(task[w], Running(task[w]) \ {w})
    /\ UNCHANGED <<rowVars, copies, results, ready, userVars, crashes>>

\* Seeded bug: a visibility timeout shorter than a run.
RedeliverEarly(t) ==
    /\ broker[t] = "unacked"
    /\ broker' = [broker EXCEPT ![t] = "queued"]
    /\ UNCHANGED <<rowVars, copies, results, ready, msg, revoked, workVars,
                   userVars, crashes>>

\* An unacknowledged message becomes visible again: its worker died, or its
\* run outlived the visibility timeout.
Redeliver(t) ==
    /\ broker[t] = "unacked"
    /\ Running(t) = {} \/ LiveRedelivery
    /\ broker' = [broker EXCEPT ![t] = "queued"]
    /\ UNCHANGED <<rowVars, copies, results, ready, msg, revoked, workVars,
                   userVars, crashes>>

\* The worker's process dies: its run and its open transaction are lost.
Crash(w) ==
    /\ pc[w] # "idle"
    /\ crashes < MaxCrashes
    /\ crashes' = crashes + 1
    /\ pc' = [pc EXCEPT ![w] = "idle"]
    /\ task' = [task EXCEPT ![w] = None]
    /\ UNCHANGED <<rowVars, copies, results, ready, brokerVars, userVars>>

-----------------------------------------------------------------------------
(* index_source *)

Goto(w, position) == pc' = [pc EXCEPT ![w] = position] /\ UNCHANGED task

\* The reads ahead of the claim: the source must be extracted, the row not
\* cancelled.  A raise here is logged and leaves the row alone.
Check(w) ==
    /\ pc[w] = "check"
    /\ \/ Goto(w, IF ~ready[RowOf(w)] THEN "reject"
                  ELSE IF status[RowOf(w)] = "cancelled" THEN "done"
                  ELSE "claim")
       \/ Faults /\ Goto(w, "done")
    /\ UNCHANGED <<rowVars, copies, results, ready, brokerVars, userVars, crashes>>

\* _mark_indexed_source_failed: a task that owns nothing writes 'failed'.
Reject(w) ==
    /\ pc[w] = "reject"
    /\ IF Present(RowOf(w)) THEN status' = [status EXCEPT ![RowOf(w)] = "failed"]
                            ELSE UNCHANGED status
    /\ Goto(w, "done")
    /\ UNCHANGED <<owner, attempts, stale, copies, results, ready, brokerVars,
                   userVars, crashes>>

\* _claim_indexed_source: compare-and-swap pending -> indexing.
Claim(w) ==
    /\ pc[w] = "claim"
    /\ LET r == RowOf(w) IN
       IF status[r] = "pending"
       THEN /\ status' = [status EXCEPT ![r] = "indexing"]
            /\ owner' = [owner EXCEPT ![r] = task[w]]
            /\ attempts' = [attempts EXCEPT ![r] = @ + 1]
            /\ stale' = [stale EXCEPT ![r] = FALSE]
            /\ Goto(w, "claimed")
       ELSE UNCHANGED rowVars /\ Goto(w, "done")
    /\ UNCHANGED <<copies, results, ready, brokerVars, userVars, crashes>>

\* Seeded bug: a run adds to the artifacts of the runs before it.
ClearNothing(w) ==
    /\ pc[w] = "claimed"
    /\ Goto(w, "cleared")
    /\ UNCHANGED <<rowVars, copies, results, ready, brokerVars, userVars, crashes>>

\* The deletes, each committed on its own and none of them fenced.
ClearArtifacts(w) ==
    /\ pc[w] = "claimed"
    /\ copies' = [copies EXCEPT ![RowOf(w)] = 0]
    /\ Goto(w, "cleared")
    /\ UNCHANGED <<rowVars, results, ready, brokerVars, userVars, crashes>>

\* Seeded bug: item tables without the foreign key.
WriteOrphaned(w) ==
    /\ EarlyCommit
    /\ pc[w] = "cleared"
    /\ copies' = [copies EXCEPT ![RowOf(w)] = More(@)]
    /\ Goto(w, "written")
    /\ UNCHANGED <<rowVars, results, ready, brokerVars, userVars, crashes>>

\* A strategy that commits its artifacts inside its own run function, ahead of
\* the fence.  A row removed meanwhile fails the foreign key (see RunFails).
WriteArtifacts(w) ==
    /\ EarlyCommit
    /\ pc[w] = "cleared"
    /\ Present(RowOf(w))
    /\ copies' = [copies EXCEPT ![RowOf(w)] = More(@)]
    /\ Goto(w, "written")
    /\ UNCHANGED <<rowVars, results, ready, brokerVars, userVars, crashes>>

\* Seeded bug: the last write goes by the row's id alone.
CommitUnfenced(w) ==
    /\ pc[w] = (IF EarlyCommit THEN "written" ELSE "cleared")
    /\ Present(RowOf(w))
    /\ status' = [status EXCEPT ![RowOf(w)] = "indexed"]
    /\ results' = [results EXCEPT ![RowOf(w)] = More(@)]
    /\ copies' = IF EarlyCommit THEN copies
                 ELSE [copies EXCEPT ![RowOf(w)] = More(@)]
    /\ Goto(w, "committed")
    /\ UNCHANGED <<owner, attempts, stale, ready, brokerVars, userVars, crashes>>

\* _fenced_mark_indexed and the commit.  chunk_embed's inserts are in the same
\* transaction; a run that lost the row rolls them back and returns.
CommitIndexed(w) ==
    /\ pc[w] = (IF EarlyCommit THEN "written" ELSE "cleared")
    /\ LET r == RowOf(w) IN
       IF Owns(w)
       THEN /\ status' = [status EXCEPT ![r] = "indexed"]
            /\ results' = [results EXCEPT ![r] = More(@)]
            /\ copies' = IF EarlyCommit THEN copies
                         ELSE [copies EXCEPT ![r] = More(@)]
            /\ Goto(w, "committed")
       ELSE UNCHANGED <<status, results, copies>> /\ Goto(w, "done")
    /\ UNCHANGED <<owner, attempts, stale, ready, brokerVars, userVars, crashes>>

\* Seeded bug: the failure is written by the row's id alone.
FailUnfenced(w) ==
    /\ pc[w] \in Owning
    /\ IF Present(RowOf(w)) THEN status' = [status EXCEPT ![RowOf(w)] = "failed"]
                            ELSE UNCHANGED status
    /\ Goto(w, "done")
    /\ UNCHANGED <<owner, attempts, stale, copies, results, ready, brokerVars,
                   userVars, crashes>>

\* No text, or an exception of the strategy: _fenced_mark_failed.
RunFails(w) ==
    /\ pc[w] \in Owning
    /\ IF Owns(w) THEN status' = [status EXCEPT ![RowOf(w)] = "failed"]
                  ELSE UNCHANGED status
    /\ Goto(w, "done")
    /\ UNCHANGED <<owner, attempts, stale, copies, results, ready, brokerVars,
                   userVars, crashes>>

\* Seeded bug: a storage error is always worth another attempt.
StorageFailsForEver(w) ==
    /\ pc[w] \in Owning
    /\ IF Owns(w)
       THEN /\ status' = [status EXCEPT ![RowOf(w)] = "pending"]
            /\ owner' = [owner EXCEPT ![RowOf(w)] = None]
            /\ Goto(w, "requeue")
       ELSE UNCHANGED <<status, owner>> /\ Goto(w, "done")
    /\ UNCHANGED <<attempts, stale, copies, results, ready, brokerVars, userVars,
                   crashes>>

\* _handle_storage_error up to its commit: back to 'pending' while attempts
\* remain, 'failed' at the bound, both fenced on owning the row.
StorageFails(w) ==
    /\ pc[w] \in Owning
    /\ LET r == RowOf(w) IN
       IF ~Owns(w)
       THEN UNCHANGED <<status, owner>> /\ Goto(w, "done")
       ELSE IF attempts[r] < MaxAttempts
       THEN /\ status' = [status EXCEPT ![r] = "pending"]
            /\ owner' = [owner EXCEPT ![r] = None]
            /\ Goto(w, "requeue")
       ELSE /\ status' = [status EXCEPT ![r] = "failed"]
            /\ UNCHANGED owner
            /\ Goto(w, "done")
    /\ UNCHANGED <<attempts, stale, copies, results, ready, brokerVars, userVars,
                   crashes>>

\* Seeded bug: the row is put back and the re-dispatch forgotten.
RequeueNothing(w) ==
    /\ pc[w] = "requeue"
    /\ Goto(w, "done")
    /\ UNCHANGED <<rowVars, copies, results, ready, brokerVars, userVars, crashes>>

\* _handle_storage_error after its commit: re-dispatch under a new task id.
Requeue(w) ==
    /\ pc[w] = "requeue"
    /\ \/ Publish(RowOf(w))
       \/ Faults /\ UNCHANGED brokerVars
    /\ Goto(w, "done")
    /\ UNCHANGED <<rowVars, copies, results, ready, userVars, crashes>>

\* Sparse index, vector index dispatch, charge, enrichment: nothing that can
\* reach the row again, whatever raises.
SideEffects(w) ==
    /\ pc[w] = "committed"
    /\ Goto(w, "done")
    /\ UNCHANGED <<rowVars, copies, results, ready, brokerVars, userVars, crashes>>

-----------------------------------------------------------------------------
\* last_dispatched_at becomes older than the reconciler's two minutes.
Age(r) ==
    /\ status[r] = "indexing"
    /\ ~stale[r]
    /\ stale' = [stale EXCEPT ![r] = TRUE]
    /\ UNCHANGED <<status, owner, attempts, copies, results, ready, brokerVars,
                   workVars, userVars, crashes>>

Request ==
    \/ \E r \in Rows : \/ AddSource(r) \/ Reindex(r) \/ CancelBegin(r)
                       \/ RemoveSource(r) \/ SourceChanges(r)

FinishRequest ==
    \/ \E d \in dispatching : Dispatch(d) \/ DispatchFails(d) \/ BalanceRefused(d)
    \/ \E r \in Rows : CancelEnd(r)

Run(w) ==
    \/ \E t \in Tasks : Fetch(w, t)
    \/ Check(w) \/ Reject(w) \/ Claim(w) \/ ClearArtifacts(w) \/ WriteArtifacts(w)
    \/ CommitIndexed(w) \/ RunFails(w) \/ StorageFails(w) \/ Requeue(w)
    \/ SideEffects(w) \/ Acknowledge(w)

Step ==
    \/ Request
    \/ FinishRequest
    \/ \E w \in Workers : Run(w) \/ Crash(w)
    \/ \E t \in Tasks : Redeliver(t)

Next == Step \/ \E r \in Rows : Age(r)

Spec == Init /\ [][Next]_vars
=============================================================================
