-------------------------- MODULE IndexingWatchdog --------------------------
(***************************************************************************)
(* Indexing together with indexed_sources_watchdog_tick, which looks every *)
(* five minutes for rows whose worker died.  One tick asks the broker and  *)
(* the workers which index_source tasks are alive, selects the rows in     *)
(* 'indexing' whose owner is not among them, fails those out of attempts,  *)
(* resets the others to 'pending', and re-dispatches them one by one.      *)
(* Every one of those steps commits before the next begins.                *)
(***************************************************************************)
EXTENDS Indexing

CONSTANTS PartialInspect  \* TRUE: a worker may miss the inspect deadline

ASSUME WatchdogAssumption == PartialInspect \in BOOLEAN

VARIABLES
    tick,        \* position of the tick in progress
    alive,       \* _collect_alive_task_ids
    exhausted,   \* orphans it read at the attempts bound
    recoverable  \* the other orphans; in the end, those still to be re-dispatched

wdVars == <<tick, alive, exhausted, recoverable>>
allVars == <<vars, wdVars>>

WdTypeOK ==
    /\ tick \in {"idle", "collected", "selected", "failed", "dispatching"}
    /\ alive \subseteq Tasks
    /\ exhausted \subseteq Rows
    /\ recoverable \subseteq Rows

WdInit ==
    /\ tick = "idle"
    /\ alive = {}
    /\ exhausted = {}
    /\ recoverable = {}

-----------------------------------------------------------------------------
\* Seeded bug: a worker that runs nothing is reported with no task.
CollectIdle(repliers) ==
    /\ tick = "idle"
    /\ repliers = Workers \/ PartialInspect
    /\ alive' = {t \in Tasks : broker[t] = "queued"} \cup {task[w] : w \in repliers}
    /\ tick' = "collected"
    /\ UNCHANGED <<vars, exhausted, recoverable>>

\* lrange, inspect.active and inspect.reserved; then the gate: with nothing
\* alive, nothing queued and no reply the tick gives up.
Collect(repliers) ==
    /\ tick = "idle"
    /\ repliers = Workers \/ PartialInspect
    /\ LET queued == {t \in Tasks : broker[t] = "queued"}
           active == {task[w] : w \in {v \in repliers : pc[v] # "idle"}}
       IN  /\ queued # {} \/ active # {} \/ repliers # {}
           /\ alive' = queued \cup active
    /\ tick' = "collected"
    /\ UNCHANGED <<vars, exhausted, recoverable>>

\* Seeded bug: an orphan exactly at the bound is in neither half.
SelectPastBound ==
    /\ tick = "collected"
    /\ LET found == {r \in Rows : /\ status[r] = "indexing"
                                  /\ stale[r]
                                  /\ owner[r] \notin alive \cup {None}}
       IN  /\ exhausted' = {r \in found : attempts[r] > MaxAttempts}
           /\ recoverable' = {r \in found : attempts[r] < MaxAttempts}
           /\ tick' = IF found = {} THEN "idle" ELSE "selected"
    /\ alive' = {}
    /\ UNCHANGED vars

\* ORPHAN_QUERY, and the split of its rows by the attempts it read.
SelectOrphans ==
    /\ tick = "collected"
    /\ LET found == {r \in Rows : /\ status[r] = "indexing"
                                  /\ stale[r]
                                  /\ owner[r] \notin alive \cup {None}}
       IN  /\ exhausted' = {r \in found : attempts[r] >= MaxAttempts}
           /\ recoverable' = {r \in found : attempts[r] < MaxAttempts}
           /\ tick' = IF found = {} THEN "idle" ELSE "selected"
    /\ alive' = {}
    /\ UNCHANGED vars

\* Rows at the bound: terminal, fenced on the status only.
FailExhausted ==
    /\ tick = "selected"
    /\ status' = [r \in Rows |-> IF r \in exhausted /\ status[r] = "indexing"
                                 THEN "failed" ELSE status[r]]
    /\ exhausted' = {}
    /\ tick' = IF recoverable = {} THEN "idle" ELSE "failed"
    /\ UNCHANGED <<owner, attempts, stale, copies, results, ready, brokerVars,
                   workVars, userVars, crashes, alive, recoverable>>

\* The bulk reset of the others, fenced on the status only; the owner stays.
ResetOrphans ==
    /\ tick = "failed"
    /\ LET reset == {r \in recoverable : status[r] = "indexing"}
       IN  /\ status' = [r \in Rows |-> IF r \in reset THEN "pending" ELSE status[r]]
           /\ stale' = [r \in Rows |-> IF r \in reset THEN FALSE ELSE stale[r]]
    /\ tick' = "dispatching"
    /\ UNCHANGED <<owner, attempts, copies, results, ready, brokerVars, workVars,
                   userVars, crashes, alive, exhausted, recoverable>>

\* index_source.delay for one recovered row; a publish that raises is logged.
Redispatch(r) ==
    /\ tick = "dispatching"
    /\ r \in recoverable
    /\ \/ Publish(r)
       \/ Faults /\ UNCHANGED brokerVars
    /\ recoverable' = recoverable \ {r}
    /\ tick' = IF recoverable = {r} THEN "idle" ELSE tick
    /\ UNCHANGED <<rowVars, copies, results, ready, workVars, userVars, crashes,
                   alive, exhausted>>

\* The worker running the tick dies, or the tick raises (get_all_user_provider_keys,
\* say); the next tick starts from the rows.
WatchdogCrash ==
    /\ tick # "idle"
    /\ crashes < MaxCrashes
    /\ crashes' = crashes + 1
    /\ tick' = "idle"
    /\ alive' = {}
    /\ exhausted' = {}
    /\ recoverable' = {}
    /\ UNCHANGED <<rowVars, copies, results, ready, brokerVars, workVars, userVars>>

Tick ==
    \/ Collect(Workers)
    \/ SelectOrphans
    \/ FailExhausted
    \/ ResetOrphans
    \/ \E r \in Rows : Redispatch(r)

-----------------------------------------------------------------------------
\* Collecting takes two inspect timeouts of five seconds, so a claim made
\* meanwhile is not two minutes old when the orphan query runs.
AgeInTime(r) == tick # "collected" /\ Age(r)

SystemInit == Init /\ WdInit

SystemNext ==
    \/ Step /\ UNCHANGED wdVars
    \/ \E r \in Rows : AgeInTime(r) /\ UNCHANGED wdVars
    \/ Tick
    \/ \E repliers \in SUBSET Workers : Collect(repliers)
    \/ WatchdogCrash

SystemSpec == SystemInit /\ [][SystemNext]_allVars

\* The threads of the pool, the broker and the ticks keep going; so does a
\* request that has begun.  Users, crashes and failures owe nothing.
Progress(w) ==
    \/ \E t \in Tasks : Fetch(w, t)
    \/ Check(w) \/ Reject(w) \/ Claim(w) \/ ClearArtifacts(w) \/ WriteArtifacts(w)
    \/ CommitIndexed(w) \/ Requeue(w) \/ SideEffects(w) \/ Acknowledge(w)

Fairness ==
    /\ \A w \in Workers : WF_allVars(Progress(w) /\ UNCHANGED wdVars)
    /\ \A d \in [row: Rows, kind: Kinds] :
         WF_allVars(d \in dispatching /\ (Dispatch(d) \/ DispatchFails(d)) /\ UNCHANGED wdVars)
    /\ \A r \in Rows : /\ WF_allVars(CancelEnd(r) /\ UNCHANGED wdVars)
                       /\ SF_allVars(AgeInTime(r) /\ UNCHANGED wdVars)
    /\ \A t \in Tasks : WF_allVars(Running(t) = {} /\ Redeliver(t) /\ UNCHANGED wdVars)
    /\ WF_allVars(Tick)

FairSpec == SystemSpec /\ Fairness

-----------------------------------------------------------------------------
(* Properties *)

\* Between two requests of the user no row is claimed more than MAX_ATTEMPTS
\* times, and once more: both writers that put a row back to 'pending' by
\* themselves (_handle_storage_error and the tick) look at the count first, but
\* the tick goes by the count it read, and a retry may claim the row in between.
AttemptsBound == \A r \in Rows : attempts[r] <= MaxAttempts + 1

\* At most one run between its claim and its last write owns a row.
OneOwner ==
    \A v, w \in Workers :
        ( /\ pc[v] \in Owning /\ Owns(v)
          /\ pc[w] \in Owning /\ Owns(w)
          /\ RowOf(v) = RowOf(w) )
        => v = w

\* One request of the user commits at most one result.
OneResult == \A r \in Rows : results[r] <= 1

\* What an indexed row's tables hold was written once, not twice over.
NoDuplicates == \A r \in Rows : status[r] = "indexed" => copies[r] <= 1

\* Somebody is still going to look at row r.
Coming(r) ==
    \/ \E t \in Tasks : /\ msg[t] = r /\ t \notin revoked
                        /\ broker[t] = "queued" \/ (broker[t] = "unacked" /\ Running(t) = {})
    \/ \E w \in Workers :
          /\ pc[w] \in {"check", "reject", "claim", "requeue"} \cup Owning
          /\ RowOf(w) = r
          /\ pc[w] \in Owning => Owns(w)
    \/ \E d \in dispatching : d.row = r
    \/ tick = "dispatching" /\ r \in recoverable
    \/ r \in cancelling

\* A row waiting in 'pending', which no reconciler looks at, is not left without
\* a message, a run or a request that will move it on.  One death, of a run or of
\* the reconciler, strands no row, since the message of whoever died comes back;
\* however many die, they strand only rows that the reconciler has reset, which
\* keep the dead owner's id, and has not re-dispatched.  (Not so once the user
\* cancels: a storage error may take the row out of 'cancelled' again, and its
\* message is discarded if the worker dies before the re-dispatch.)
PendingIsComing ==
    \A r \in Rows :
        status[r] = "pending" /\ (owner[r] = None \/ crashes <= 1) => Coming(r)

\* An indexed row has artifacts.
IndexedHasArtifacts == \A r \in Rows : status[r] = "indexed" => copies[r] > 0

\* Whatever happens to its workers and whatever it is retried for, a row that was
\* dispatched comes to an end: it does not stay in pending or indexing, nor go from
\* one to the other for ever, unless the user asks for it again
\* (_find_and_recover_orphans, _handle_storage_error).
RowsResolve ==
    \A r \in Rows : status[r] \in {"pending", "indexing"} ~>
        status[r] \notin {"pending", "indexing"} \/ \E d \in dispatching : d.row = r

\* An indexed row stays indexed until the user asks for something else: no late
\* run, duplicate delivery, reconciler or failure handler takes it back.
IndexedStays ==
    [][\A r \in Rows :
         status[r] = "indexed" =>
            \/ status'[r] \in {"indexed", "cancelled", "removed"}
            \/ status'[r] = "pending" /\ attempts'[r] = 0]_allVars

\* Only a new request takes a row out of 'cancelled'.
CancelSticks ==
    [][\A r \in Rows :
         status[r] = "cancelled" =>
            \/ status'[r] \in {"cancelled", "removed"}
            \/ status'[r] = "pending" /\ attempts'[r] = 0]_allVars

\* A task is revoked only once its row says 'cancelled'.
RevokeAfterCancel ==
    [][\A t \in revoked' \ revoked : status[msg[t]] = "cancelled"]_allVars

\* The reset of the reconciler yields to whatever moved the row on: it takes no
\* row from a run that is under way.
ResetYields ==
    [][\A w \in Workers :
         (tick # tick' /\ pc[w] \in Owning /\ Owns(w))
            => status'[RowOf(w)] = status[RowOf(w)]]_allVars

\* A task that never claimed the row does not write over a run that has.
UnclaimedWritesNothing ==
    [][\A v, w \in Workers :
         ( /\ pc[v] = "reject" /\ pc'[v] = "done"
           /\ pc[w] \in Owning /\ Owns(w) )
            => status'[RowOf(w)] = status[RowOf(w)]]_allVars

\* A row the reconciler has reset, which still carries the dead task's id, is
\* re-dispatched or made terminal.
RecoveredIsComing ==
    \A r \in Rows :
        (status[r] = "pending" /\ owner[r] # None) => Coming(r)

\* Nothing is left of a removed row.
RemovedIsEmpty == \A r \in Rows : ~Present(r) => copies[r] = 0
=============================================================================
