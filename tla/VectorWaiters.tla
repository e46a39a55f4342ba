--------------------------- MODULE VectorWaiters ---------------------------
(* The reconciles of one knowledge base's vector index while another knowledge
   base's build owns the table (tasks/indexing.py): one of them waits, under a
   marker in Redis, and the dispatches that come meanwhile end superseded and
   leave a flag for it. Both keys expire. *)
EXTENDS Naturals

CONSTANTS Slots,      \* the tasks of this knowledge base
          None,
          MaxLooks,   \* PER_KB_TABLE_MAX_WAITS and PG_BM25_TASK_MAX_RETRIES, as one budget
          Events      \* a bound on dispatches, lapses and failures

VARIABLES marker,   \* the task that waits (_waiter_key)
          pending,  \* a dispatch was superseded (_waiter_pending_key)
          task,     \* how far each task is, and its looks so far
          table,    \* whose the embeddings table is
          owed,     \* something was dispatched that no survey has covered
          excuse,   \* why nothing may come back for it
          left
vars == <<marker, pending, task, table, owed, excuse, left>>

Idle == [at |-> "idle", looks |-> 0]
Init == /\ marker = None /\ pending = FALSE /\ task = [s \in Slots |-> Idle]
        /\ table = "free" /\ owed = FALSE /\ excuse = {} /\ left = Events
TypeOK == /\ marker \in Slots \union {None} /\ table \in {"free", "others", "ours"}
          /\ \A s \in Slots : task[s].at \in {"idle", "queued", "mark", "look", "survey", "claim", "late", "work", "release", "again"}
          /\ table = "ours" <=> \E s \in Slots : task[s].at = "work"

Go(s, at) == task' = [task EXCEPT ![s].at = at]
Spend == left > 0 /\ left' = left - 1
Says(why) == excuse' = IF owed THEN excuse \union {why} ELSE excuse
Waiter(s) == marker \notin {None, s}

-----------------------------------------------------------------------------
Dispatch(s) == /\ task[s].at = "idle" /\ Spend /\ task' = [task EXCEPT ![s] = [at |-> "queued", looks |-> 0]]
               /\ owed' = TRUE /\ UNCHANGED <<marker, pending, table, excuse>>
\* Somebody else's build or drop takes the table, and gives it back.
Others == /\ table' = (CASE table = "free" -> "others" [] table = "others" -> "free" [] OTHER -> "ours") /\ table # "ours"
          /\ UNCHANGED <<marker, pending, task, owed, excuse, left>>

\* ensure_per_kb_vector_index: with a waiter about, the flag first and then a second look.
Enter(s) == /\ task[s].at = "queued" /\ Go(s, IF Waiter(s) THEN "mark" ELSE "survey")
            /\ UNCHANGED <<marker, pending, table, owed, excuse, left>>
\* Mutant: a dispatch that found a waiter leaves the flag and ends.
MarkAndEnd(s) == /\ task[s].at = "mark" /\ pending' = TRUE /\ Go(s, "idle")
                 /\ UNCHANGED <<marker, table, owed, excuse, left>>
Mark(s) == /\ task[s].at = "mark" /\ pending' = TRUE /\ Go(s, "look")
           /\ UNCHANGED <<marker, table, owed, excuse, left>>
Look(s) == /\ task[s].at = "look"
           /\ IF Waiter(s) THEN Go(s, "idle") /\ UNCHANGED pending ELSE Go(s, "survey") /\ pending' = FALSE
           /\ UNCHANGED <<marker, table, owed, excuse, left>>

\* The reconcile. An index that another task of this knowledge base is building is that task's work.
Survey(s) ==
    /\ task[s].at = "survey"
    /\ IF table = "others" THEN Go(s, "claim") /\ UNCHANGED <<table, owed, excuse>>
       ELSE /\ owed' = FALSE /\ excuse' = {} /\ table' = "ours" /\ Go(s, IF table = "ours" THEN "release" ELSE "work")
    /\ UNCHANGED <<marker, pending, left>>
\* Any other retry, and a failure, give the marker back.
SurveyFails(s) ==
    /\ task[s].at = "survey" /\ Spend
    /\ \/ Go(s, "release") /\ Says("failed")
       \/ Go(s, "again") /\ task[s].looks < MaxLooks /\ UNCHANGED excuse
    /\ UNCHANGED <<marker, pending, table, owed>>
WorkEnds(s) == /\ task[s].at = "work" /\ table' = "free" /\ Go(s, "release")
               /\ UNCHANGED <<marker, pending, owed, excuse, left>>

\* _claim_waiter and the reschedule. A refused publish, or the last look, gives the marker back.
Claim(s) ==
    /\ task[s].at = "claim"
    /\ \/ /\ Waiter(s) /\ Go(s, "late") /\ UNCHANGED <<marker, excuse, left>>
       \/ /\ ~Waiter(s) /\ marker' = s /\ task[s].looks < MaxLooks
          /\ task' = [task EXCEPT ![s] = [at |-> "queued", looks |-> @.looks + 1]] /\ UNCHANGED <<excuse, left>>
       \/ /\ ~Waiter(s) /\ marker' = s /\ task[s].looks = MaxLooks
          /\ Go(s, "release") /\ Says("given up") /\ UNCHANGED left
       \/ /\ ~Waiter(s) /\ marker' = s /\ Spend /\ Go(s, "release") /\ Says("refused")
    /\ UNCHANGED <<pending, table, owed>>
\* The flag of a task that lost the claim, and no second look.
Late(s) == /\ task[s].at = "late" /\ pending' = TRUE /\ Go(s, "idle") /\ Says("late")
           /\ UNCHANGED <<marker, table, owed, left>>
\* _release_waiter: compare and delete, and the flag read and cleared with it. A retry comes back all the same.
Release(s) ==
    /\ task[s].at \in {"release", "again"}
    /\ IF marker = s THEN marker' = None /\ pending' = FALSE ELSE UNCHANGED <<marker, pending>>
    /\ task' = [task EXCEPT ![s] = IF @.at = "again" THEN [at |-> "queued", looks |-> @.looks + 1]
                                   ELSE IF marker = s /\ pending THEN [at |-> "queued", looks |-> 0] ELSE Idle]
    /\ UNCHANGED <<table, owed, excuse, left>>
\* The worker dies: the message is delivered again, under the same id.
Kill(s) == /\ task[s].at \notin {"idle", "queued"} /\ Spend /\ Go(s, "queued")
           /\ table' = IF task[s].at = "work" THEN "free" ELSE table
           /\ UNCHANGED <<marker, pending, owed, excuse>>

\* PER_KB_TABLE_WAITER_TTL_S: the marker is renewed by a claim only, so a build outlives it; the flag by a dispatch only.
MarkerLapses == /\ marker # None /\ Spend /\ marker' = None /\ Says("lapsed") /\ UNCHANGED <<pending, task, table, owed>>
PendingLapses == /\ pending /\ Spend /\ pending' = FALSE /\ Says("lapsed") /\ UNCHANGED <<marker, task, table, owed>>

Step(s) == Enter(s) \/ Mark(s) \/ Look(s) \/ Survey(s) \/ WorkEnds(s) \/ Claim(s) \/ Late(s) \/ Release(s)
Next == (\E s \in Slots : Dispatch(s) \/ Step(s) \/ SurveyFails(s) \/ Kill(s)) \/ Others \/ MarkerLapses \/ PendingLapses
Spec == Init /\ [][Next]_vars

-----------------------------------------------------------------------------
Quiet == \A s \in Slots : task[s].at = "idle"
(* When no task is left, whatever was dispatched has been surveyed, by its own
   task or by the one that superseded it, unless a key lapsed, the claim was
   lost, or a run ended in an error of its own. *)
OwedIsServed == Quiet /\ owed => excuse # {}
(* "That closes the window a look-based waiter otherwise has" (_current_waiter):
   nothing that was dispatched is dropped without an error. *)
NothingDropped == Quiet /\ owed => excuse \intersect {"failed", "given up", "refused"} # {}
=============================================================================
