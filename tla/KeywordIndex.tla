---------------------------- MODULE KeywordIndex ----------------------------
(* The pg_search index of one knowledge base (services/pg_bm25_index.py): the
   partition it sits on, one per item table, and the ensure and drop tasks that
   a creation, a PATCH, a start of the service and the operator dispatch. The
   steps inside a move of rows are those of ItemPartitions. *)
EXTENDS Naturals

CONSTANTS Tables,     \* the item tables a strategy can keep its text in
          Langs,      \* ts_language, which is baked into the index
          Slots,      \* the tasks that can be about at once
          MaxRetries, \* PG_BM25_TASK_MAX_RETRIES
          Budget      \* of PATCHes, failures and killed workers

NoIndex == [lang |-> CHOOSE l \in Langs : TRUE, state |-> "absent"]
IndexOf(l, s) == [lang |-> l, state |-> s]
Idle == [kind |-> "none", at |-> "idle", move |-> FALSE, todo |-> {}, table |-> CHOOSE t \in Tables : TRUE,
         lang |-> CHOOSE l \in Langs : TRUE, retries |-> 0]
Queued(kind, move) == [Idle EXCEPT !.kind = kind, !.at = "queued", !.move = move]

VARIABLES config,   \* the strategy's table, whether the method runs a keyword leg, ts_language
          part,     \* part[t]: where the rows are, and what the partition still lacks
          index,    \* index[t]: pg_index's row of the index of that name
          task,     \* task[k]: an ensure or a drop, and how far it is
          outcome,  \* outcome[t]: the row of bm25_index_builds
          safe,     \* the server can build concurrently (concurrent_build_safety)
          left      \* what remains of the budget
vars == <<config, part, index, task, outcome, safe, left>>

Steps == {"idle", "queued", "drop", "plan", "move", "lock", "read", "replace", "build", "building", "complete"}
TypeOK == /\ config \in [table : Tables, keyword : BOOLEAN, lang : Langs]
          /\ part \in [Tables -> {"empty", "default", "attached", "complete"}]
          /\ index \in [Tables -> [lang : Langs, state : {"absent", "invalid", "ready"}]]
          /\ \A k \in Slots : task[k].at \in Steps /\ task[k].retries \in 0..MaxRetries
          /\ outcome \in [Tables -> {"none", "queued", "moving", "building", "completing", "ready", "retrying",
                                     "failed", "needs_build", "unavailable"}]

Init == /\ config \in [table : Tables, keyword : BOOLEAN, lang : {CHOOSE l \in Langs : TRUE}]
        /\ part \in [Tables -> {"empty", "default"}]
        /\ \A t \in Tables \ {config.table} : part[t] = "empty"
        /\ index = [t \in Tables |-> NoIndex] /\ outcome = [t \in Tables |-> "none"]
        /\ task = [k \in Slots |-> Idle]
        /\ safe \in BOOLEAN /\ left = Budget

-----------------------------------------------------------------------------
Go(k, at) == task' = [task EXCEPT ![k].at = at]
End(k) == task' = [task EXCEPT ![k] = Idle]
Record(t, s) == outcome' = [outcome EXCEPT ![t] = s]
Attached(t) == part[t] \in {"attached", "complete"}
Building(t) == \E k \in Slots : task[k].at = "building" /\ task[k].table = t
\* The advisory lock of the index of t: held from the read of its state to the end.
IndexLocked(t) == \E k \in Slots : /\ task[k].table = t
                                   /\ task[k].at \in {"read", "replace", "build", "building", "complete"}
Dispatch(kind, move) == \E k \in Slots : task[k] = Idle /\ task' = [task EXCEPT ![k] = Queued(kind, move)]
\* A transient failure is retried until the budget is spent; nothing comes after the last.
RetryOrGiveUp(k) == LET t == task[k].table IN
    /\ left > 0 /\ left' = left - 1
    /\ IF task[k].retries >= MaxRetries THEN End(k) /\ Record(t, "failed")
       ELSE /\ task' = [task EXCEPT ![k] = [Queued(task[k].kind, task[k].move) EXCEPT !.retries = task[k].retries + 1]]
            /\ Record(t, "retrying")

(* ensure_pg_bm25_index, and ensure_bm25_index inside it *)
Start(k) == /\ task[k].at = "queued" /\ task[k].kind = "ensure"
            /\ IF config.keyword
               THEN /\ Record(config.table, "queued")
                    /\ task' = [task EXCEPT ![k].at = "drop", ![k].table = config.table, ![k].lang = config.lang,
                                            ![k].todo = IF safe THEN Tables \ {config.table} ELSE {}]
               ELSE Record(config.table, "failed") /\ End(k)
            /\ UNCHANGED <<config, part, index, safe, left>>
StartDrop(k) == /\ task[k].at = "queued" /\ task[k].kind = "drop"
                /\ task' = [task EXCEPT ![k].at = "drop", ![k].todo = Tables]
                /\ UNCHANGED <<config, part, index, outcome, safe, left>>
\* DROP INDEX waits for a build on the same partition. A drop ends here, an ensure goes on.
DropNext(k) ==
    /\ task[k].at = "drop"
    /\ IF task[k].todo = {} THEN UNCHANGED index /\ (IF task[k].kind = "drop" THEN End(k) ELSE Go(k, "plan"))
       ELSE \E t \in task[k].todo : /\ ~Building(t)
                                    /\ index' = [index EXCEPT ![t] = NoIndex]
                                    /\ task' = [task EXCEPT ![k].todo = @ \ {t}]
    /\ UNCHANGED <<config, part, outcome, safe, left>>
Plan(k) == LET t == task[k].table IN
    /\ task[k].at = "plan"
    /\ IF Attached(t) THEN Go(k, "lock") /\ UNCHANGED outcome
       ELSE IF ~safe THEN End(k) /\ Record(t, "unavailable")
       ELSE IF ~task[k].move /\ part[t] = "default" THEN End(k) /\ Record(t, "needs_build")
       ELSE Go(k, "move") /\ Record(t, "moving")
    /\ UNCHANGED <<config, part, index, safe, left>>
\* Mutant: what the plan found is trusted.
CreateAsPlanned(k) == LET t == task[k].table IN
    /\ task[k].at = "move"
    /\ part' = [part EXCEPT ![t] = IF Attached(t) THEN @ ELSE "attached"]
    /\ Go(k, "lock")
    /\ UNCHANGED <<config, index, outcome, safe, left>>
\* create_partition looks for rows again once nobody can add any.
CreatePartition(k) == LET t == task[k].table IN
    /\ task[k].at = "move"
    /\ IF ~task[k].move /\ part[t] = "default" THEN End(k) /\ Record(t, "needs_build") /\ UNCHANGED part
       ELSE /\ part' = [part EXCEPT ![t] = IF Attached(t) THEN @ ELSE "attached"]
            /\ Go(k, "lock") /\ UNCHANGED outcome
    /\ UNCHANGED <<config, index, safe, left>>
\* Tried, never waited for: whoever holds it is building this index.
TryIndexLock(k) == LET t == task[k].table IN
    /\ task[k].at = "lock"
    /\ IF IndexLocked(t) THEN End(k) /\ Record(t, "building") ELSE Go(k, "read") /\ UNCHANGED outcome
    /\ UNCHANGED <<config, part, index, safe, left>>
ReadIndex(k) == LET t == task[k].table  found == index[t] IN
    /\ task[k].at = "read"
    /\ IF found.state = "invalid" /\ Building(t) THEN End(k) /\ Record(t, "building")
       ELSE IF found = IndexOf(task[k].lang, "ready") THEN Go(k, "complete") /\ UNCHANGED outcome
       ELSE IF ~safe THEN Go(k, "complete") /\ Record(t, "unavailable")
       ELSE IF found.state = "absent" THEN Go(k, "build") /\ Record(t, "building")
       ELSE Go(k, "replace") /\ UNCHANGED outcome
    /\ UNCHANGED <<config, part, index, safe, left>>
Replace(k) == LET t == task[k].table IN
    /\ task[k].at = "replace" /\ ~Building(t)
    /\ index' = [index EXCEPT ![t] = NoIndex]
    /\ Go(k, "build") /\ Record(t, "building")
    /\ UNCHANGED <<config, part, safe, left>>
\* CREATE INDEX CONCURRENTLY IF NOT EXISTS: an INVALID row first, the index at the end.
BuildBegins(k) == LET t == task[k].table IN
    /\ task[k].at = "build" /\ ~Building(t)
    /\ IF index[t].state = "absent" THEN index' = [index EXCEPT ![t] = IndexOf(task[k].lang, "invalid")] /\ Go(k, "building")
       ELSE Go(k, "complete") /\ UNCHANGED index
    /\ UNCHANGED <<config, part, outcome, safe, left>>
BuildEnds(k) == LET t == task[k].table IN
    /\ task[k].at = "building"
    /\ index' = [index EXCEPT ![t].state = "ready"]
    /\ Go(k, "complete")
    /\ UNCHANGED <<config, part, outcome, safe, left>>
\* The keys and plain indexes of the partition, then the file index retires.
CompletePartition(k) == LET t == task[k].table IN
    /\ task[k].at = "complete"
    /\ part' = [part EXCEPT ![t] = IF index[t].state = "ready" \/ ~safe THEN "complete" ELSE @]
    /\ Record(t, IF index[t].state = "ready" /\ outcome[t] # "unavailable" THEN "ready" ELSE outcome[t])
    /\ End(k)
    /\ UNCHANGED <<config, index, safe, left>>
\* A lock timeout, a lost connection or pg_search's own build failure.
Fail(k) == /\ task[k].at \in {"move", "building"} /\ RetryOrGiveUp(k)
           /\ UNCHANGED <<config, part, index, safe>>
\* A killed worker's message is delivered again; its locks went with its session.
Kill(k) == /\ task[k].at \notin {"idle", "queued"} /\ left > 0 /\ left' = left - 1
           /\ task' = [task EXCEPT ![k] = [Queued(task[k].kind, task[k].move) EXCEPT !.retries = task[k].retries]]
           /\ UNCHANGED <<config, part, index, outcome, safe>>

-----------------------------------------------------------------------------
(* Who dispatches (routes/knowledge_bases.py, the start of the service) *)
CannotMoveRows(t) == Attached(t) \/ part[t] = "empty"
EnsureFromPatch(t, changed) == IF CannotMoveRows(t) THEN Dispatch("ensure", FALSE)
                               ELSE IF changed THEN Dispatch("drop", FALSE) ELSE UNCHANGED task
\* _pg_bm25_inputs_changed
InputsChanged(old, new) == new.keyword /\ (~old.keyword \/ old.lang # new.lang)
Patch == /\ left > 0 /\ left' = left - 1
         /\ \E new \in [table : Tables, keyword : BOOLEAN, lang : Langs] :
              LET changed == new.table # config.table IN
              /\ new # config /\ config' = new
              /\ IF new.keyword
                 THEN IF changed \/ InputsChanged(config, new) THEN EnsureFromPatch(new.table, changed) ELSE UNCHANGED task
                 ELSE IF config.keyword THEN Dispatch("drop", FALSE) ELSE UNCHANGED task
         /\ UNCHANGED <<part, index, outcome, safe>>
\* POST /build-bm25: the operator's ensure may move rows.
BuildBm25 == /\ safe /\ left > 0 /\ left' = left - 1 /\ Dispatch("ensure", TRUE)
             /\ UNCHANGED <<config, part, index, outcome, safe>>
\* dispatch_partition_completion_at_start
StartUp == /\ \E t \in Tables : part[t] = "attached"
           /\ left > 0 /\ left' = left - 1
           /\ Dispatch("ensure", FALSE)
           /\ UNCHANGED <<config, part, index, outcome, safe>>
\* A source is indexed while the knowledge base has no partition of its own.
InsertRows == /\ part[config.table] = "empty"
              /\ part' = [part EXCEPT ![config.table] = "default"]
              /\ UNCHANGED <<config, index, task, outcome, safe, left>>

Step(k) == \/ Start(k) \/ StartDrop(k) \/ DropNext(k) \/ Plan(k) \/ CreatePartition(k) \/ TryIndexLock(k)
           \/ ReadIndex(k) \/ Replace(k) \/ BuildBegins(k) \/ BuildEnds(k) \/ CompletePartition(k)
Next == \/ \E k \in Slots : Step(k) \/ Fail(k) \/ Kill(k)
        \/ Patch \/ BuildBm25 \/ StartUp \/ InsertRows
Spec == Init /\ [][Next]_vars

-----------------------------------------------------------------------------
(* Only the operator's build moves rows: an automatic ensure that finds some,
   at its start or by the time it holds the table's writers off, moves none. *)
MoveAsked == \A t \in Tables : part[t] = "default" /\ part'[t] = "attached"
                                 => \E k \in Slots : task[k].at = "move" /\ task[k].move
MoveIsAsked == [][MoveAsked]_vars
(* The work of one ensure is not undone by another that wants the same: what
   drops a ready index in the configured language is a drop, or an ensure that
   read the configuration before it was changed. *)
DropDue == \A t \in Tables : t = config.table /\ index[t] = IndexOf(config.lang, "ready") /\ index'[t] # index[t]
              => \E k \in Slots : /\ task[k].at \in {"drop", "replace"} /\ task'[k] # task[k]
                                  /\ \/ task[k].kind = "drop"
                                     \/ task[k].table # config.table \/ task[k].lang # config.lang
BuildKept == [][DropDue]_vars
(* An INVALID index is never left behind in silence: unless the knowledge base
   stops using it, a task that will come to it is about, or one gave up on it
   and said so. *)
InvalidIsOwned == \A t \in Tables : index[t].state = "invalid"
                      => \/ (\E k \in Slots : task[k] # Idle) \/ outcome[t] = "failed"
                         \/ ~config.keyword \/ config.table # t
=============================================================================
