---------------------------- MODULE VectorIndex ----------------------------
(* The partial HNSW index of each large knowledge base, all of them on the one
   table ai.embeddings (services/pg_vector_index.py). The reconcile is drawn for
   one dimension of a knowledge base: with several it is repeated, one after the
   other, under the locks of each. What is known of an index between runs is in
   its pg_class comment, which goes with the index. *)
EXTENDS Naturals, FiniteSets

CONSTANTS KBs, Slots,   \* knowledge bases; the tasks that can be about at once
          Watched,      \* the knowledge bases that meet failures, drops and operators: the others only build
          Definitions,  \* what the running versions of the code emit (per_kb_index_ddl)
          Unknown,      \* no definition on record
          MaxIndexes,   \* MAX_PER_KB_INDEXES
          MaxFailures,  \* MAX_CONSECUTIVE_BUILD_FAILURES
          MaxBreaks,    \* MAX_CONSECUTIVE_INTERRUPTED_BUILDS
          MaxRebuilds,  \* MAX_CONSECUTIVE_DEFINITION_REBUILDS
          MaxRetries,   \* PG_BM25_TASK_MAX_RETRIES
          Events        \* a bound on resizes, deaths and other sessions

VARIABLES size,    \* size[k]: at or below the drop threshold ("few"), at or above the build threshold ("many")
          index,   \* index[k]: its state, its definition, and what its comment records
          task,    \* task[s]: a reconcile or a drop, how far it is and what it carries in memory
          others,  \* others[k]: a session that is no task's works on the index of k
          foreign, \* DDL of a session outside this module on the table itself
          taken,   \* the knowledge bases whose index a build found in its place (see Gate)
          failed,  \* failed[k]: builds of k that failed for good since one succeeded, or the record or the connection that carried it was lost
          left
vars == <<size, index, task, others, foreign, taken, failed, left>>

NoCounts == [fails |-> 0, breaks |-> 0, rebuilds |-> 0]
NoIndex == [state |-> "absent", def |-> Unknown, recorded |-> Unknown, counts |-> NoCounts]
Idle == [at |-> "idle", locked |-> FALSE, held |-> FALSE]
Task(kind, k, r) == [at |-> "queued", locked |-> FALSE, held |-> FALSE, kind |-> kind, kb |-> k, retries |-> r]
Statements == {"repair", "drop", "replace", "build"}
TypeOK == /\ \A k \in KBs : /\ size[k] \in {"gone", "few", "between", "many"}
                            /\ index[k].state \in {"absent", "invalid", "ready"}
                            /\ {index[k].def, index[k].recorded} \subseteq Definitions \union {Unknown}
                            /\ others[k] \in {"none", "building", "dropping", "bare"}
          /\ \A s \in Slots : /\ task[s].at \in {"idle", "queued", "survey", "next", "gate"} \union Statements
                              /\ task[s].held => task[s].locked

Init == /\ size = [k \in KBs |-> "many"] /\ index = [k \in KBs |-> NoIndex]
        /\ task = [s \in Slots |-> Idle] /\ others = [k \in KBs |-> "none"]
        /\ foreign = FALSE /\ taken = {} /\ failed = [k \in KBs |-> 0] /\ left = Events

-----------------------------------------------------------------------------
(* What is read of an index, and of the locks *)
Drifted(k, d) == index[k].recorded # d
GivenUp(c) == c.fails >= MaxFailures \/ c.breaks >= MaxBreaks
Small(k) == size[k] \in {"few", "gone"}
Full == Cardinality({k \in KBs : index[k].state # "absent"}) >= MaxIndexes
\* The lock of one index: a task's, or a backend's that outlived its worker.
IndexLocked(k) == \/ others[k] \in {"building", "dropping"}
                  \/ \E s \in Slots : task[s].locked /\ task[s].kb = k
\* Mutant: a free lock is taken for a free table.
LockHeld == (\E k \in KBs : others[k] \in {"building", "dropping"}) \/ \E s \in Slots : task[s].held
\* The table's lock, and then whoever holds the table without it (table_ddl_holders).
TableBusy == foreign \/ (\E k \in KBs : others[k] # "none") \/ \E s \in Slots : task[s].held

\* index_action: what the end of indexing asks for.
Action(k, d) == LET i == index[k] IN
    CASE i.state = "invalid" -> Small(k) \/ ~GivenUp(i.counts)
      [] i.state = "ready"   -> Small(k) \/ (Drifted(k, d) /\ size[k] = "many" /\ i.counts.rebuilds < MaxRebuilds /\ ~Full)
      [] OTHER               -> size[k] = "many" /\ ~Full
\* kbs_needing_a_per_kb_index: what the start-up sweep asks for. It reads the catalog and not the knowledge bases.
Needing(k, d) == LET i == index[k] IN
    \/ i.state = "invalid" /\ ~GivenUp(i.counts)
    \/ i.state = "ready" /\ IF Drifted(k, d) THEN i.counts.rebuilds < MaxRebuilds
                            ELSE i.counts.rebuilds > 0 /\ i.counts.rebuilds < MaxRebuilds
    \/ i.state = "absent" /\ size[k] = "many"
    \/ i.state # "absent" /\ Small(k)

Set(s, r) == task' = [task EXCEPT ![s] = r]
End(s) == Set(s, Idle)
Waits(s) == Set(s, Task(task[s].kind, task[s].kb, task[s].retries)) \/ End(s)  \* table_waits: PER_KB_TABLE_MAX_WAITS looks, not drawn one by one
Retry(s) == Set(s, IF task[s].retries >= MaxRetries THEN Idle ELSE Task(task[s].kind, task[s].kb, task[s].retries + 1))
\* The gate refused: nothing was issued, and the wait is counted only when no build is seen to run.
Refused(s) == (TableBusy /\ Waits(s)) \/ (foreign /\ Retry(s))
Issue(s, t, statement) == Set(s, [t EXCEPT !.at = statement, !.locked = TRUE, !.held = TRUE])

-----------------------------------------------------------------------------
(* ensure_per_kb_vector_index and drop_per_kb_vector_indexes *)
\* A held index lock: the holder does the reconcile's work, and a drop comes back.
Start(s, d) ==
    /\ task[s].at = "queued"
    /\ LET k == task[s].kb  t == task[s] IN
       IF t.kind = "drop" /\ index[k].state = "absent" THEN End(s)
       ELSE IF IndexLocked(k) THEN (IF t.kind = "drop" THEN Retry(s) ELSE End(s))
       ELSE Set(s, [at |-> "survey", locked |-> TRUE, held |-> FALSE, kind |-> t.kind, kb |-> k, retries |-> t.retries,
                    def |-> d, many |-> FALSE, place |-> FALSE, prior |-> NoCounts])
    /\ UNCHANGED <<size, index, others, foreign, taken, failed, left>>

\* _settle_a_definition_rebuild, _count_a_definition_rebuild
Settled(i) == IF i.counts.rebuilds < MaxRebuilds THEN [i EXCEPT !.counts.rebuilds = 0] ELSE i
Counted(i) == [i EXCEPT !.counts = [NoCounts EXCEPT !.rebuilds = i.counts.rebuilds + 1]]

\* What the survey reads under the lock and the rest of the run goes by.
Read(s, k) == [task[s] EXCEPT !.many = size[k] = "many", !.prior = index[k].counts]
SurveyInvalid(s, k) == LET i == index[k] IN
    /\ i.state = "invalid" /\ task[s].kind = "ensure" /\ UNCHANGED index
    /\ IF others[k] # "none" THEN Retry(s)   \* a build of it runs: left in place, asked for again
       ELSE IF GivenUp(i.counts) /\ ~Small(k) THEN End(s)
       ELSE Refused(s) \/ (~TableBusy /\ Issue(s, Read(s, k), "repair"))
SurveyDrop(s, k) ==
    /\ task[s].kind = "drop" \/ (index[k].state = "ready" /\ Small(k))
    /\ Refused(s) \/ (~TableBusy /\ Issue(s, Read(s, k), "drop"))
    /\ UNCHANGED index
SurveyReady(s, k) == LET i == index[k] IN
    /\ i.state = "ready" /\ ~Small(k) /\ task[s].kind = "ensure"
    /\ IF ~Drifted(k, task[s].def) THEN End(s) /\ index' = [index EXCEPT ![k] = Settled(i)]
       ELSE IF size[k] # "many" \/ i.counts.rebuilds >= MaxRebuilds \/ Full THEN End(s) /\ UNCHANGED index
       ELSE \/ Refused(s) /\ UNCHANGED index
            \/ ~TableBusy /\ End(s) /\ UNCHANGED index   \* the count does not read back: nothing is dropped
            \/ /\ ~TableBusy /\ index' = [index EXCEPT ![k] = Counted(i)]
               /\ Issue(s, [Read(s, k) EXCEPT !.prior = Counted(i).counts, !.place = TRUE], "replace")
SurveyAbsent(s, k) ==
    /\ index[k].state = "absent" /\ task[s].kind = "ensure" /\ UNCHANGED index
    /\ failed' = [failed EXCEPT ![k] = 0]   \* there is no record to go by
    /\ IF size[k] # "many" \/ Full THEN End(s) ELSE Set(s, [Read(s, k) EXCEPT !.at = "gate"])
Survey(s) ==
    /\ task[s].at = "survey"
    /\ LET k == task[s].kb IN
       ((SurveyInvalid(s, k) \/ SurveyDrop(s, k) \/ SurveyReady(s, k)) /\ UNCHANGED failed) \/ SurveyAbsent(s, k)
    /\ UNCHANGED <<size, others, foreign, taken, left>>

\* A drop of each kind. A failure may come before or after the index was marked invalid.
Dropped(s) ==
    /\ task[s].at \in {"repair", "drop", "replace"}
    /\ LET k == task[s].kb IN
       /\ index' = [index EXCEPT ![k] = NoIndex] /\ taken' = taken \ {k}
       /\ IF task[s].at = "drop" THEN End(s) /\ failed' = [failed EXCEPT ![k] = 0]
          ELSE \/ Set(s, [task[s] EXCEPT !.at = "next"]) /\ UNCHANGED failed
               \/ \* a RESET fails, and the connection is replaced (_discard_connection)
                  /\ Set(s, [task[s] EXCEPT !.at = "next", !.locked = FALSE, !.held = FALSE])
                  /\ failed' = [failed EXCEPT ![k] = 0]
    /\ UNCHANGED <<size, others, foreign, left>>
Attempt(c, transient) == IF transient THEN [c EXCEPT !.breaks = @ + 1] ELSE [c EXCEPT !.fails = @ + 1]  \* _counted_attempt
\* A repair that fails is counted on the index as it stands: the definition on record is read back.
RepairFailed(i, t, transient) == [i EXCEPT !.counts = Attempt(t.prior, transient)]
DropFails(s, transient) ==
    /\ task[s].at \in {"repair", "drop", "replace"} /\ task[s].kb \in Watched /\ left > 0 /\ left' = left - 1
    /\ LET k == task[s].kb IN
       \/ task[s].at = "repair" /\ index' = [index EXCEPT ![k] = RepairFailed(@, task[s], transient)]
       \/ task[s].at # "repair" /\ \E after \in {index[k].state, "invalid"} : index' = [index EXCEPT ![k].state = after]
    /\ IF transient THEN Retry(s) ELSE End(s)
    /\ UNCHANGED <<size, others, foreign, taken, failed>>
\* Of the cap only an index that was not dropped a moment ago is asked.
Next_(s) ==
    /\ task[s].at = "next"
    /\ LET k == task[s].kb IN
       IF ~task[s].many \/ (~task[s].place /\ Full)
       THEN End(s) /\ failed' = [failed EXCEPT ![k] = 0]
       ELSE Set(s, [task[s] EXCEPT !.at = "gate"]) /\ UNCHANGED failed
    /\ UNCHANGED <<size, index, others, foreign, taken, left>>
\* _TableGate.hold before the build; after a replaced connection the index's own lock first.
\* What another task built in between keeps CREATE ... IF NOT EXISTS from doing anything.
Build(s, k) == LET t == task[s] IN
    \/ /\ index[k].state = "absent" /\ Issue(s, t, "build") /\ UNCHANGED <<taken, failed>>
       /\ index' = [index EXCEPT ![k] = [NoIndex EXCEPT !.state = "invalid", !.def = t.def]]
    \/ /\ index[k].state # "absent" /\ End(s) /\ taken' = taken \union {k} /\ failed' = [failed EXCEPT ![k] = 0]
       /\ index' = [index EXCEPT ![k].recorded = t.def, ![k].counts = [NoCounts EXCEPT !.rebuilds = t.prior.rebuilds]]
GateRefused(s, k) ==
    /\ ~task[s].held /\ index' = index /\ taken' = taken /\ failed' = [failed EXCEPT ![k] = 0]
    /\ (~task[s].locked /\ IndexLocked(k) /\ End(s)) \/ ((task[s].locked \/ ~IndexLocked(k)) /\ Refused(s))
Gate(s) ==
    /\ task[s].at = "gate"
    /\ LET k == task[s].kb IN
       GateRefused(s, k) \/ ((task[s].held \/ ((task[s].locked \/ ~IndexLocked(k)) /\ ~TableBusy)) /\ Build(s, k))
    /\ UNCHANGED <<size, others, foreign, left>>
\* Both build counts are those read before the repair took the record away with the index.
Carried(t) == t.prior
Built(s) ==
    /\ task[s].at = "build" /\ End(s)
    /\ LET k == task[s].kb IN
       /\ index' = [index EXCEPT ![k] = [state |-> "ready", def |-> task[s].def, recorded |-> task[s].def,
                                         counts |-> [NoCounts EXCEPT !.rebuilds = task[s].prior.rebuilds]]]
       /\ failed' = [failed EXCEPT ![k] = 0]
    /\ UNCHANGED <<size, others, foreign, taken, left>>
BuildFails(s, transient) ==
    /\ task[s].at = "build" /\ task[s].kb \in Watched
    /\ LET k == task[s].kb IN
       \/ /\ index' = [index EXCEPT ![k].counts = Attempt(Carried(task[s]), transient), ![k].recorded = task[s].def]
          /\ failed' = IF transient THEN failed ELSE [failed EXCEPT ![k] = @ + 1]
       \/ index' = [index EXCEPT ![k] = NoIndex] /\ failed' = [failed EXCEPT ![k] = 0]   \* before the catalog entry: nothing to write on
    /\ IF transient THEN Retry(s) ELSE End(s)
    /\ UNCHANGED <<size, others, foreign, taken, left>>

-----------------------------------------------------------------------------
(* The rest of the world *)
Send(kind, k) == \E s \in Slots : task[s].at = "idle" /\ Set(s, Task(kind, k, 0))
Dispatch(k, d) == size[k] # "gone" /\ Action(k, d) /\ Send("ensure", k) /\ UNCHANGED <<size, index, others, foreign, taken, failed, left>>
StartUp(k, d) == Needing(k, d) /\ Send("ensure", k) /\ UNCHANGED <<size, index, others, foreign, taken, failed, left>>
\* The worker dies: its message comes back, and a statement may go on in its backend, with the locks and without the record.
Kill(s) ==
    /\ task[s].at \notin {"idle", "queued"} /\ task[s].kb \in Watched /\ left > 0 /\ left' = left - 1
    /\ Set(s, Task(task[s].kind, task[s].kb, task[s].retries))
    /\ LET k == task[s].kb  at == task[s].at IN
       /\ failed' = IF at = "survey" THEN failed ELSE [failed EXCEPT ![k] = 0]
       /\ \/ others' = [others EXCEPT ![k] = IF at = "build" THEN "building" ELSE IF at \in Statements THEN "dropping" ELSE @] /\ UNCHANGED index
          \/ at \in Statements /\ UNCHANGED others /\ index' = [index EXCEPT ![k].state = "invalid"]
    /\ UNCHANGED <<size, foreign, taken>>
BackendEnds(k) ==
    /\ others[k] # "none" /\ others' = [others EXCEPT ![k] = "none"]
    /\ IF others[k] = "dropping"
       THEN index' = [index EXCEPT ![k] = NoIndex] \/ index' = [index EXCEPT ![k].state = "invalid"]
       ELSE index' = [index EXCEPT ![k].state = "ready"] \/ UNCHANGED index
    /\ failed' = [failed EXCEPT ![k] = 0]
    /\ UNCHANGED <<size, task, foreign, taken, left>>
\* An operator rebuilds an invalid index in place: its definition and its comment stay.
Reindex(k) ==
    /\ index[k].state = "invalid" /\ ~TableBusy /\ left > 0 /\ left' = left - 1
    /\ others' = [others EXCEPT ![k] = "bare"] /\ UNCHANGED <<size, index, task, foreign, taken, failed>>
\* Statements of sessions outside this module wait for one another by the operator's rule.
Foreign ==
    /\ foreign' = ~foreign /\ (foreign \/ (~TableBusy /\ left > 0)) /\ left' = IF foreign THEN left ELSE left - 1
    /\ UNCHANGED <<size, index, task, others, taken, failed>>
Resize(k) ==
    /\ left > 0 /\ left' = left - 1 /\ size[k] # "gone" /\ \E z \in {"few", "between", "many"} \ {size[k]} : size' = [size EXCEPT ![k] = z]
    /\ UNCHANGED <<index, task, others, foreign, taken, failed>>
Delete(k) ==
    /\ left > 0 /\ left' = left - 1 /\ size[k] # "gone" /\ size' = [size EXCEPT ![k] = "gone"]
    /\ Send("drop", k) /\ UNCHANGED <<index, others, foreign, taken, failed>>

Next == \/ \E s \in Slots : \/ \E d \in Definitions : Start(s, d)
                            \/ Survey(s) \/ Dropped(s) \/ Next_(s) \/ Gate(s) \/ Built(s) \/ Kill(s)
                            \/ \E transient \in BOOLEAN : DropFails(s, transient) \/ BuildFails(s, transient)
        \/ \E k \in KBs : \/ \E d \in Definitions : Dispatch(k, d) \/ StartUp(k, d)
                          \/ BackendEnds(k) \/ (k \in Watched /\ (Reindex(k) \/ Resize(k) \/ Delete(k)))
        \/ Foreign
Spec == Init /\ [][Next]_vars

-----------------------------------------------------------------------------
(* One CREATE or DROP INDEX CONCURRENTLY on the table at a time: a second one
   queues with its snapshot and kills the first at its very end. *)
OneStatement == Cardinality({s \in Slots : task[s].at \in Statements}) + Cardinality({k \in KBs : others[k] # "none"})
                + (IF foreign THEN 1 ELSE 0) <= 1
(* A build that fails for good is attempted no more than the bound's times, across
   the repairs that take the record away with the index it is written on, while
   the run that carries it keeps its connection. *)
BuildsBounded == \A k \in KBs : failed[k] <= MaxFailures
(* The definition on record is one the index was built from, so a stale index is
   not certified as current: unless a build that lost its connection after its
   drop found the name taken when it came back. *)
StaleNotCertified == \A k \in KBs \ taken : index[k].recorded \in {Unknown, index[k].def}
(* Nothing reaches the index of a deleted knowledge base once its drop has given
   up: "no retry, dispatch or start-up sweep will ever reach it again"
   (drop_per_kb_vector_indexes). The sweep does: it goes by the catalog. *)
OrphanUnreached == \A s \in Slots : task[s].at \in Statements /\ size[task[s].kb] = "gone" => task[s].kind = "drop"
=============================================================================
