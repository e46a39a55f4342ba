# Verification of powabase-ai

TLA+ specifications of the parts of this service where several processes share
state and any of them may stop half way: the indexing of sources into knowledge
bases with the reconciler that repairs it, the partitions and indexes its rows
are kept in, the extraction of uploaded files with the gate that rations large
ones, searches, the runs of agents, orchestrations and copilots with their tools
and logins, and workflows with their webhooks and their scheduler. TLC checks
small instances; TLAPS proves all but two of the safety invariants that the runs
check, five action properties and the refinement of the item tables, for all values
of the constants that the assumptions given in section 4 allow.

Paths below are relative to `src/src/agentic_project_service/`.

## 1. The system

A Flask API and Celery workers share one Postgres schema (`ai`), a Redis that is
broker, lock server and semaphore, and an object store. Requests commit a row
and then publish a task; tasks move the row on. What makes this hard is the same
everywhere (`celery.py`):

- delivery is at least once: `acks_late`, `reject_on_worker_lost`, and a
  visibility timeout equal to the task time limit (six hours), after which an
  unacknowledged message is handed out again, whether its run died or not;
- the pool has threads, so time limits are not enforced and revoking a task
  stops it only if it has not started;
- commit and publish are two steps, in requests, retries and recoveries alike;
- no beat process runs: periodic work is a task that sends itself again, seeded
  by every start of a worker.

| Component | State | Operations | Interacts with | Hard | Correct when |
|---|---|---|---|---|---|
| Source indexing (`tasks/indexing.py`, `routes/knowledge_bases.py`) | `indexed_sources`: status, owner, attempts, dispatch time; item tables | add, re-index, cancel, remove; claim, clear, write, commit, fail, retry | broker, reconciler, extraction | duplicate deliveries, resets under a run, crashes, deletes that commit early | one owner and one result per row, bounded attempts, no row forgotten, no artifacts twice |
| Indexing reconciler (`tasks/watchdog.py`) | none of its own; a Redis lock | ask workers, select, fail, reset, re-dispatch | indexing rows, broker, `inspect` | five steps that commit one by one, on answers already old | every orphan moves on, nobody's live row is taken |
| Source extraction (`tasks/extraction.py`, `tasks/url_extraction.py`, `routes/sources.py`) | `sources`: status, owner, derivatives, interruption counts; files in the bucket | upload, re-extract, cancel, delete; run, retry, wait, count, recover | broker, gate, object store, indexing | one id over retries and countdowns, shared file names, kills | latest task wins, files listed are stored, deaths charged once, sources come out of pending |
| Large-extraction gate (`services/extraction_gate.py`) | sorted set of leases; attempts; waiting list | acquire, renew, release, record | extraction, Redis clock | starved heartbeats, hung runs, lost Redis | at most N live leases, none for ever |
| Scheduler (`tasks/scheduler.py`, deploy and undeploy in `routes/workflows.py`) | `workflows`: state, run count, last run; Redis lock; chain of ticks | tick, execute, record, re-send | broker, workflow engine | executions longer than the lock, several chains, stale rows | one visit at a time, `max_runs` and interval kept, ticks go on |
| Item partitions and BM25 index (`services/pg_bm25_index.py`, `services/bm25_build_outcome.py`) | a partition per knowledge base beside DEFAULT, its check, its pg_search index, the outcome on record | move rows, attach, drop, ensure, drop index, clear leftovers | indexing, API writers, retrieval | moves under writers, kills half-way, stale plans, failed concurrent builds | nothing of a move shows; an invalid index has an owner |
| Keyword index files (`services/sparse_retrieval/`) | one file index per knowledge base, a cache per process | load, add, remove, rebuild, evict, retire | indexing, retrieval | concurrent read-modify-write, caches of other processes | every committed item is found |
| Vector index (`services/pg_vector_index.py`, `tasks/indexing.py`) | a partial HNSW index per large knowledge base, counters in its comment; a waiter and a flag in Redis | survey, drop, build, repair, wait, supersede | the one embeddings table, Redis | statements that kill one another, keys that lapse, records lost with the index | one statement at a time, bounded failures, no stale index certified, no dispatch dropped |
| Retrieval (`services/base_vector_store.py`, `services/knowledge_search.py`, `services/context_handler.py`) | settings borrowed for a transaction; stored contexts | search one store, run the pipeline, expand graphs, format, store | item tables, charges | fallbacks inside one transaction, merge and cut of several lists, token budgets | settings given back, guaranteed sources kept, nothing dropped that is said to be shown |
| Agent runs, sessions, orchestrations (`routes/agents.py`, `routes/orchestrations.py`, `services/session.py`, `services/run_registry.py`, `tasks/cleanup.py`) | runs, sessions, registry of a process | start, stream, approve, cancel, record, charge, clean up | models, tools | clients that leave, threads left behind, sessions deleted and made again | one finisher, what was told is recorded |
| Agent tools and SQL (`services/tool_registry.py`, `services/agent_sql.py`, `tools/builtin.py`, citations) | calls of a turn, citation registry, a database login per agent | call, register, charge; sync and drop logins | agent runs, Postgres roles | parallel calls, syncs in two transactions beside deletions | calls cited and charged apart; a login within its tools |
| Copilots (`routes/copilot.py`, `routes/project_copilot.py`, `services/copilot.py`) | chat sessions, a Redis turn lock | one turn | models | lapsing locks, failed saves, two turns at once | turns apart, history accepted by the model |
| Workflows and webhooks (`routes/workflows.py`, `routes/_workflow_helpers.py`, `routes/webhooks.py`) | workflow row, arm, executions, logs | execute, stream, arm, deploy, save, delete | external engine, charges | arms taken by two requests, aborted sessions | armed runs counted, only what ran charged |
| Enrichment (`tasks/enrichment.py`, `services/metadata_enricher.py`, `services/graph_enricher.py`) | per-knowledge-base tables | fill, clear | indexing | jobs beside re-indexing | no rows of replaced artifacts |
| Documentation refresh (`tasks/docs_refresh.py`) | a built-in knowledge base | fetch, compare, ingest, prune | extraction rows, indexing | chains of ticks, failed fetches | nothing pruned after an outage |
| Rate limiter (`services/rate_limit.py`) | windows in memory and in Redis | acquire, wait | tasks | clock, lost Redis | at most N per minute while Redis answers |
| Billing port, keys, settings; storage, auth, start-up, migrations | settings rows | CRUD, calls | external services | - | - |

The migrations (`src/migrations`) run once at start-up and are left out.

## 2. The modules

```
Indexing ── IndexingWatchdog ── MCIndexing                Sources ── SourceExtraction ── MCSourceExtraction
                  └── IndexingProofs                                       └── SourceExtractionProofs
ItemRows  <== ItemPartitions (refinement)                 ExtractionGate ── ExtractionGateProofs
                  └── ItemPartitionsProofs                Scheduler ── SchedulerProofs    (MCScheduler)
KnowledgeBases = { KeywordIndex, KeywordFile, VectorIndex, VectorWaiters, StoreSearch, KbSearch, ContextFormat }
                  ├── IndexesProofs ── KnowledgeBasesProofs  └── MCKnowledgeBases
Activities     = { AgentRuns, CopilotTurns, ToolCalls, AgentRoles, Workflows, Scheduler }
                  ├── ActivitiesProofs                    └── MCActivities
```

A line is an `EXTENDS`, `<==` an `INSTANCE ... WITH` whose specification is a
property, braces are instances in one module. The MC modules add symmetry sets, and
the values of constants that are sets of records (the kinds of runs in `MCActivities`,
the graphs and items that are searched in `MCKnowledgeBases`). The two composed
modules declare the constants of all their parts, so that the proofs are about any
values of them. `Seeded bug` operators are variants of a definition that show that a property
can fail.

`KnowledgeBases` and `Activities` run one part at a time, the one that the
variable `part` names from the start, and every property of theirs is of the form
"if this part runs, then". That is no abstraction of interactions: the parts meet
in database rows only, and each module has the rows it reads as variables of its
own that the other parts' writes change (a deletion of the session under a run,
a change of the agent under a sync, a writer of the API under a move). The types of
a part are a conjunct of its first property.

### Indexing and IndexingWatchdog

`Indexing` has a row per (knowledge base, source) with the columns that decide
something (`status`, `owner` = `celery_task_id`, `attempts`, `stale` = dispatched
over two minutes ago), how many complete sets of artifacts its tables hold
(`copies`, saturating at two), the broker with one message per task id, and the
position of each worker thread.

| Action | Code |
|---|---|
| `AddSource`, `Reindex`, then `Dispatch` / `DispatchFails` / `BalanceRefused` | the commit of a request, and the publish after it |
| `CancelBegin`, `CancelEnd` | revoke; write `cancelled` without a guard |
| `RemoveSource` | revoke, delete, cascade |
| `SourceChanges` | external to the module: `sources.extraction_status` leaves or enters `extracted` |
| `Fetch`, `Acknowledge`, `Redeliver`, `Crash` | Celery with Redis, as `celery.py` configures it |
| `Check`, `Reject`, `Claim`, `ClearArtifacts`, `WriteArtifacts`, `CommitIndexed`, `SideEffects` | `index_source` and `_run_index_body` in the order of their commits |
| `RunFails`, `StorageFails`, `Requeue` | `_fenced_mark_failed`; `_handle_storage_error` before and after its commit |

`EarlyCommit` tells the strategies that commit artifacts ahead of the fenced write
(page_index, graph_index, full_document, doc2json) from chunk_embed, which does
not. `IndexingWatchdog` adds one tick: `Collect`, `SelectOrphans`,
`FailExhausted`, `ResetOrphans`, `Redispatch` and the crash of its worker. Between
any two of them everything else may happen, except that a row does not grow two
minutes old during the ten seconds of `Collect`.

A task id that is acknowledged and that nothing refers to is used again, so the
number of requests has no bound.

### Sources and SourceExtraction

`Sources` has the row, its routes and a broker in which one task may have several
messages, since retries and countdowns keep the id. `SourceExtraction` is
`extract_source`: `Start` (reads, kept in `seen`, because later steps go by them),
`Defer` or `Admit` at the gate, `Count` (`_count_interruption`), `Claim`, `Begin`,
`Extract` (with the page images, which are stored as they are rendered),
`CheckOwned`, `Store`, `Write`, `Prune`, `Retry`, `Fail` and the `finally`. `Die`
kills a worker, `LoseWaiting` one that only holds a countdown, `RedeliverLive` is
the visibility timeout passing under a live run, `Lapse` the end of a lease, and
`Recover` is `recover_stranded_extractions` for one waiting task. The bucket holds
two files per source, under names that all runs share: the text, and the page
images that only some extractors make.

### ExtractionGate

Leases, heartbeats and the cap on holding, in units of `RENEW_SECONDS`. Each Lua
script is one action. `Cut` are the deliveries on a host that may starve the
heartbeat or lose Redis. SourceExtraction uses what this module shows: it keeps
only the set of live leases, one of which goes when its holder stops or has held
it too long.

### ItemRows and ItemPartitions

`ItemRows` is what a table of items promises: the rows of a knowledge base change
when its indexing run, an API writer or the removal of its source says so.
`ItemPartitions` is how `pg_bm25_index.py` keeps that promise while rows move from
the DEFAULT partition into one of their own: the build lock, the move gate, `SHARE`
on the parent and on DEFAULT, the CHECK that keeps new rows out (`fence`), the copy,
the ATTACH, and what is left when a step fails (`GiveUp`, `DropCheck`) or is killed
(`Kill`, `ClearLeftovers`). `PlanProbe` and `ReadProbe` are the plan an indexing run
makes and the layout it was made for; `Update`, `OpenDelete` and `CommitDelete` are
writers that hold no gate. `Implements` says that nothing of a move shows.

### KnowledgeBases

| Module | Actions and the code |
|---|---|
| `KeywordIndex` | `Patch`, `BuildBm25`, `StartUp` dispatch; `Start` to `CompletePartition` are an ensure (plan, move, lock, read, replace, build), `DropNext` a drop; `Fail`, `Kill` with the retries of `indexing.py` |
| `KeywordFile` | `Commit` of a run, then `RemoveAndSave` and `AddAndSave` on the process's cached copy; `ReadItems`, `RebuildFromScratch` and `DropCache` of a build; `Evict`, `RetireFileIndex`, `SetMethod` |
| `VectorIndex` | `Start`, `Survey`, `Gate`, `Built` and the failures of a reconcile; the counters written on the index; `BackendEnds` is a statement that outlives its task |
| `VectorWaiters` | `Enter` to `Release`: look, wait, supersede, claim, in the order of their Redis calls; `MarkerLapses`, `PendingLapses` are expiries |
| `StoreSearch` | one search: each borrowed setting, the probe, the count, the statement, the restores, the keyword leg and its fallbacks; `Fails` may strike any statement |
| `KbSearch` | `Count` to `SelectNodes` are the pipeline, by request and async; the operators `Merged`, `Capped`, `Cut`, `Expanded` are its pure steps |
| `ContextFormat` | the four layouts with their three cases each; `Persist`, `Read` |

### Activities

| Module | Actions and the code |
|---|---|
| `AgentRuns` | `Ask`, `Bind`, `PersistX`, `StartX`, `AskApproval`, `Approve`, `AnswerX`, `RecordX`, `Charge`, `Complete` for a run that is answered at once, streamed plainly, with tools, or an orchestration; `LeaveX` a client that goes; `FinishBehind`, `ChargeBehind` the thread left; `DeleteSession`, `Cleanup`, `Crash` |
| `CopilotTurns` | `Acquire`, `FailOpen`, `Message`, `Read` (with the repair of the history), `Answer`, `Save`, `SaveFails`, `Release`, `Close`, `Lapse` |
| `ToolCalls` | `Seed` of the registry, `Start`, the steps of a search over several knowledge bases, of a built-in tool and of an MCP tool, `DeriveKey`, `Charge`, `Cite`, `KeepRun`, `Resolve` |
| `AgentRoles` | `AssignTool`, `UpdateTool`, `RemoveTool`, `DeleteAgent`; `SyncRevoke`, `SyncGrant` are the two transactions of a sync; `FindRoles`, `ReconcileRole` the sweep; `DatabaseQuery`, `DatabaseWrite` the calls |
| `Workflows` | `Gate`, `Disarm` of the webhook; `PreCheck` to `Insert`; `RunBlock`, `RunAgent`, `SearchKb`; `Complete`, `Fail`, `Logs`, `Charge` by each of the three routes |
| `Scheduler` | `Begin` (SET NX), `Select`, `Check`, `Finish`, `Record`, `Unlock` (an unconditional delete), `Resend` of a chain of ticks, its lock and one workflow; moments are ages that stop at the interval; cron expressions are intervals, only whether a run is due matters; `Slow` lets a tick outlive its lock |

What is external is modelled by what the code relies on: a model answers, fails or
hangs; a block of a workflow gives a result, an error, or raises; Postgres aborts a
transaction at a failed statement outside a savepoint.

## 3. The runs

| Run | Instance | Shows |
|---|---|---|
| `indexing_recovery` | 1 row, 2 workers, 4 task ids, 2 attempts, 2 crashes, partial answers of workers | one owner, one result, bounded attempts, no duplicate artifacts, no pending row without a future, an indexed row stays indexed |
| `indexing_requests` | 1 row, 2 workers, 3 task ids, all routes, failing publishes, early commits | a removed row leaves no artifacts, though strategies commit early |
| `indexing_liveness` | 1 worker that may die once, fairness | no row stays in indexing or in pending |
| `gate` | 3 deliveries, 2 slots, 1 cut off, lease 2, limit 7 | bounded leases; a healthy holder keeps its slot; a redelivery finds the lease gone; slots free |
| `extraction_deaths` | 2 requests, 2 workers, 2 mishaps | one run at a time per task, deaths charged once, latest task wins, text stored |
| `extraction_duplicates` | 1 large file, 2 workers, live redelivery and late waits, failing publishes | cancelled sources are left alone though runs are duplicated |
| `extraction_liveness` | 1 worker, 1 retry, 1 mishap, fairness | no source stays in pending or extracting |
| `item_partitions` | 2 knowledge bases, one of them written by the API, 2 versions, fairness | moving rows implements `ItemRows`; the check of a live move stays; a queued move gets its gate |
| `knowledge_bases` | the seven parts, bounds below | who owns an index, that the file is complete, that a waiting dispatch is served, what a search leaves behind, what its results owe |
| `scheduler` | 3 chains, 2 deployments, 2 deaths, fairness | one visit at a time, `max_runs`, interval, and that ticks go on |
| `activities` | the six parts, bounds below | one finisher per run, turns apart, calls apart, logins within tools, executions counted, the schedule with failing writes and publishes |
| `recovered_row_stranded` | failing publish | refutes a comment of the reconciler (section 5) |

Properties that are conjunctions (`ScheduleKept`, `LoginWithinTools`, `IndexesAreOwned`
and their like) have the parts named and commented on in the module of the
component.

### Bounds, and why they are enough

- Rows do not interact but through workers, the broker and a tick, so one row with
  two workers has every race on a row; the proofs are for any number.
- `copies`, `results` and `MaxCopies` stop at two: one and several is all that a
  property tells apart. A third message of one extraction task is dropped.
- `MaxAttempts` = 2 (the default is 3) has a first attempt, one at the bound and
  one past it. `MaxInterruptions` and `MaxUnattributed` (2 and 5 in the code) are 2:
  below and at the cap. Duplicates have them at 1.
- `MaxCrashes`, `MaxMishaps`, `MaxDeaths`, and `Events`, `Budget`, `Faults` elsewhere,
  bound the failures explored in one behaviour, as `Tasks`, `MaxDeploys` and `Chains`
  bound requests, deployments and starts. A death of the reconciler and one of a run
  are both crashes, of which `indexing_recovery` has two: the second is what strands
  a row that was reset and not re-dispatched. A mishap is a death, a live redelivery or a recovery that came
  early.
- `Headroom` is the number of free task ids that users leave, so that a retry or a
  re-dispatch is never refused an id that a real uuid would have.
- `extraction_deaths` is about a small file without storage errors to retry
  (`Large` = FALSE, `MaxRetries` = 0), so that a task has one message. `NoFalseCharge`
  and `OneRunner` are promises about deaths and about nothing else: a worker that dies
  after publishing its task again, as a retry or as a wait, and before acknowledging it,
  leaves two messages of one task. Both may then run, and the one be charged for the
  other's (see `live_run_charged` below). `LatestWins` and `TextStored` hold all
  the same, which is proved.
- In the scheduler the visibility timeout is as long as the lock. The real one is
  far longer, which only delays the chain. The interval of 4 units is longer than a
  tick and its lock, as it is by default.
- `ItemPartitions`: a second knowledge base is there to share the locks, and only one
  is written by the API, since writers of the two do not meet. Two versions tell the
  rows before a re-index from those after it.
- `KeywordIndex`: two tables and languages, so that a change of either is seen; two
  tasks at once, one retry, three events. `VectorIndex`: two knowledge bases with room
  for two indexes, two definitions, two failures allowed. `VectorWaiters`: three tasks (one
  waits, one works, one is superseded) and three events. `KeywordFile`: two sources
  and two threads of the one worker process, so that runs, and a run and a build, overlap;
  builds that were overtaken are excepted from `FileComplete` by a history variable, and
  what happens then is in section 5. A second worker process, with a copy of the file of its
  own, is not modelled.
- In `KnowledgeBases` and `Activities` what only has a name (the threads and tasks, the
  requests of a workflow, an agent's tables) is a set of model values under symmetry.
- `StoreSearch`: two failing statements and two searches in a transaction, for a
  restore that fails and a search that meets what it left. `KbSearch`: two graphs of four
  sections of two documents, one with a cycle and one with a deleted node.
  `ContextFormat`: three items, budgets of none, a tight one and an ample one.
- `AgentRuns`: two runs that may share a session, the first of any of the four kinds, the
  second a single one, one event. `CopilotTurns`:
  three turns, a window of three messages. `ToolCalls`: two calls over two knowledge bases.
  `AgentRoles`: one request and one run, two tables, two changes, one sweep, two attempts.
  `Workflows`: two requests, two blocks, two knowledge bases; one of them gets to execute,
  the other one races it at the webhook's gate.

The configurations of the extraction, `knowledge_bases` and `activities` leave deadlock
unchecked (`CHECK_DEADLOCK FALSE`): requests are bounded there, and a behaviour ends where
nothing is left to do. The others check it.

### Fairness

Worker threads, the broker's redelivery, a request that has begun, a tick, an indexing
run and an open update keep taking steps, and a move takes the gate when it is its turn
(weak fairness). Users, deaths and
failures owe nothing. Strong fairness is used four times. A row in indexing grows old
although a tick may be looking at it at the time. Messages are served in order, so each
has its turn although others are fetched in between. An extraction that keeps
asking for a slot is let in some day: the slots are taken by whoever asks first,
and what is assumed is that no other source wins each time. And Postgres grants a
row lock in the order it was asked for, so a delete gets through to the rows it
cascades into (`CommitDelete`).
A tick of the reconciler that never hears from a worker owes nothing: fairness is
of `Collect(Workers)`, the tick that all workers answer.
No liveness run has failing publishes: a row whose publish fails stays as it is until
the user asks again (see the hazards).

## 4. What is proved

For every value of the constants, under the assumptions the modules name and those
given here. "Types" are type correctness, which every other proof rests on.

`IndexingProofs` is about `SystemSpec`, that is, the runs, routes, broker and
reconciler together, for any sets of rows, workers and task ids.

- `TypeCorrect`: types.
- `SingleOwner` (`OneOwner`), if a live run is never redelivered. The lemma
  `DeliveryInvariant` carries it: no two workers run one task and a queued message
  is run by nobody. Ownership is then the uniqueness of the id in the row.
- `BoundedAttempts` (`AttemptsBound`), with no assumption. Induction needs what
  each writer of `pending` knew: a pending row has at most `MaxAttempts` attempts,
  and a row that a tick has selected and that is pending meanwhile has fewer. That
  is why the bound is one more than the limit: the tick goes by the count it read.
- `SingleResult` (`OneResult`), if a live run is never redelivered: a row that is
  pending or indexing has no result yet, nor has one whose run still owns it.
- `NoDuplicateArtifacts` (`NoDuplicates`), if moreover the strategy commits with
  the fenced write: a run that has cleared and owns the row finds it empty.
- `RemovedRowsEmpty` (`RemovedIsEmpty`), with no assumption.
- `IndexedStaysSo` (`IndexedStays`), if a live run is never redelivered, publishing
  does not fail and sources are not extracted again. `IndexedInv` adds to `ResultInv`
  that an indexed row has its result and no run is about to reject its source.
- `PendingRowsComing` (`PendingIsComing`), if a live run is never redelivered, publishing
  does not fail and nobody cancels. `MessagesInv` says where messages are: the id a row
  carries is of a message about that row, and only messages of removed rows are revoked.
  `ComingInv` adds that until somebody dies the run a row names is there. The death of a
  run leaves its message to come back, and the death of the tick a run or a message; it
  takes two deaths, a run's and then the tick's, to leave neither.

`ExtractionGateProofs`, for any deliveries, slots and lengths:

- `GateTypeCorrect`: types.
- `BoundedSlots` (`SlotsBound`): only acquiring adds a live lease (`FewerLeases` is
  the counting step), and a renewal never revives one.
- `RedeliveryLapsed` (`RedeliveryFindsLapsed`), if a delivery acquires within the
  margin of the cap. `LapseInv` has the reason: age and remaining hold together stay
  within the wait and the cap, so a lease renewed at the last moment still ends
  before the limit.
- `TimelyKeeps` (`TimelyKeepsLease`): a holder that is not starved has its heartbeat
  running and more lease left than the time to its next beat (`BeatInv`).

`SourceExtractionProofs`, for any tasks, workers and caps, with live redeliveries, late
waits and failing publishes:

- `ExtractionTypes`: types, together with deaths being no more than mishaps.
- `LatestResult` (`LatestWins`) and `CancelledStays` (`CancelSticks`). Both go by the
  lemma `RowStep`: whatever a step is, what it does to the row is one of five
  things, of which one is a fenced status and one the fenced result.
- `KeepsText` (`TextStored`): a run that prunes or writes has stored the text, and a
  run that cleans up after a failure has not (`HasText`), so no cleanup takes it.
- `OneRunnerAtATime` and `OneRunnerQuietly` (`OneRunner`), where no message is overdue
  and no live delivery is handed out again. `Single` has the reason: a task is either
  held by one run, or waits in one message, or neither. A task sends itself again to
  retry and to wait for a slot, and a worker that dies between that and its
  acknowledgement leaves two messages. So the first theorem is about small files
  without retries (`~Large`, `MaxRetries` = 0), whatever dies, and the second about
  all files and any number of retries while nobody dies (`QuietSpec`). With both,
  the property is false: `live_run_charged` of section 5 begins like that.
- `OnlyDeathsAreCharged` and `NothingChargedQuietly` (`NoFalseCharge`), under the same
  two sets of assumptions. `Accounts` adds to `Single` what is on a task's account: no
  more than its deaths (`Covered`), and fewer while the row is extracting for it and
  no run of it has claimed it (`Uncounted`), or while a run that found the row like
  that has yet to count it (`Witnessed`).
- `ExtractingMeantDeath`: under those of the first, a redelivery that finds the row
  extracting for its own task finds nobody at work for it. It is why the code may take
  that for a death, and what `live_run_charged` shows broken without the assumptions.

`ItemPartitionsProofs`, for any knowledge bases and versions of their rows. Its
invariant is a conjunction of three parts: where the rows are (`Placed`), what a move has
behind it (`Moving`), and what the locks keep apart (`Apart`).

- `PartitionTypes`, `ClonesStayEmpty`: types; a clone that is not attached is empty.
- `ChecksOfMovesStay` (`LiveCheckStays`): nobody drops the check of a move under way.
- `PartitionsImplementRows` (`Implements`): the initial states are those of `ItemRows`,
  and a step is one of `ItemRows` or a stutter. The refinement leaves the rows to be the union
  of both places, and needs of the invariant that a reader's plan names the place
  that has them, or else that it will look again.

`SchedulerProofs`, for any chains, deployments and intervals, if no tick outlives its lock
(`~Slow`) except in the first:

- `ScheduleTypes`: types.
- `KeepsSchedule` (`ScheduleKept`): a chain between its lock and its unlock has time
  left on the lock (`OneHolds`), so it is the only one; what it read of the row is no
  older than that (`ReadInTime`), so the count it goes by is within the limit (`InLimit`).
- `KeepsApart` (`Spaced`): from the same invariant.

`ActivitiesProofs` has the proofs of the parts first, of each as `Activities` instantiates
it, and then the theorems of the composition: a part's proof carries over because
a step of `Activities` in which `part` names it is a step of the part. Its assumption
`ActivitiesAssumption` asks for positive periods, finite sets of knowledge bases and
chains, a window of some number of messages, "no value" being none of the turns, and no
block named "run" (the name that the charge of an execution itself has in the model). `RunsAssumption` has the runs' kinds and callers be kinds and callers.

- `RunsDoEndOnce` (`RunsEndOnce`) and `RunsAreInPlace` (`RunsHaveTheirPlace`), from
  `RunLife` (at each place of a request, what has been recorded, charged and left
  behind) and `BoundApart` (sessions are told apart by ids that are not handed out
  twice, also those that a request has made and not committed).
- `TurnsStayApart` (`TurnsAreApart`): by the lock of the session, which a turn that has
  not lapsed and did not fail open still holds.
- `HistoryStaysWhole` (`HistoryIsWhole`), from `HistoryInv`: the messages are finitely many
  (what the read counts), a history that was given is one the model accepts (`Accepted`),
  and nothing but failures stands between a turn and its answer: one while words take
  the reply's place, two where neither could be saved (`AnswerDue`). That what
  is read is accepted (`ReadIsAccepted`) goes by places: the window is a part of the
  order, trimming begins it at the first message of the user (`TrimmedIs`), and the
  repair moves each message past as many words as it has put in before it, so two
  messages of the user that follow each other in the rows end two places apart (`RepairedIs`).
- `CallsStayApart` (`CallsAreApart`), from `Registered` (labels are places of the registry
  that hold the call's own units) and `MoneyInv` (the count of a call's arguments is
  past every key that was derived from them).
- `PartialStays` (`PartialIsKept`), from `SearchInv`: a call over several knowledge
  bases has the items of just those that answered, and an aborted session of one does
  not reach the others.
- `LoginStaysWithin` (`LoginWithinTools`), from `GoneWithAgent` (the second transaction of
  a sync looks at the agent again under the lock), `SyncKnows` (a sync that nothing
  stepped into knows at each of its steps what the login holds) and `AnswersInv`.
- `ExecutionsAreCounted` (`ExecutionsCounted`), from `ArmsInv` (a request past the gate
  has taken an arm of its own), `LogsInv`, `ChargesInv` and the scheduler's invariant.

The parts' own theorems (`NoLoginAfterDelete`, `OnlyWhatRan` and so on) say the same of the
component by itself, under what it needs of those assumptions.

`KnowledgeBasesProofs` is laid out alike; the proofs of the four kinds of indexes are in
`IndexesProofs`, which it extends. `KnowledgeBasesAssumption` asks for a
language, finitely many sources, at least one failure allowed, numbers where the code
compares numbers, "no value" and "no file" being none of the values, and
for searches (`SearchAssumption`) finitely many items, numbered by their similarity,
and worlds that are made of them.

- `IndexesStayOwned` (`IndexesAreOwned`). For pg_search, `KeywordInv`: each task knows
  what it goes by (`KeywordSound`), one has the lock of an index (`OneLock`), and an
  invalid index has a task on its way to it, was given up aloud, or is no longer
  the one configured (`Owned`). For the vectors, `VectorInv`: who may work on the table
  (`Locks`, `Table`), and where the count of failures is while the index it is written
  on is away (`Record`): with the index, or with the task that took it.
- `NothingUnasked` (`OnlyWhatWasAsked`), from the same `KeywordInv`.
- `FileStaysComplete` (`FileComplete`). `FileInv`: a committed row is in the file, or a run
  or a build has it to add (`RowsAreComing`), which needs that the copy in memory
  is the file but for a build about to drop it (`CopyIsFile`).
- `OwedStaysServed` (`OwedIsServed`). `Waits`: the waiter's key names a task that has not
  looked for the last time, and one task works at most; `Carried`: what is owed has a task that
  will still survey it.
- `NoTraceIsLeft` (`SearchLeavesNoTrace`) and `SearchStaysExact` (`SearchIsExact`), from
  `SearchInv`: loans are nested at most two deep (`Open`), and what is set was borrowed by
  an open loan or may be kept (`Borrowed`).
- `ResultsStayOwed` (`ResultsAreOwed`). What the answer owes is carried through the pipeline by
  `Owed`, a part for each of its phases. No two rows that were matched are of one item or have one
  score (`Found`), nor any that the floor adds, which under a hybrid ranking score below
  every match (`Mixed`);
  the cut to the limits leaves each source that has a row a place if there are
  places enough, so the floor's sources are still there, and so is a match's wherever
  a row of the floor is (`FloorThere`, `MatchThere`); and what a graph adds has scores below
  all of it (`AddedBelow`). Charges go by the places past each of them (`Paid`).
- `ContextStaysCovered` (`ContextIsCovered`), from `ContextInv`: what was displayed is a prefix
  of the order, what has been seen was shown by one of those, and references are of images.
  That the order groups items by document is stated as any sorting of the items (`ByDocument`), so that
  nothing is left to induction.

Two kinds of definitions are written so that they can be reasoned about. What sorts or selects
rows (`Sorted`, `Best` and `Those` of `KbSearch`, `InOrder` of `CopilotTurns`) puts at
the n-th place the element that n - 1 others precede, and the repair of a history
(`Repaired`) says at which place each message ends up. The prover has no definition of the library's
sorting operators, and what a fold over a sequence computes for every sequence is an
induction over data. The lemmas that make the counting usable (`Listed`, `OrderedIs`
and those named alike) rest on the library's facts about finite sets.

Every invariant and action property that a passing run checks is stated by a theorem. Only
model-checked:

- All liveness (`RowsResolve`, `ExtractionResolves`, `SlotFrees`, `TicksGoOn`, `QueuedIsGated`):
  fairness and ENABLED are out of the prover's reach.
- `OneRunner` and `NoFalseCharge` for large files or retries under deaths: they are false there.

## 5. Where the code and its comments disagree

One of the runs shows a disagreement that TLC finds:

- `recovered_row_stranded`: the handler in `tasks/watchdog.py:291` says "Make it
  terminal instead" of a row whose re-dispatch could not be published, and then
  only logs. The row stays pending and nothing looks at pending rows. A tick that dies,
  or raises on reading the provider keys, between its reset and its re-dispatch does the
  same without a failing publish (`crashes` = 2 of `PendingIsComing`).

The properties below are in the modules too, with a configuration of the same kind
in this directory, for use with `tlc -config <name>.cfg <MC module>`. Two have none of
their own and take the place of the property in another's:

| Configuration | Property | What happens |
|---|---|---|
| `revoke_before_cancelled` | `RevokeAfterCancel` | cancelling revokes first and writes `cancelled` later; `tasks/indexing.py:2188` has it the other way round |
| `reset_takes_live_row` | `ResetYields` | the reset of the reconciler takes a row that was re-indexed and claimed after its query (`tasks/watchdog.py:255`) |
| `unclaimed_write` | `UnclaimedWritesNothing` | a duplicate that finds the source not extracted writes `failed` over a live run (`tasks/indexing.py:2120`) |
| `indexed_without_artifacts` | `IndexedHasArtifacts` | a superseded run deletes what its successor has committed (`tasks/indexing.py:1690`) |
| `gate_countdown` | `RedeliveryFindsLapsed` | a delivery that waited out a countdown holds its lease past the visibility timeout (`services/extraction_gate.py:141`) |
| `listed_image_deleted` | `ListedIsStored` | a failed run deletes page images by the row it read at its start, so a re-extract that finished meanwhile loses images it lists (`tasks/extraction.py:347`) |
| `slow_ticks_overlap` | `OneTick` | a lock of 60 seconds around executions of up to 600 (`tasks/scheduler.py:51`) |
| `failed_runs_again` | `FailedIsFinal` | a worker dies between writing `failed` and acknowledging (`tasks/extraction.py:730`) |
| `attention_runs_twice` | `DoneIsLeftAlone` | a second copy of a wait extracts a source that ended in `attention_required` (`tasks/extraction.py:730`) |
| `listed_image_deleted` | `ListedIsOwners` | a replaced run streams its page images over the newer ones (`tasks/extraction.py:504`) |
| `live_run_charged` | `ExtractingMeansDied` | a worker dies between publishing a retry and acknowledging; the running retry is charged as a death (`tasks/extraction.py:746`) |
| `chains_stay_apart` | `ChainsMerge` | two chains whose ticks do not meet at the lock go on side by side (`tasks/scheduler.py:53`) |
| `scheduler` | `FreshIsDue` | a workflow undeployed under its execution is not fresh when deployed again (`tasks/scheduler.py:228`) |

Properties of the composed modules of the same kind are defined at the end of
`Activities` and `KnowledgeBases`. Each is seen to fail by TLC when it takes the
place of the `INVARIANT` lines of `activities.cfg` or `knowledge_bases.cfg`:

| Property | What happens |
|---|---|
| `NoImageKept` | references are handed out in the order the searches of a tool were stored, calls in the order the model asked; calls that overlapped keep their images, or get the reference of another (`services/context_handler.py:1259` against the docstring at `1214`) |
| `UserRowsApart` | the time of a message is that of its transaction, which begins with the check of the session, before the lock: two rows of the user follow each other in the project copilot (`routes/project_copilot.py:225` against the comment at `46`) |
| `NotedIsShown` | an item is "already shown above" because its pages were, by an item of another text (`services/knowledge_search.py:2913` against the comment at `2576`) |
| `ChargedSucceeded` | the reranker is charged although it failed and the order was kept (`services/knowledge_search.py:1296` and `755` against the docstring at `256`) |
| `SurvivesIterativeScan` | "search still works" without the setting, but the statement that fails has aborted the transaction the search is in (`services/base_vector_store.py:806` against the docstring at `799`) |
| `NothingDropped` | the waiter's key lapses and a dispatch ends for a waiter that is gone (`tasks/indexing.py`, `_current_waiter`) |
| `EndsRecorded` | an execution stays recorded as running when its edges cannot be read after its row was committed (`routes/workflows.py:566`), or when a search aborted the transaction that is to record the end (`679`) |
| `CompletedRan` | a stream whose reader leaves is recorded as completed with what its blocks gave so far (`routes/workflows.py:889`) |
| `FailedNotCharged` | the client leaves between the charge and the last event: the run is recorded as failed and is charged (`routes/agents.py:2683`, `3032`) |
| `WarnedIsAnswered` | the rollback after a failed retrieval takes the session row that was not committed yet; the run, which "responded without document context", cannot be recorded and is reported as an error (`routes/agents.py:1721`) |
| `ErrorIsRecorded` | a run whose session was deleted under it ends in an error that leaves no row (`routes/agents.py:3124`) |

More are in the modules and not in the composition: `AlwaysComplete` of `KeywordFile`
(a build reads the rows, a run commits another and adds it to the file, and the build
writes what it read over it; the docstring of `rebuild_from_scratch` speaks of crashes only,
`services/sparse_retrieval/sparse_index_store.py:236`), `ReadyIsCurrent` of `KeywordFile` (the status
compares counts, and a re-index that leaves as many items is "ready",
`routes/knowledge_bases.py:724`), `FailureRecorded` of `ToolCalls` (a search whose error aborted
the session of its call cannot record that it failed, `services/context_handler.py:786`),
`OrphanUnreached` of `VectorIndex` (the start-up sweep does
reach the index of a deleted knowledge base) and the charges of a workflow whose graph is
saved under its execution, which go by the types of the blocks of the other version
(`routes/workflows.py:528`, `719`; the constant graph of `Workflows` does not show it).

`PROJECT.json` lists further hazards that no property covers yet, with the reason.

## 6. Not modelled, and the plan

Left out of the modules above: the soft time limit (the pool of threads does not
raise it), the fan-out of a whole knowledge base (`reindex_knowledge_base`) and graph
re-enrichment, what strategies and extractors compute, the tokenizer and the scores
of the keyword file, cron evaluation and the time zone of a schedule, several
workflows (they share no schedule state, only the time of a tick), the events of a
stream and their wording, what models, blocks and tools compute, the mirroring of
index definitions onto a partition, editing of definitions that is plain CRUD, keys,
settings, storage and authentication.

What would come next, in order:

1. `UrlExtraction` on `Sources`: retries by cause, and a final write that is not
   fenced on the owner. The edit of a source by hand.
2. `TickChains`, an abstract lock and chain that the scheduler, the reconciler and the
   documentation refresh are each shown to implement or not (the last one deletes its
   lock by comparing a token); `DocsRefresh` on top of it.
3. `ReindexFanOut` and graph re-enrichment, against `IndexingWatchdog`.
4. `RateLimiter`, as a pure operator against a reference definition.
5. Abstract specifications beside `ItemRows`: one job with one owner and one outcome,
   implemented by indexing and, for the owner's result, by extraction; a counting
   semaphore, implemented by the gate.
6. Proofs: `FloorKept` and `ExpandedApart` from facts about sorted permutations, as
   `ContextFormat` states its order; the gate as an
   implementation of the set of leases that `SourceExtraction` goes by.
