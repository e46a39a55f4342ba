-------------------------- MODULE SourceExtraction --------------------------
(***************************************************************************)
(* extract_source: a run reads the row, waits for a slot when the file is  *)
(* large, recognises that an earlier delivery of its task died, claims the *)
(* source, stores page images and then the other derivatives, and writes   *)
(* its result if it still owns the source.                                 *)
(*                                                                         *)
(* The slots are those of ExtractionGate, reduced to which leases are      *)
(* alive.  A source has two derivatives, under the same names whichever    *)
(* run stores them: the text, and the page images that only some           *)
(* extractors render.                                                      *)
(***************************************************************************)
EXTENDS Sources

CONSTANTS
    Large,             \* TRUE: the file is extracted under the gate
    MaxHolders,        \* slots of the gate
    MaxInterruptions,  \* MAX_EXTRACTION_INTERRUPTIONS
    MaxUnattributed,   \* MAX_UNATTRIBUTED_INTERRUPTIONS
    Overdue,           \* TRUE: a wait may go unrefreshed for ten minutes in a live worker
    LiveRedelivery     \* TRUE: a run may outlive the visibility timeout and its lease

ASSUME ExtractionAssumption ==
    /\ {MaxHolders, MaxInterruptions, MaxUnattributed} \subseteq Nat \ {0}
    /\ {Large, Overdue, LiveRedelivery} \subseteq BOOLEAN

VARIABLES
    listed,    \* the row's derivatives
    content,   \* which task stored each derivative in the bucket last
    marker,    \* extraction_interrupted_task
    charged,   \* extraction_interruptions
    spared,    \* extraction_unattributed_interruptions
    attempt,   \* a task's record in ExtractionAttempts: no record, no slot, or a token
    leases,    \* tokens of live slots; a worker's name stands for its token
    waiting,   \* WaitingExtractions: the retry count each waiting task is sent with
    seen,      \* what each run read of the row when it started
    made,      \* the derivatives each run has stored
    deaths     \* runs of each task killed with the source claimed for it

recordVars == <<marker, charged, spared>>
redisVars == <<attempt, leases, waiting>>
fileVars == <<listed, content>>
localVars == <<seen, made>>
vars == <<sourceVars, recordVars, redisVars, fileVars, localVars, deaths>>

Files == {"text", "images"}
Outputs == {{"text"}, {"text", "images"}}

Snapshot == [listed : SUBSET Files, marker : Tasks \cup {None},
             charged : Nat, spared : Nat,
             redelivered : BOOLEAN]
NoSnapshot == [listed |-> {}, marker |-> None, charged |-> 0, spared |-> 0,
               redelivered |-> FALSE]

\* Positions of a run.  In Body it has claimed the source; it loses its slot and
\* its record in the attempts only after that.
Body == {"begin", "extract", "rendered", "store", "write"}
Positions == {"idle", "start", "unsized", "gate", "count", "claim", "abort", "retry",
              "fail", "prune", "forget", "return"} \cup Body

TypeOK ==
    /\ SourcesTypeOK
    /\ pc \in [Workers -> Positions]
    /\ listed \subseteq Files
    /\ content \in [Files -> Tasks \cup {None}]
    /\ marker \in Tasks \cup {None}
    /\ charged \in Nat
    /\ spared \in Nat
    /\ attempt \in [Tasks -> {"none", "no slot"} \cup Workers]
    /\ leases \subseteq Workers
    /\ waiting \in [Tasks -> 0..MaxRetries \cup {None}]
    /\ seen \in [Workers -> Snapshot]
    /\ made \in [Workers -> SUBSET Files]
    /\ deaths \in [Tasks -> 0..MaxMishaps]

Init ==
    /\ SourcesInit
    /\ listed = {}
    /\ content = [f \in Files |-> None]
    /\ marker = None
    /\ charged = 0
    /\ spared = 0
    /\ attempt = [t \in Tasks |-> "none"]
    /\ leases = {}
    /\ waiting = [t \in Tasks |-> None]
    /\ seen = [w \in Workers |-> NoSnapshot]
    /\ made = [w \in Workers |-> {}]
    /\ deaths = [t \in Tasks |-> 0]

-----------------------------------------------------------------------------
(* The run *)

\* The wait is over; then the reads.  Whatever is not this task's to extract is
\* left alone.  The size of the object is asked last, and storage may not answer.
Start(w) ==
    /\ pc[w] = "start"
    /\ waiting' = [waiting EXCEPT ![Task(w)] = None]
    /\ IF /\ Exists /\ status \notin {"cancelled", "extracted"}
          /\ owner \in {None, Task(w)}
       THEN Goto(w, "gate") \/ Goto(w, "unsized")
       ELSE Goto(w, "return")
    /\ seen' = [seen EXCEPT ![w] =
         [listed |-> listed, marker |-> marker, charged |-> charged, spared |-> spared,
          redelivered |-> status = "extracting" /\ owner = Task(w)]]
    /\ UNCHANGED <<rowVars, queue, recordVars, attempt, leases, fileVars, made, deaths>>

\* The task's last delivery holds a live slot.
PreviousAlive(w) == seen[w].redelivered /\ attempt[Task(w)] \in leases

\* _mark_waiting and _requeue: the same message again, later.
Defer(w) ==
    /\ pc[w] = "gate"
    /\ PreviousAlive(w) \/ Large
    /\ waiting' = [waiting EXCEPT ![Task(w)] = Retries(w)]
    /\ \/ Enqueue(job[w]) /\ Goto(w, "return")
       \/ Faults /\ UNCHANGED queue /\ Goto(w, "abort")
    /\ UNCHANGED <<rowVars, recordVars, attempt, leases, fileVars, localVars, deaths>>

\* A large file takes a slot; other sources may hold any of them, which is
\* another reason to Defer.  With Redis out of reach both checks let it pass.
Admit(w) ==
    /\ pc[w] = "gate"
    /\ Faults \/ ~PreviousAlive(w)
    /\ \/ /\ Large
          /\ Cardinality(leases) < MaxHolders
          /\ leases' = leases \cup {w}
       \/ /\ ~Large \/ Faults
          /\ UNCHANGED leases
    /\ Goto(w, IF seen[w].redelivered THEN "count" ELSE "claim")
    /\ UNCHANGED <<rowVars, queue, recordVars, attempt, waiting, fileVars, localVars, deaths>>

\* Seeded bug: a spared death is charged as well.
CountBoth(w) ==
    /\ pc[w] = "count"
    /\ LET known == seen[w].marker = Task(w)
       IN  /\ marker' = Task(w)
           /\ charged' = (IF known THEN seen[w].charged ELSE 0) + 1
           /\ spared' = (IF known THEN seen[w].spared ELSE 0) + 1
    /\ Goto(w, "claim") \/ Goto(w, "fail")
    /\ UNCHANGED <<rowVars, queue, redisVars, fileVars, localVars, deaths>>

\* _count_interruption, from the counts read at the start: charge the death of
\* the last delivery to this file, or spare it when a larger file was in flight
\* beside it; at either cap, give up.
Count(w) ==
    /\ pc[w] = "count"
    /\ \E plausible \in IF attempt[Task(w)] = "none" THEN {TRUE} ELSE BOOLEAN :
         LET known == seen[w].marker = Task(w)
             c == (IF known THEN seen[w].charged ELSE 0) + (IF plausible THEN 1 ELSE 0)
             s == (IF known THEN seen[w].spared ELSE 0) + (IF plausible THEN 0 ELSE 1)
             again == IF plausible THEN c < MaxInterruptions ELSE s < MaxUnattributed
         IN  /\ IF Exists
                THEN marker' = Task(w) /\ charged' = c /\ spared' = s
                ELSE UNCHANGED recordVars
             /\ Goto(w, IF again THEN "claim" ELSE "fail")
    /\ UNCHANGED <<rowVars, queue, redisVars, fileVars, localVars, deaths>>

\* claim_source.  Of what the run has read, only the derivatives matter from here.
Claim(w) ==
    /\ pc[w] = "claim"
    /\ SetStatus(Task(w), "extracting")
    /\ Goto(w, IF MayWrite(Task(w)) THEN "begin" ELSE "return")
    /\ seen' = [seen EXCEPT ![w] = [NoSnapshot EXCEPT !.listed = seen[w].listed]]
    /\ UNCHANGED <<result, queue, recordVars, redisVars, fileVars, made, deaths>>

\* ExtractionAttempts.begin.
Begin(w) ==
    /\ pc[w] = "begin"
    /\ \/ attempt' = [attempt EXCEPT ![Task(w)] = IF w \in leases THEN w ELSE "no slot"]
       \/ Faults /\ UNCHANGED attempt
    /\ Goto(w, "extract")
    /\ UNCHANGED <<rowVars, queue, recordVars, leases, waiting, fileVars, localVars, deaths>>

\* The extractor runs, and page_image_sink stores the pages it renders.
Extract(w) ==
    /\ pc[w] = "extract"
    /\ \E output \in Outputs :
         /\ made' = [made EXCEPT ![w] = output \ {"text"}]
         /\ content' = [f \in Files |-> IF f \in output \ {"text"} THEN Task(w)
                                                                   ELSE content[f]]
    /\ Goto(w, "rendered")
    /\ UNCHANGED <<rowVars, queue, recordVars, redisVars, listed, seen, deaths>>

\* The extractor raises: _delete_unreferenced_page_images, by the snapshot.
ExtractFails(w) ==
    /\ pc[w] = "rendered"
    /\ content' = [f \in Files |-> IF f \in made[w] \ seen[w].listed THEN None ELSE content[f]]
    /\ Goto(w, "retry") \/ Goto(w, "fail")
    /\ UNCHANGED <<rowVars, queue, recordVars, redisVars, listed, localVars, deaths>>

\* still_owned.
CheckOwned(w) ==
    /\ pc[w] = "rendered"
    /\ Goto(w, IF MayWrite(Task(w)) THEN "store" ELSE "forget")
    /\ UNCHANGED <<rowVars, queue, recordVars, redisVars, fileVars, localVars, deaths>>

\* The other derivatives; an upload may fail.
Store(w) ==
    /\ pc[w] = "store"
    /\ \/ /\ content' = [content EXCEPT !["text"] = Task(w)]
          /\ made' = [made EXCEPT ![w] = @ \cup {"text"}]
          /\ Goto(w, "write")
       \/ UNCHANGED <<content, made>> /\ Goto(w, "retry")
    /\ UNCHANGED <<rowVars, queue, recordVars, redisVars, listed, seen, deaths>>

\* Seeded bug: the result is written whoever owns the source.
WriteUnfenced(w) ==
    /\ pc[w] = "write"
    /\ Exists
    /\ status' = "extracted"
    /\ result' = Task(w)
    /\ listed' = made[w]
    /\ marker' = None
    /\ charged' = 0
    /\ spared' = 0
    /\ Goto(w, "prune")
    /\ UNCHANGED <<owner, queue, redisVars, content, localVars, deaths>>

\* update_source_extraction_result, fenced on not cancelled and on the owner.
\* attention_required is for a fallback, blank pages or missing page images.
Write(w) ==
    /\ pc[w] = "write"
    /\ IF Exists /\ status # "cancelled" /\ owner = Task(w)
       THEN /\ status' \in {"extracted", "attention_required"}
            /\ result' = Task(w)
            /\ listed' = made[w]
            /\ marker' = None
            /\ charged' = 0
            /\ spared' = 0
            /\ Goto(w, "prune")
       ELSE /\ UNCHANGED <<status, result, listed, recordVars>>
            /\ Goto(w, "forget")
    /\ UNCHANGED <<owner, queue, redisVars, content, localVars, deaths>>

\* Seeded bug: what the new result lists again goes too.
PruneAll(w) ==
    /\ pc[w] = "prune"
    /\ content' = [f \in Files |-> IF f \in seen[w].listed THEN None ELSE content[f]]
    /\ Goto(w, "forget")
    /\ UNCHANGED <<rowVars, queue, recordVars, redisVars, listed, localVars, deaths>>

\* _delete_replaced_derivatives, by the snapshot.
Prune(w) ==
    /\ pc[w] = "prune"
    /\ content' = [f \in Files |-> IF f \in seen[w].listed \ made[w] THEN None ELSE content[f]]
    /\ Goto(w, "forget")
    /\ UNCHANGED <<rowVars, queue, recordVars, redisVars, listed, localVars, deaths>>

\* Seeded bug: the retries are not counted.
RetryForEver(w) ==
    /\ pc[w] \in {"retry", "unsized"}
    /\ SetStatus(Task(w), "pending")
    /\ waiting' = [waiting EXCEPT ![Task(w)] = Retries(w) + 1]
    /\ UNCHANGED queue
    /\ Goto(w, IF pc[w] = "retry" THEN "forget" ELSE "return")
    /\ UNCHANGED <<result, recordVars, attempt, leases, fileVars, localVars, deaths>>

\* Seeded bug: the row goes back to pending and no retry is sent.
RetryUnsent(w) ==
    /\ pc[w] \in {"retry", "unsized"}
    /\ SetStatus(Task(w), IF Retries(w) < MaxRetries THEN "pending" ELSE "failed")
    /\ Goto(w, IF pc[w] = "retry" THEN "forget" ELSE "return")
    /\ UNCHANGED <<result, queue, waiting, recordVars, attempt, leases, fileVars,
                   localVars, deaths>>

\* A StorageError: back to pending and a retry under the same id, or failed.
Retry(w) ==
    /\ pc[w] \in {"retry", "unsized"}
    /\ SetStatus(Task(w), IF Retries(w) < MaxRetries THEN "pending" ELSE "failed")
    /\ IF MayWrite(Task(w)) /\ Retries(w) < MaxRetries
       THEN /\ waiting' = [waiting EXCEPT ![Task(w)] = Retries(w) + 1]
            /\ \/ Enqueue(<<Task(w), Retries(w) + 1>>)
               \/ Faults /\ UNCHANGED queue
       ELSE UNCHANGED <<waiting, queue>>
    /\ Goto(w, IF pc[w] = "retry" THEN "forget" ELSE "return")
    /\ UNCHANGED <<result, recordVars, attempt, leases, fileVars, localVars, deaths>>

\* Any other exception, and a file interrupted too often.
Fail(w) ==
    /\ pc[w] \in {"fail", "abort"}
    /\ SetStatus(Task(w), "failed")
    /\ Goto(w, IF pc[w] = "fail" THEN "forget" ELSE "return")
    /\ UNCHANGED <<result, queue, recordVars, redisVars, fileVars, localVars, deaths>>

Vanish(w) ==
    /\ seen' = [seen EXCEPT ![w] = NoSnapshot]
    /\ made' = [made EXCEPT ![w] = {}]

\* The task's `finally`: forget the attempt, if it got that far, and release the
\* slot.
Finally(w) ==
    /\ pc[w] \in {"forget", "return"}
    /\ attempt' = IF pc[w] = "forget" THEN [attempt EXCEPT ![Task(w)] = "none"]
                                      ELSE attempt
    /\ leases' = leases \ {w}
    /\ Return(w)
    /\ Vanish(w)
    /\ UNCHANGED <<waiting, recordVars, fileVars, deaths>>

-----------------------------------------------------------------------------
(* Deaths, timeouts and the recovery of lost waits *)

\* Where the row says that this run is extracting, as far as the run knows, and
\* the death that it came after has been counted.
Claimed(w) ==
    \/ pc[w] \in Body \cup {"retry", "fail"}
    \/ pc[w] = "claim" /\ seen[w].redelivered

Die(w) ==
    /\ Kill(w)
    /\ Vanish(w)
    /\ deaths' = [deaths EXCEPT ![Task(w)] = IF Claimed(w) THEN @ + 1 ELSE @]
    /\ UNCHANGED <<recordVars, redisVars, fileVars>>

\* What the actions of the broker leave alone.
RunsAlone == UNCHANGED <<rowVars, userVars, revoked, pc, job, recordVars, fileVars,
                         localVars, deaths>>

\* A message on countdown dies with the worker that holds it.
LoseWaiting(m) ==
    /\ waiting[m[1]] = m[2]
    /\ queue[m] > 0
    /\ mishaps < MaxMishaps
    /\ mishaps' = mishaps + 1
    /\ queue' = [queue EXCEPT ![m] = @ - 1]
    /\ lost' = [lost EXCEPT ![m] = OneMore(@)]
    /\ UNCHANGED redisVars
    /\ RunsAlone

\* A lease runs out when nothing renews it, or when its holder has held it for as
\* long as one may.
Lapse(w) ==
    /\ w \in leases
    /\ pc[w] = "idle" \/ LiveRedelivery
    /\ leases' = leases \ {w}
    /\ UNCHANGED <<queue, lost, mishaps, attempt, waiting>>
    /\ RunsAlone

\* The broker hands out a message whose run is still going.
RedeliverLive(w) ==
    /\ LiveRedelivery
    /\ pc[w] \in Body \cup {"prune"}
    /\ mishaps < MaxMishaps
    /\ mishaps' = mishaps + 1
    /\ Enqueue(job[w])
    /\ UNCHANGED <<lost, redisVars>>
    /\ RunsAlone

\* recover_stranded_extractions, for one wait that nobody has refreshed: it is
\* lost, or it has been late for ten minutes in a worker.
Recover(t) ==
    /\ waiting[t] # None
    /\ LET m == <<t, waiting[t]>>
       IN  /\ \/ lost[m] > 0 /\ queue[m] = 0 /\ UNCHANGED mishaps
              \/ Overdue /\ mishaps < MaxMishaps /\ mishaps' = mishaps + 1
           /\ IF owner = t /\ status \in {"pending", "extracting"}
              THEN /\ attempt[t] \notin leases
                   /\ Enqueue(m)
                   /\ UNCHANGED waiting
              ELSE /\ waiting' = [waiting EXCEPT ![t] = None]
                   /\ UNCHANGED queue
    /\ UNCHANGED <<lost, attempt, leases>>
    /\ RunsAlone

-----------------------------------------------------------------------------
\* DELETE /<source>: the files the row listed, then the row.
Delete ==
    /\ Exists
    /\ status' = "deleted"
    /\ content' = [f \in Files |-> IF f \in listed THEN None ELSE content[f]]
    /\ listed' = {}
    /\ UNCHANGED <<owner, result, userVars, brokerVars, pc, job, mishaps, recordVars,
                   redisVars, localVars, deaths>>

ExtractionAlone == UNCHANGED <<recordVars, redisVars, fileVars, localVars, deaths>>

Request(t) ==
    /\ Upload(t) \/ Reextract(t) \/ Send(t) \/ SendFails(t, TRUE)
    /\ ExtractionAlone

Cancel ==
    /\ CancelBegin \/ CancelEnd
    /\ ExtractionAlone

\* A restarted worker is a new process: its old token is gone before it begins.
Take(w, m) ==
    /\ w \notin leases
    /\ Fetch(w, m)
    /\ ExtractionAlone

Run(w) ==
    \/ Start(w) \/ Defer(w) \/ Admit(w) \/ Count(w) \/ Claim(w) \/ Begin(w)
    \/ Extract(w) \/ ExtractFails(w) \/ CheckOwned(w) \/ Store(w) \/ Write(w)
    \/ Prune(w) \/ Retry(w) \/ Fail(w) \/ Finally(w)

Deliver(m) == Redeliver(m) /\ ExtractionAlone

Next ==
    \/ \E t \in Tasks : Request(t) \/ Recover(t)
    \/ Cancel \/ Delete
    \/ \E w \in Workers : Run(w) \/ Die(w) \/ Lapse(w) \/ RedeliverLive(w)
    \/ \E w \in Workers, m \in Messages : Take(w, m)
    \/ \E m \in Messages : Deliver(m) \/ LoseWaiting(m)

Spec == Init /\ [][Next]_vars

\* No worker dies.
QuietSpec == Init /\ [][Next /\ UNCHANGED lost]_vars

\* Workers, the broker and an accepted request keep going; the queue is served in
\* order, so every message has its turn, and a run that keeps asking
\* is let in some day, since every holder of a slot lets go of it.  Nobody has to
\* ask for anything, and nothing has to be cancelled or to die.
FairSpec ==
    /\ Spec
    /\ \A w \in Workers : WF_vars(Run(w)) /\ SF_vars(Admit(w)) /\ WF_vars(Lapse(w))
    /\ \A m \in Messages : SF_vars(\E w \in Workers : Take(w, m)) /\ WF_vars(Deliver(m))
    /\ \A t \in Tasks : WF_vars(Send(t) /\ ExtractionAlone)
    /\ WF_vars(CancelEnd /\ ExtractionAlone)

-----------------------------------------------------------------------------
(* Properties *)

\* The row of an extracted source names the derivatives of the task that owns it:
\* a run that a re-extract has replaced never gets its result in, however late it
\* comes (the fence of update_source_extraction_result).
LatestWins == status \in {"extracted", "attention_required"} => result = owner

\* No run takes a cancelled source up again, whatever it read before the
\* cancellation: only the user re-extracts or deletes it.
CancelSticks ==
    [][status = "cancelled" /\ status' # "cancelled" =>
         status' = "deleted" \/ \E t \in Tasks : owner' = t /\ request[t] = "unused"]_vars

\* The text that an extracted row lists is in the bucket: no cleanup of an earlier
\* or a failed run takes it away.
TextStored ==
    status \in {"extracted", "attention_required"} => content["text"] # None

\* One run at a time extracts for the task that owns the source.
OneRunner ==
    \A v, w \in Workers :
        pc[v] \in Body /\ pc[w] \in Body /\ Task(v) = owner /\ Task(w) = owner => v = w

\* The account of a task holds no more deaths than it has died: one run is never
\* charged twice, nor a run that lives.
NoFalseCharge == marker # None => charged + spared <= deaths[marker]

\* extract_source: "finding it still `extracting` under this task's own id means an
\* earlier delivery died mid-run".  So no run of the task is going when a run is
\* about to count a death.
ExtractingMeansDied ==
    \A v, w \in Workers :
        v # w /\ pc[w] = "count" /\ pc[v] \in Body => Task(v) # Task(w)

\* extract_source: "Not `failed`: callers polling the status treat that as final."
\* So only a new request moves a source on from failed.
FailedIsFinal ==
    [][status = "failed" /\ status' # "failed" =>
         status' \in {"deleted", "cancelled"}
         \/ \E t \in Tasks : owner' = t /\ request[t] = "unused"]_vars

\* recover_stranded_extractions: "any copy that does turn up later finds the work
\* done or claimed".  So a task whose result the row holds does not claim again.
DoneIsLeftAlone ==
    [][\A w \in Workers :
         pc[w] = "claim" /\ pc'[w] = "begin" => result # Task(w)]_vars

\* _delete_unreferenced_page_images: a failed attempt's page images go "unless the
\* source's current derivatives still point at them".  So what an extracted row
\* lists is there.
ListedIsStored ==
    status \in {"extracted", "attention_required"} =>
        \A f \in listed : content[f] # None

\* run_extraction: a run whose source was handed to another task stops "instead of
\* overwriting that task's files".
ListedIsOwners ==
    status \in {"extracted", "attention_required"} =>
        \A f \in listed : content[f] \in {owner, None}

\* A source does not stay in extracting, or in pending: workers may die and storage
\* may fail, but every delivery ends in a result, a failure or a cancellation.
ExtractionResolves ==
    [](status \in {"pending", "extracting"} =>
         <>(status \notin {"pending", "extracting"}))
=============================================================================
