------------------------------ MODULE Sources ------------------------------
(***************************************************************************)
(* The row of one source in ai.sources, the routes that create, cancel,    *)
(* re-extract and delete it, and the broker's messages of its extraction   *)
(* tasks.  SourceExtraction (files) and UrlExtraction (web pages) extend   *)
(* this module with the run of the task.                                   *)
(*                                                                         *)
(* A task keeps its id over retries and countdowns, so the broker may hold *)
(* several messages of one task.  A message is a task and its retry count. *)
(* Each request makes a new task id; the ids bound the requests.           *)
(***************************************************************************)
EXTENDS Naturals, FiniteSets

CONSTANTS
    Tasks,       \* Celery task ids, one per upload or re-extract
    Workers,     \* worker threads
    None,        \* SQL NULL, and no message
    MaxRetries,  \* max_retries
    MaxMishaps,  \* bound on the mishaps explored
    Faults       \* TRUE: publishing, and Redis beside the broker, may fail

ASSUME SourcesAssumption ==
    /\ None \notin Tasks \cup Nat \cup (Tasks \X Nat)
    /\ {MaxRetries, MaxMishaps} \subseteq Nat
    /\ Faults \in BOOLEAN

VARIABLES
    status,    \* extraction_status; "none" before the row exists, "deleted" after
    owner,     \* celery_task_id
    result,    \* the task whose derivatives the row lists
    request,   \* how far each task's request has come
    cancels,   \* cancel requests that have revoked and not yet written
    queue,     \* messages in the broker, or on countdown in a worker
    lost,      \* messages that died with a worker, until the visibility timeout
    revoked,   \* task ids the workers discard
    pc,        \* how far each worker has come
    job,       \* the message each worker runs
    mishaps    \* worker deaths, live redeliveries and early recoveries so far

rowVars == <<status, owner, result>>
brokerVars == <<queue, lost, revoked>>
userVars == <<request, cancels>>
sourceVars == <<rowVars, brokerVars, userVars, pc, job, mishaps>>

\* Copies of one message that are told apart: a bound; a further one is dropped.
MaxCopies == 2

OneMore(n) == IF n < MaxCopies THEN n + 1 ELSE n

Messages == Tasks \X (0..MaxRetries)
Requests == {"unused", "upload", "reextract", "sent"}
Statuses == {"none", "pending", "extracting", "extracted", "attention_required",
             "failed", "cancelled", "deleted"}

Task(w) == job[w][1]
Retries(w) == job[w][2]
Exists == status \notin {"none", "deleted"}

\* Seeded bug: the fence lets a cancelled source be written.
MayWriteCancelled(t) == Exists /\ owner \in {None, t}

\* The fence of update_source_status and claim_source.
MayWrite(t) == Exists /\ status # "cancelled" /\ owner \in {None, t}

SourcesTypeOK ==
    /\ status \in Statuses
    /\ owner \in Tasks \cup {None}
    /\ result \in Tasks \cup {None}
    /\ request \in [Tasks -> Requests]
    /\ cancels \in 0..1
    /\ queue \in [Messages -> 0..MaxCopies]
    /\ lost \in [Messages -> 0..MaxCopies]
    /\ revoked \subseteq Tasks
    /\ job \in [Workers -> Messages \cup {None}]
    /\ \A w \in Workers : pc[w] # "idle" => job[w] \in Messages
    /\ mishaps \in 0..MaxMishaps

SourcesInit ==
    /\ status = "none"
    /\ owner = None
    /\ result = None
    /\ request = [t \in Tasks |-> "unused"]
    /\ cancels = 0
    /\ queue = [m \in Messages |-> 0]
    /\ lost = [m \in Messages |-> 0]
    /\ revoked = {}
    /\ pc = [w \in Workers |-> "idle"]
    /\ job = [w \in Workers |-> None]
    /\ mishaps = 0

-----------------------------------------------------------------------------
(* Routes.  Each leaves the workers alone. *)

WorkersAlone == UNCHANGED <<pc, job, mishaps>>

\* POST /upload, /import-from-storage, /import-url: insert the row with its owner.
Upload(t) ==
    /\ request[t] = "unused"
    /\ status = "none"
    /\ status' = "pending"
    /\ owner' = t
    /\ request' = [request EXCEPT ![t] = "upload"]
    /\ UNCHANGED <<result, cancels, brokerVars>>
    /\ WorkersAlone

\* POST /<source>/reextract: reset the row and hand it to the new task in one
\* statement, whatever its status.
Reextract(t) ==
    /\ request[t] = "unused"
    /\ Exists
    /\ status' = "pending"
    /\ owner' = t
    /\ request' = [request EXCEPT ![t] = "reextract"]
    /\ UNCHANGED <<result, cancels, brokerVars>>
    /\ WorkersAlone

\* Seeded bug: a request sends its task twice.
SendTwice(t) ==
    /\ request[t] \in {"upload", "reextract"}
    /\ request' = [request EXCEPT ![t] = "sent"]
    /\ queue' = [queue EXCEPT ![<<t, 0>>] = 2]
    /\ UNCHANGED <<rowVars, cancels, lost, revoked>>
    /\ WorkersAlone

\* apply_async, after the commit.
Send(t) ==
    /\ request[t] \in {"upload", "reextract"}
    /\ request' = [request EXCEPT ![t] = "sent"]
    /\ queue' = [queue EXCEPT ![<<t, 0>>] = 1]
    /\ UNCHANGED <<rowVars, cancels, lost, revoked>>
    /\ WorkersAlone

\* apply_async raises.  An upload deletes its row again when cleansUp (the URL
\* import does not); a re-extract leaves the row pending.
SendFails(t, cleansUp) ==
    /\ Faults
    /\ request[t] \in {"upload", "reextract"}
    /\ request' = [request EXCEPT ![t] = "sent"]
    /\ status' = IF request[t] = "upload" /\ cleansUp THEN "deleted" ELSE status
    /\ UNCHANGED <<owner, result, cancels, brokerVars>>
    /\ WorkersAlone

\* POST /<source>/cancel, first half: read the status and revoke the owner.
CancelBegin ==
    /\ status \in {"pending", "extracting"}
    /\ cancels = 0
    /\ cancels' = 1
    /\ revoked' = revoked \cup ({owner} \cap Tasks)
    /\ UNCHANGED <<rowVars, request, queue, lost>>
    /\ WorkersAlone

\* Its second half: write 'cancelled', whatever the row says by now.
CancelEnd ==
    /\ cancels = 1
    /\ cancels' = 0
    /\ status' = IF Exists THEN "cancelled" ELSE status
    /\ UNCHANGED <<owner, result, request, brokerVars>>
    /\ WorkersAlone

-----------------------------------------------------------------------------
(* The broker *)

\* A worker takes a message, or discards it when its task was revoked.
Fetch(w, m) ==
    /\ pc[w] = "idle"
    /\ queue[m] > 0
    /\ queue' = [queue EXCEPT ![m] = @ - 1]
    /\ IF m[1] \in revoked
       THEN UNCHANGED <<pc, job>>
       ELSE /\ pc' = [pc EXCEPT ![w] = "start"]
            /\ job' = [job EXCEPT ![w] = m]
    /\ UNCHANGED <<rowVars, userVars, lost, revoked, mishaps>>

\* What the task sends under its own id, after the messages it leaves.
Enqueue(m) == queue' = [queue EXCEPT ![m] = OneMore(@)]

\* The worker is killed while it runs a message.
Kill(w) ==
    /\ pc[w] # "idle"
    /\ mishaps < MaxMishaps
    /\ mishaps' = mishaps + 1
    /\ lost' = [lost EXCEPT ![job[w]] = OneMore(@)]
    /\ pc' = [pc EXCEPT ![w] = "idle"]
    /\ job' = [job EXCEPT ![w] = None]
    /\ UNCHANGED <<rowVars, userVars, queue, revoked>>

\* A lost message comes back when the visibility timeout has passed.
Redeliver(m) ==
    /\ lost[m] > 0
    /\ Enqueue(m)
    /\ lost' = [lost EXCEPT ![m] = @ - 1]
    /\ UNCHANGED <<rowVars, userVars, revoked, pc, job, mishaps>>

\* The task has returned, and its message is acknowledged.
Return(w) ==
    /\ pc' = [pc EXCEPT ![w] = "idle"]
    /\ job' = [job EXCEPT ![w] = None]
    /\ UNCHANGED <<rowVars, userVars, brokerVars, mishaps>>

Goto(w, position) ==
    /\ pc' = [pc EXCEPT ![w] = position]
    /\ UNCHANGED <<job, mishaps, userVars, lost, revoked>>

\* update_source_status: succeeds, or finds that the source is another's.
SetStatus(t, s) ==
    /\ status' = IF MayWrite(t) THEN s ELSE status
    /\ owner' = IF MayWrite(t) THEN t ELSE owner
=============================================================================
