----------------------------- MODULE AgentRuns -----------------------------
(* Runs of agents and orchestrations (routes/agents.py, routes/orchestrations.py)
   with the sessions they belong to. A run is answered at once ("single"), or
   streamed: by the model alone ("plain", the request's generator pulls the
   model's), by an agent with tools or by an orchestration (an engine thread
   feeds the generator through a queue). A client may leave at any event it is
   sent; then the request ends, and what was begun is cut short ("tools"), read to
   its end by a thread of its own ("plain") or left to the clean-up
   ("orchestration"). Agent and orchestration runs keep their rows and sessions
   in tables of their own with the same columns; here one table holds both. *)
EXTENDS Naturals, FiniteSets

CONSTANTS Runs, Procs,   \* runs; processes of the application server
          Kinds,         \* per run: the kinds it may be
          Callers,       \* per run: who may ask for it, "user" or "service"
          Events,        \* bound: deletions of a session, restarts, clean-ups
          None

VARIABLES asked,     \* per run: kind, caller, session name and process, None until it is asked for
          pc,        \* per run: where its request is
          uuid,      \* per run: the session row it was bound to
          open,      \* per run: its transaction has inserted the session and not committed
          row,       \* per run: its row
          engine,    \* per run: the thread or generator that produces the answer
          output,    \* per run: what the engine ended with
          behind,    \* per run: the thread that finishes after the client left
          registry,  \* per process: runs an approval can be handed to
          charged,   \* per run: charges booked
          client,    \* per run: what its client knows
          sessions,  \* per name: the row of that session, None if there is none
          next,      \* id of the next session row
          warned,    \* runs whose retrieval failed and was to be answered without
          left       \* events left

vars == <<asked, pc, uuid, open, row, engine, output, behind, registry, charged, client, sessions, next, warned, left>>
flow == <<pc, uuid, open, row, engine, output, behind, registry, charged, client>>

Shared == "shared"                       \* the session name callers pass in
Names == {Shared} \cup Runs              \* a run without one makes its own
Kept == {"running", "completed", "failed"}
Owners == {"user", "service"}
RunKinds == {"single", "plain", "tools", "orchestration"}
Requests == [kind : RunKinds, caller : Owners, name : Names, proc : Procs]
SessionRows == [id : Nat, owner : Owners]
\* What is assumed of the constants.
RunsAssumption == /\ \A r \in Runs : Kinds[r] \subseteq RunKinds /\ Callers[r] \subseteq Owners
                  /\ None \notin Requests \cup SessionRows
Outcome(out) == IF out = "success" THEN "completed" ELSE "failed"

Init == /\ asked = [r \in Runs |-> None] /\ pc = [r \in Runs |-> "none"]
        /\ uuid = [r \in Runs |-> 0] /\ open = [r \in Runs |-> FALSE]
        /\ row = [r \in Runs |-> "absent"] /\ engine = [r \in Runs |-> "none"]
        /\ output = [r \in Runs |-> None] /\ behind = [r \in Runs |-> "none"]
        /\ registry = [p \in Procs |-> {}] /\ charged = [r \in Runs |-> 0]
        /\ client = [r \in Runs |-> "waits"]
        /\ sessions = [n \in Names |-> None] /\ next = 1 /\ warned = {} /\ left = Events

(* A session made ahead of its runs, for the user who asks or for one a service names. *)
CreateSession(owner) ==
    /\ next = 1 /\ next' = 2 /\ sessions' = [sessions EXCEPT ![Shared] = [id |-> next, owner |-> owner]]
    /\ UNCHANGED <<asked, flow, warned, left>>
(* The request's checks: a user must own the session it names; a service need not. *)
Ask(r, kind, caller, name, p) ==
    /\ pc[r] = "none" /\ name \in {Shared, r}
    /\ caller = "user" /\ name = Shared => sessions[name] # None /\ sessions[name].owner = caller
    /\ asked' = [asked EXCEPT ![r] = [kind |-> kind, caller |-> caller, name |-> name, proc |-> p]]
    /\ pc' = [pc EXCEPT ![r] = "checked"]
    /\ UNCHANGED <<uuid, open, row, engine, output, behind, registry, charged, client, sessions, next, warned, left>>

\* Mutant: the session is looked up by its name alone.
FoundByName(r) == IF sessions[asked[r].name] # None THEN "mine" ELSE "new"
(* What get_or_create_session finds for the caller at the time it runs. *)
Found(r) == LET s == sessions[asked[r].name] IN
    CASE s # None /\ asked[r].caller = "service" -> "mine"
      [] s # None /\ asked[r].caller = "user" -> IF s.owner = "user" THEN "mine" ELSE "refused"
      [] OTHER -> IF asked[r].caller = "user" /\ asked[r].name = Shared THEN "refused" ELSE "new"

(* The session row of a run; the agents' streams commit it before they go on, the
   others with the run's row. A name taken meanwhile fails on commit. *)
Bind(r) ==
    /\ pc[r] = "checked"
    /\ LET k == asked[r].kind  n == asked[r].name  now == k \in {"plain", "tools"}
       IN CASE Found(r) = "refused" -> /\ pc' = [pc EXCEPT ![r] = "ended"] /\ client' = [client EXCEPT ![r] = "error"]
                                       /\ UNCHANGED <<uuid, open, sessions, next>>
            [] Found(r) = "mine" -> /\ pc' = [pc EXCEPT ![r] = "bound"] /\ uuid' = [uuid EXCEPT ![r] = sessions[n].id]
                                    /\ UNCHANGED <<open, client, sessions, next>>
            [] OTHER -> /\ pc' = [pc EXCEPT ![r] = "bound"] /\ uuid' = [uuid EXCEPT ![r] = next] /\ next' = next + 1
                        /\ open' = [open EXCEPT ![r] = ~now] /\ UNCHANGED client
                        /\ sessions' = IF now THEN [sessions EXCEPT ![n] = [id |-> next, owner |-> asked[r].caller]] ELSE sessions
    /\ UNCHANGED <<asked, row, engine, output, behind, registry, charged, warned, left>>

(* Retrieval from the knowledge bases raises: the run is to go on without it, after
   a rollback of everything its transaction holds. *)
RetrievalFails(r) ==
    /\ pc[r] = "bound" /\ asked[r].kind \in {"single", "plain", "tools"} /\ r \notin warned /\ left > 0
    /\ open' = [open EXCEPT ![r] = FALSE] /\ warned' = warned \cup {r} /\ left' = left - 1
    /\ UNCHANGED <<asked, pc, uuid, row, engine, output, behind, registry, charged, client, sessions, next>>

CanInsert(r) == IF open[r] THEN sessions[asked[r].name] = None
                           ELSE \E n \in Names: sessions[n] # None /\ sessions[n].id = uuid[r]
(* The run's row, with the session its transaction holds, in one commit. *)
Inserted(r, status) ==
    /\ row' = [row EXCEPT ![r] = status] /\ open' = [open EXCEPT ![r] = FALSE]
    /\ sessions' = IF open[r] THEN [sessions EXCEPT ![asked[r].name] = [id |-> uuid[r], owner |-> asked[r].caller]] ELSE sessions
Written(r, status) == IF row[r] \in Kept THEN [row EXCEPT ![r] = status] ELSE row

(* The exception handler: a stream marks its row failed, an update that finds no
   row does not raise, so the insert kept for that case is never reached; a single
   run inserts a failed row, in a new session if it must. *)
Fails(r) ==
    /\ pc' = [pc EXCEPT ![r] = "ended"] /\ client' = [client EXCEPT ![r] = "error"]
    /\ IF asked[r].kind = "single" /\ Found(r) # "refused" /\ row[r] = "absent"
       THEN /\ row' = [row EXCEPT ![r] = "failed"] /\ open' = [open EXCEPT ![r] = FALSE]
            /\ IF Found(r) = "mine" THEN uuid' = [uuid EXCEPT ![r] = sessions[asked[r].name].id] /\ UNCHANGED <<sessions, next>>
               ELSE /\ uuid' = [uuid EXCEPT ![r] = next] /\ next' = next + 1
                    /\ sessions' = [sessions EXCEPT ![asked[r].name] = [id |-> next, owner |-> asked[r].caller]]
       ELSE row' = Written(r, "failed") /\ open' = [open EXCEPT ![r] = FALSE] /\ UNCHANGED <<uuid, sessions, next>>

Of(r, kind) == asked[r] # None /\ asked[r].kind = kind
(* A stream's running row, committed before the start event is sent. *)
Persisted(r) ==
    /\ pc[r] = "bound"
    /\ \/ /\ CanInsert(r) /\ Inserted(r, "running") /\ pc' = [pc EXCEPT ![r] = "started"] /\ UNCHANGED <<uuid, next, client>>
       \/ ~CanInsert(r) /\ Fails(r)
    /\ UNCHANGED <<asked, engine, output, behind, registry, charged, warned, left>>
PersistTools(r) == Of(r, "tools") /\ Persisted(r)
PersistPlain(r) == Of(r, "plain") /\ Persisted(r)
(* An orchestration's session, history and row in one transaction. *)
PersistOrchestration(r) == Of(r, "orchestration") /\ Persisted(r)

(* After the start event the engine starts; a run with tools can be approved first. *)
Started(r, registered) ==
    /\ pc[r] = "started" /\ pc' = [pc EXCEPT ![r] = "streaming"]
    /\ engine' = [engine EXCEPT ![r] = "running"] /\ registry' = registered
    /\ UNCHANGED <<asked, uuid, open, row, output, behind, charged, client, sessions, next, warned, left>>
StartTools(r) == Of(r, "tools") /\ Started(r, [registry EXCEPT ![asked[r].proc] = @ \cup {r}])
StartPlain(r) == Of(r, "plain") /\ Started(r, registry)
StartOrchestration(r) == Of(r, "orchestration") /\ Started(r, registry)

(* A tool waits for a decision; the approval reaches the process it lands on. *)
AskApproval(r) ==
    /\ Of(r, "tools") /\ engine[r] = "running"
    /\ engine' = [engine EXCEPT ![r] = "waiting"]
    /\ UNCHANGED <<asked, pc, uuid, open, row, output, behind, registry, charged, client, sessions, next, warned, left>>
Approve(r, p) ==
    /\ r \in registry[p] /\ engine[r] = "waiting" /\ engine' = [engine EXCEPT ![r] = "running"]
    /\ UNCHANGED <<asked, pc, uuid, open, row, output, behind, registry, charged, client, sessions, next, warned, left>>

Unregistered(r) == [registry EXCEPT ![asked[r].proc] = @ \ {r}]

(* The engine ends, with an answer, a failure or an exception. A plain run's is
   pulled by whoever holds its generator, see FinishBehind. *)
EngineEnds(r, out) ==
    /\ engine[r] = "running" /\ behind[r] = "none"
    /\ engine' = [engine EXCEPT ![r] = "ended"] /\ output' = [output EXCEPT ![r] = out]
    /\ registry' = Unregistered(r)
    /\ UNCHANGED <<asked, pc, uuid, open, row, behind, charged, client, sessions, next, warned, left>>

(* The engine's events are drained: the whole answer is sent, or its exception raised. *)
Sent(r) ==
    /\ pc[r] = "streaming" /\ engine[r] = "ended"
    /\ \/ /\ output[r] # "raised" /\ pc' = [pc EXCEPT ![r] = "answered"] /\ UNCHANGED <<row, open, uuid, sessions, next, client>>
       \/ output[r] = "raised" /\ Fails(r)
    /\ UNCHANGED <<asked, engine, output, behind, registry, charged, warned, left>>
AnswerTools(r) == Of(r, "tools") /\ Sent(r)
AnswerPlain(r) == Of(r, "plain") /\ Sent(r)
AnswerOrchestration(r) == Of(r, "orchestration") /\ Sent(r)
(* The outcome is committed to the row, if it is still there. *)
Recorded(r) ==
    /\ pc[r] = "answered" /\ row' = Written(r, Outcome(output[r]))
    /\ pc' = [pc EXCEPT ![r] = "recorded"]
    /\ UNCHANGED <<asked, uuid, open, engine, output, behind, registry, charged, client, sessions, next, warned, left>>
RecordTools(r) == Of(r, "tools") /\ Recorded(r)
RecordPlain(r) == Of(r, "plain") /\ Recorded(r)
RecordOrchestration(r) == Of(r, "orchestration") /\ Recorded(r)
(* A single run: the agent is run, then its row is inserted with its outcome. *)
Respond(r, out) ==
    /\ pc[r] = "bound" /\ asked[r].kind = "single"
    /\ \/ /\ out # "raised" /\ CanInsert(r) /\ Inserted(r, Outcome(out)) /\ pc' = [pc EXCEPT ![r] = "recorded"]
          /\ UNCHANGED <<uuid, next, client>>
       \/ (out = "raised" \/ ~CanInsert(r)) /\ Fails(r)
    /\ output' = [output EXCEPT ![r] = out]
    /\ UNCHANGED <<asked, engine, behind, registry, charged, warned, left>>

(* A completed run is charged, once its row is committed. *)
Charge(r) ==
    /\ pc[r] = "recorded" /\ pc' = [pc EXCEPT ![r] = "told"]
    /\ charged' = [charged EXCEPT ![r] = IF output[r] = "success" THEN @ + 1 ELSE @]
    /\ UNCHANGED <<asked, uuid, open, row, engine, output, behind, registry, client, sessions, next, warned, left>>
(* The client has read the complete event, or the response. *)
Complete(r) ==
    /\ pc[r] = "told" /\ pc' = [pc EXCEPT ![r] = "ended"]
    /\ client' = [client EXCEPT ![r] = Outcome(output[r])]
    /\ UNCHANGED <<asked, uuid, open, row, engine, output, behind, registry, charged, sessions, next, warned, left>>

\* Mutant: the generator goes on after handing over.
GoesOn(r) == IF asked[r].kind = "plain" /\ pc[r] = "streaming" THEN "streaming" ELSE "ended"
(* What the request does next once its client has left: it ends. *)
AfterLeaving(r) == "ended"

(* The client leaves at an event it was sent (GeneratorExit): a run with tools, or one
   whose model was not asked yet, is failed; a plain one is handed to a thread; an
   orchestration is told to stop and nothing is written. *)
Leaves(r) ==
    /\ pc[r] \in {"started", "streaming", "answered", "told"}
    /\ pc' = [pc EXCEPT ![r] = AfterLeaving(r)] /\ client' = [client EXCEPT ![r] = "left"]
    /\ UNCHANGED <<asked, uuid, open, engine, output, registry, charged, sessions, next, warned, left>>
LeaveTools(r) == /\ Of(r, "tools") \/ (Of(r, "plain") /\ pc[r] = "started")
                 /\ Leaves(r) /\ row' = Written(r, "failed") /\ UNCHANGED behind
LeavePlain(r) == Of(r, "plain") /\ pc[r] # "started" /\ Leaves(r) /\ behind' = [behind EXCEPT ![r] = "reading"] /\ UNCHANGED row
LeaveOrchestration(r) == Of(r, "orchestration") /\ Leaves(r) /\ UNCHANGED <<row, behind>>
(* The engine heeds the abort signal, at a step or while it waits. *)
Abort(r) ==
    /\ engine[r] = "waiting" /\ client[r] = "left"
    /\ engine' = [engine EXCEPT ![r] = "running"]
    /\ UNCHANGED <<asked, pc, uuid, open, row, output, behind, registry, charged, client, sessions, next, warned, left>>
(* The thread reads the model's generator to its end. One that was read to its end
   before gives no output again. *)
FinishBehind(r, out) ==
    /\ behind[r] = "reading"
    /\ LET got == IF engine[r] = "running" THEN out ELSE "nothing"
       IN /\ row' = Written(r, Outcome(got)) /\ output' = [output EXCEPT ![r] = got]
          /\ behind' = [behind EXCEPT ![r] = IF got = "success" THEN "charging" ELSE "none"]
    /\ engine' = [engine EXCEPT ![r] = "ended"]
    /\ UNCHANGED <<asked, pc, uuid, open, registry, charged, client, sessions, next, warned, left>>
AfterCharge(r) == "none"
ChargeBehind(r) ==
    /\ behind[r] = "charging" /\ behind' = [behind EXCEPT ![r] = AfterCharge(r)] /\ charged' = [charged EXCEPT ![r] = @ + 1]
    /\ UNCHANGED <<asked, pc, uuid, open, row, engine, output, registry, client, sessions, next, warned, left>>

Stale(r) == row[r] = "running"
(* The clean-up: a run still running ten minutes after it began is failed. *)
Cleanup(r) ==
    /\ Stale(r) /\ left > 0 /\ left' = left - 1 /\ row' = [row EXCEPT ![r] = "failed"]
    /\ UNCHANGED <<asked, pc, uuid, open, engine, output, behind, registry, charged, client, sessions, next, warned>>

(* The owner or the service deletes a session; its runs' rows go with it. *)
DeleteSession(n) ==
    /\ sessions[n] # None /\ left > 0 /\ left' = left - 1
    /\ row' = [r \in Runs |-> IF row[r] \in Kept /\ uuid[r] = sessions[n].id THEN "deleted" ELSE row[r]]
    /\ sessions' = [sessions EXCEPT ![n] = None]
    /\ UNCHANGED <<asked, pc, uuid, open, engine, output, behind, registry, charged, client, next, warned>>
(* A process restarts: requests, threads and the registry it held are gone. *)
Crash(p) ==
    /\ left > 0 /\ left' = left - 1
    /\ LET Mine(r) == asked[r] # None /\ asked[r].proc = p
       IN /\ \E r \in Runs: Mine(r) /\ (pc[r] # "ended" \/ engine[r] \in {"running", "waiting"} \/ behind[r] # "none")
          /\ pc' = [r \in Runs |-> IF Mine(r) THEN "ended" ELSE pc[r]]
          /\ open' = [r \in Runs |-> IF Mine(r) THEN FALSE ELSE open[r]]
          /\ engine' = [r \in Runs |-> IF Mine(r) THEN "ended" ELSE engine[r]]
          /\ behind' = [r \in Runs |-> IF Mine(r) THEN "none" ELSE behind[r]]
          /\ client' = [r \in Runs |-> IF Mine(r) /\ pc[r] # "ended" THEN "left" ELSE client[r]]
    /\ registry' = [registry EXCEPT ![p] = {}]
    /\ UNCHANGED <<asked, uuid, row, output, charged, sessions, next, warned>>

Outputs == {"success", "failure", "raised"}
RunStep(r) ==
    \/ \E k \in Kinds[r], c \in Callers[r], n \in Names, p \in Procs: Ask(r, k, c, n, p)
    \/ Bind(r) \/ RetrievalFails(r) \/ AskApproval(r)
    \/ PersistTools(r) \/ PersistPlain(r) \/ PersistOrchestration(r) \/ StartTools(r) \/ StartPlain(r) \/ StartOrchestration(r)
    \/ AnswerTools(r) \/ AnswerPlain(r) \/ AnswerOrchestration(r) \/ RecordTools(r) \/ RecordPlain(r) \/ RecordOrchestration(r)
    \/ \E p \in Procs: Approve(r, p)
    \/ \E out \in Outputs: EngineEnds(r, out) \/ Respond(r, out) \/ FinishBehind(r, out)
    \/ Charge(r) \/ Complete(r) \/ LeaveTools(r) \/ LeavePlain(r) \/ LeaveOrchestration(r) \/ Abort(r) \/ ChargeBehind(r) \/ Cleanup(r)
Next == (\E owner \in Owners: CreateSession(owner)) \/ (\E r \in Runs: RunStep(r)) \/ (\E n \in Names: DeleteSession(n)) \/ (\E p \in Procs: Crash(p))
Spec == Init /\ [][Next]_vars

TypeOK ==
    /\ \A r \in Runs: /\ pc[r] \in {"none", "checked", "bound", "started", "streaming", "answered", "recorded", "told", "ended"}
                      /\ row[r] \in Kept \cup {"absent", "deleted"} /\ engine[r] \in {"none", "running", "waiting", "ended"}
                      /\ behind[r] \in {"none", "reading", "charging"} /\ charged[r] \in 0..1
                      /\ client[r] \in {"waits", "left", "error", "completed", "failed"}
    /\ \A p \in Procs: registry[p] \subseteq Runs

(* A client that was told its run completed finds it so for as long as the session
   lasts, and paid for: the clean-up, late threads and other runs leave it alone. *)
ToldCompleted == \A r \in Runs: client[r] = "completed" => row[r] \in {"completed", "deleted"} /\ charged[r] = 1
(* A run has one finisher: the thread that takes over from a request whose client
   left never shares the model's generator, or the row, with that request. *)
OneFinisher == \A r \in Runs: behind[r] # "none" => pc[r] = "ended"
(* An approval finds exactly the runs whose engine lives, in the process where it
   lives: through disconnects, ends, failures and restarts. *)
Approvable == \A r \in Runs, p \in Procs: r \in registry[p] <=>
                  Of(r, "tools") /\ asked[r].proc = p /\ engine[r] \in {"running", "waiting"}
(* A user's run is only ever kept in a session row of that user, also when the
   session is deleted and made anew by a service under the same name between the
   request's check and its work. *)
OwnSession == \A r \in Runs, n \in Names:
    row[r] \in Kept /\ asked[r].caller = "user" /\ sessions[n] # None /\ sessions[n].id = uuid[r] => sessions[n].owner = "user"

(* What the comments say and the code does not do, see the README. *)
FailedNotCharged == \A r \in Runs: row[r] = "failed" => charged[r] = 0
WarnedIsAnswered == \A r \in Runs: r \in warned /\ output[r] = "success" => client[r] # "error"
ErrorIsRecorded == \A r \in Runs: client[r] = "error" /\ asked[r].kind \in {"plain", "tools"} /\ uuid[r] # 0 => row[r] # "absent"
=============================================================================
