------------------------------ MODULE Workflows ------------------------------
(* A workflow and its executions: by a request, by a streamed request
   (routes/workflows.py) or by its webhook, which is open while the workflow is
   deployed or once after it is armed (routes/webhooks.py); the services its
   blocks call and what is kept and charged of them
   (routes/_workflow_helpers.py). The engine that runs the blocks is external. *)
EXTENDS Naturals, FiniteSets

CONSTANTS Runs,   \* requests to execute
          Blocks, Agent, \* one of them is an agent
          Kbs,    \* how many knowledge bases the agent searches
          Executions, \* how many of the requests get to run, each in a session of its own
          Arms    \* how often the webhook may be armed

VARIABLES exists, deployed, armed, \* the workflow's row
          at, route, \* [request -> its step; execute, stream or webhook]
          stale,   \* the requests that log and charge by the blocks of a later graph than they run
          session, \* [request -> the state of its database session]
          outs,    \* [request -> what each block gave]
          searched, found, \* [request -> the knowledge bases its agent has searched; whether one answered]
          row,     \* [request -> the status of its row among the executions]
          noted,   \* [request -> whether its agent's run is noted for the logs]
          saved,   \* [request -> whether that run is in the database]
          logged,  \* [request -> its block logs: none, some or none of them naming the run]
          charged, \* the charges: <<request, "run">> and <<request, block>>
          arms, starts \* how often it was armed, and was started by that
vars == <<exists, deployed, armed, at, route, stale, session, outs, searched, found, row, noted, saved, logged, charged, arms, starts>>
workflow == <<exists, deployed, armed, arms>>
agentRun == <<searched, found, noted, saved>>
result == <<row, logged, charged>>

Init == /\ exists = TRUE /\ deployed = FALSE /\ armed = "no" /\ arms = 0 /\ starts = 0
        /\ at = [r \in Runs |-> "idle"] /\ route = [r \in Runs |-> "execute"] /\ stale = {}
        /\ session = [r \in Runs |-> "open"] /\ outs = [r \in Runs |-> [b \in Blocks |-> "none"]]
        /\ searched = [r \in Runs |-> 0] /\ found = [r \in Runs |-> FALSE] /\ row = [r \in Runs |-> "none"]
        /\ noted = [r \in Runs |-> FALSE] /\ saved = [r \in Runs |-> FALSE] /\ logged = [r \in Runs |-> "none"] /\ charged = {}

Steps == {"idle", "gate", "disarm", "check", "build", "blocks", "models", "insert", "edges", "run", "complete", "fail", "logs", "failed logs", "charge", "over"}
Goes(r, to) == at' = [at EXCEPT ![r] = to] /\ UNCHANGED route
Only(r, from, to) == at[r] = from /\ Goes(r, to)

-----------------------------------------------------------------------------
(* The workflow itself. *)
UpdatesWorkflow == UNCHANGED <<at, route, session, outs, starts>> /\ UNCHANGED stale /\ UNCHANGED agentRun
\* The rows of its executions and their logs go with it.
DeleteWorkflow == /\ exists /\ exists' = FALSE /\ UpdatesWorkflow
                  /\ row' = [r \in Runs |-> IF row[r] = "none" THEN "none" ELSE "deleted"]
                  /\ UNCHANGED <<deployed, armed, arms, logged, charged>>
\* Blocks and edges are replaced in one transaction, under whatever request has
\* built the graph it runs and not read the blocks it logs by.
SaveGraph == /\ exists /\ stale' = stale \union {r \in Runs : at[r] = "blocks"}
             /\ UNCHANGED <<at, route, session, outs, starts>> /\ UNCHANGED workflow /\ UNCHANGED agentRun /\ UNCHANGED result
\* Deployed or withdrawn, it is no longer armed.
DeployOrNot == /\ exists /\ deployed' = ~deployed /\ armed' = "no" /\ UpdatesWorkflow
               /\ UNCHANGED <<exists, arms>> /\ UNCHANGED result
\* For ten minutes, whatever it was before.
ArmWebhook == /\ exists /\ arms < Arms /\ armed' = "armed" /\ arms' = arms + 1 /\ UpdatesWorkflow
              /\ UNCHANGED <<exists, deployed>> /\ UNCHANGED result
ArmLapses == /\ armed = "armed" /\ armed' = "lapsed" /\ UpdatesWorkflow
             /\ UNCHANGED <<exists, deployed, arms>> /\ UNCHANGED result

-----------------------------------------------------------------------------
(* A request, up to the row of its execution. *)
Before(r) == /\ UNCHANGED <<session, outs>> /\ UNCHANGED agentRun /\ UNCHANGED result
Ask(r) == /\ at[r] = "idle"
          /\ \E way \in {"execute", "stream", "webhook"} :
                route' = [route EXCEPT ![r] = way] /\ at' = [at EXCEPT ![r] = IF way = "webhook" THEN "gate" ELSE "check"]
          /\ UNCHANGED starts /\ UNCHANGED workflow /\ UNCHANGED stale /\ Before(r)
\* The state and the arm are read.
Gate(r) == /\ at[r] = "gate" /\ Goes(r, IF ~exists THEN "over" ELSE IF deployed THEN "check" ELSE IF armed = "armed" THEN "disarm" ELSE "over")
           /\ UNCHANGED starts /\ UNCHANGED workflow /\ UNCHANGED stale /\ Before(r)
\* "Only first concurrent request succeeds": one statement, where it is armed still.
\* Mutant: the arm is taken off whether it is there or not.
TakenAnyway == exists
Taken == exists /\ armed # "no"
Disarm(r) == /\ at[r] = "disarm" /\ armed' = "no"
             /\ IF Taken THEN Goes(r, "check") /\ starts' = starts + 1 ELSE Goes(r, "over") /\ UNCHANGED starts
             /\ UNCHANGED <<exists, deployed, arms>> /\ UNCHANGED stale /\ Before(r)
\* The balance, for as many blocks as there are: short of it, or unable to count, no run.
Executing == {q \in Runs : row[q] # "none" \/ at[q] \in {"build", "blocks", "models", "insert"}}
PreCheck(r) == /\ at[r] = "check" /\ Cardinality(Executing) < Executions /\ (Goes(r, "build") \/ Goes(r, "over"))
               /\ UNCHANGED starts /\ UNCHANGED workflow /\ UNCHANGED stale /\ Before(r)
\* The graph that will run; one that cannot be built raises.
Build(r) == /\ at[r] = "build"
            /\ (Goes(r, "over") \/ (exists /\ Goes(r, "blocks")))
            /\ UNCHANGED <<stale, starts>> /\ UNCHANGED workflow /\ Before(r)
\* The blocks once more, for the models, the logs and the charges.
LoadBlocks(r) == /\ at[r] = "blocks" /\ Goes(r, "models")
                 /\ UNCHANGED <<stale, starts>> /\ UNCHANGED workflow /\ Before(r)
\* A model that is not available, asked of the agents' blocks by each route.
ModelsMissing(r) == Goes(r, "over")
ModelsExecute(r) == at[r] = "models" /\ route[r] = "execute" /\ (Goes(r, "insert") \/ ModelsMissing(r))
ModelsStream(r) == at[r] = "models" /\ route[r] = "stream" /\ (Goes(r, "insert") \/ ModelsMissing(r))
ModelsWebhook(r) == at[r] = "models" /\ route[r] = "webhook" /\ (Goes(r, "insert") \/ ModelsMissing(r))
CheckModels(r) == /\ ModelsExecute(r) \/ ModelsStream(r) \/ ModelsWebhook(r)
                  /\ UNCHANGED starts /\ UNCHANGED workflow /\ UNCHANGED stale /\ Before(r)
\* The row, running, committed; of a workflow that is gone it cannot be inserted.
Insert(r) == /\ at[r] = "insert" /\ UNCHANGED <<session, outs, starts, logged, charged>>
             /\ IF exists THEN Goes(r, IF route[r] = "webhook" THEN "run" ELSE "edges") /\ row' = [row EXCEPT ![r] = "running"]
                ELSE Goes(r, "over") /\ UNCHANGED row
             /\ UNCHANGED workflow /\ UNCHANGED stale /\ UNCHANGED agentRun
\* The edges, for the logs: outside of what is caught.
LoadEdges(r) == /\ at[r] = "edges" /\ (Goes(r, "run") \/ Goes(r, "over"))
                /\ UNCHANGED starts /\ UNCHANGED workflow /\ UNCHANGED stale /\ Before(r)

-----------------------------------------------------------------------------
(* The blocks. An agent's searches its knowledge bases, one after the other, in
   the session of the request. *)
Runs_(r) == at[r] = "run" /\ UNCHANGED <<at, route, starts>> /\ UNCHANGED workflow /\ UNCHANGED stale /\ UNCHANGED result
AgentRuns(r) == outs[r][Agent] = "none"
\* An error of the database aborts the transaction, and the searches after it fail.
SearchKb(r) == /\ Runs_(r) /\ AgentRuns(r) /\ searched[r] < Kbs /\ searched' = [searched EXCEPT ![r] = @ + 1]
               /\ \/ session[r] = "open" /\ found' = [found EXCEPT ![r] = TRUE] /\ UNCHANGED session
                  \/ UNCHANGED <<found, session>>
                  \/ session' = [session EXCEPT ![r] = "aborted"] /\ UNCHANGED found
               /\ UNCHANGED <<outs, noted, saved>>
\* The names of the sources, where something was found.
NamesFail(r) == found[r] /\ session[r] = "aborted"
\* The block is over: its run is recorded in the same session and committed, or
\* whatever failed is rolled back; a block may also fail without a run.
RecorderFails(r) == UNCHANGED <<noted, saved>>
Recorder(r) == \/ session[r] = "open" /\ noted' = [noted EXCEPT ![r] = TRUE] /\ saved' = [saved EXCEPT ![r] = TRUE] /\ UNCHANGED session
               \/ RecorderFails(r) /\ session' = [session EXCEPT ![r] = "open"]
RunAgent(r) == /\ Runs_(r) /\ AgentRuns(r) /\ searched[r] = Kbs
               /\ \E o \in {"ok", "error"} : /\ NamesFail(r) => o = "error"
                                             /\ outs' = [outs EXCEPT ![r][Agent] = o]
                                             /\ Recorder(r) \/ (o = "error" /\ UNCHANGED <<session, noted, saved>>)
               /\ UNCHANGED <<searched, found>>
\* Another block: an orchestration, a call of the platform, code.
RunBlock(r) == /\ Runs_(r)
               /\ \E b \in Blocks \ {Agent}, o \in {"ok", "error"} : outs[r][b] = "none" /\ outs' = [outs EXCEPT ![r][b] = o]
               /\ UNCHANGED <<session>> /\ UNCHANGED agentRun

-----------------------------------------------------------------------------
(* How it ends. *)
Ends(r) == UNCHANGED <<session, outs, starts>> /\ UNCHANGED workflow /\ UNCHANGED stale /\ UNCHANGED agentRun
Finish(r) == /\ (\A b \in Blocks : outs[r][b] # "none") /\ Only(r, "run", "complete") /\ Ends(r) /\ UNCHANGED result
\* A block raised, or the time was up.
Raise(r) == /\ Only(r, "run", "fail") /\ Ends(r) /\ UNCHANGED result
TimeOut(r) == /\ Only(r, "run", "fail") /\ Ends(r) /\ UNCHANGED result
\* Whoever reads the stream leaves: what the blocks gave so far is the result.
LeaveStream(r) == /\ route[r] = "stream" /\ Only(r, "run", "complete") /\ Ends(r) /\ UNCHANGED result
Recorded(r, status) == row' = [row EXCEPT ![r] = IF @ = "deleted" THEN @ ELSE status]
\* In a transaction that was aborted the update raises: a request goes on to
\* record that, in the same transaction; a stream logs it, and ends.
CompleteRow(r) == IF session[r] = "open" THEN Goes(r, "logs") /\ Recorded(r, "completed")
                  ELSE Goes(r, IF route[r] = "stream" THEN "over" ELSE "fail") /\ UNCHANGED row
CompleteExecute(r) == route[r] = "execute" /\ CompleteRow(r)
CompleteStream(r) == route[r] = "stream" /\ CompleteRow(r)
CompleteWebhook(r) == route[r] = "webhook" /\ CompleteRow(r)
Complete(r) == /\ at[r] = "complete" /\ (CompleteExecute(r) \/ CompleteStream(r) \/ CompleteWebhook(r))
               /\ Ends(r) /\ UNCHANGED <<logged, charged>>
FailRow(r) == IF session[r] = "open" THEN Recorded(r, "failed") ELSE UNCHANGED row
FailExecute(r) == route[r] = "execute" /\ FailRow(r) /\ Goes(r, "over")
\* What the blocks of a stream gave is logged, though it failed.
FailStream(r) == route[r] = "stream" /\ FailRow(r) /\ Goes(r, IF session[r] = "open" THEN "failed logs" ELSE "over")
FailWebhook(r) == route[r] = "webhook" /\ FailRow(r) /\ Goes(r, "over")
Fail(r) == /\ at[r] = "fail" /\ (FailExecute(r) \/ FailStream(r) \/ FailWebhook(r)) /\ Ends(r) /\ UNCHANGED <<logged, charged>>
\* All the logs or none; an error, as of an execution that is deleted, is rolled back.
BlockLogs(r) == IF noted[r] THEN "naming" ELSE "plain"
PersistBlockLogs(r) == \/ row[r] # "deleted" /\ logged' = [logged EXCEPT ![r] = BlockLogs(r)]
                       \/ UNCHANGED logged
Logs(r) == /\ at[r] \in {"logs", "failed logs"} /\ Goes(r, IF at[r] = "logs" THEN "charge" ELSE "over") /\ PersistBlockLogs(r)
           /\ Ends(r) /\ UNCHANGED <<row, charged>>
ChargedBlocks(r) == {b \in Blocks : outs[r][b] = "ok"}
ChargeAll(r) == charged' = charged \union {<<r, "run">>} \union ({r} \X ChargedBlocks(r))
ChargeExecute(r) == route[r] = "execute" /\ ChargeAll(r)
ChargeStream(r) == route[r] = "stream" /\ ChargeAll(r)
ChargeWebhook(r) == route[r] = "webhook" /\ ChargeAll(r)
Charge(r) == /\ Only(r, "charge", "over") /\ (ChargeExecute(r) \/ ChargeStream(r) \/ ChargeWebhook(r))
             /\ Ends(r) /\ UNCHANGED <<row, logged>>

Request(r) == \/ Ask(r) \/ Gate(r) \/ Disarm(r) \/ PreCheck(r) \/ Build(r) \/ LoadBlocks(r) \/ CheckModels(r) \/ Insert(r) \/ LoadEdges(r)
              \/ SearchKb(r) \/ RunAgent(r) \/ RunBlock(r)
              \/ Finish(r) \/ Raise(r) \/ TimeOut(r) \/ LeaveStream(r) \/ Complete(r) \/ Fail(r) \/ Logs(r) \/ Charge(r)
Next == \/ DeleteWorkflow \/ SaveGraph \/ DeployOrNot \/ ArmWebhook \/ ArmLapses
        \/ \E r \in Runs : Request(r)
Spec == Init /\ [][Next]_vars

-----------------------------------------------------------------------------
TypeOK == /\ exists \in BOOLEAN /\ deployed \in BOOLEAN /\ armed \in {"no", "armed", "lapsed"} /\ arms \in Nat /\ starts \in Nat
          /\ at \in [Runs -> Steps] /\ route \in [Runs -> {"execute", "stream", "webhook"}] /\ stale \subseteq Runs
          /\ session \in [Runs -> {"open", "aborted"}] /\ outs \in [Runs -> [Blocks -> {"none", "ok", "error"}]]
          /\ searched \in [Runs -> Nat] /\ found \in [Runs -> BOOLEAN] /\ noted \in [Runs -> BOOLEAN] /\ saved \in [Runs -> BOOLEAN]
          /\ row \in [Runs -> {"none", "running", "completed", "failed", "deleted"}]
          /\ logged \in [Runs -> {"none", "plain", "naming"}] /\ charged \subseteq Runs \X (Blocks \union {"run"})
(* "Only first concurrent request succeeds": while it is not deployed, a
   webhook starts no more runs than it was armed, however many requests read
   the arm before one of them takes it. *)
ArmOnce == starts <= arms
(* Only an execution recorded as completed is charged, and of its blocks only
   those that gave a result without an error. *)
ChargedRan == \A c \in charged : /\ row[c[1]] \in {"completed", "deleted"} /\ <<c[1], "run">> \in charged
                                 /\ c[2] \in Blocks => outs[c[1]][c[2]] = "ok"
(* The logs of an execution name only an agent run that is in the database,
   though recording it may fail, and in a session a search has aborted does. *)
LoggedRunKept == \A r \in Runs : logged[r] = "naming" => saved[r]
(* All of it: what is started, charged and logged is what ran. *)
ExecutionsCounted == ArmOnce /\ ChargedRan /\ LoggedRunKept
(* An execution that is over is not recorded as running. *)
EndsRecorded == \A r \in Runs : at[r] = "over" => row[r] # "running"
(* A completed execution has run all of its blocks. *)
CompletedRan == \A r \in Runs : row[r] = "completed" => \A b \in Blocks : outs[r][b] # "none"
=============================================================================
