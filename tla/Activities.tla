----------------------------- MODULE Activities -----------------------------
(* What is done on behalf of users: the runs of agents and
   orchestrations, the calls of their tools, the login of an agent's database
   tools, the turns of the copilots, the executions of workflows and their
   schedule. They meet in the database only, in rows that each component draws
   as far as it reads them, so that each runs by itself, the one that "part"
   names from the start. *)
EXTENDS Naturals, FiniteSets

CONSTANTS None,
          Actors,   \* requests to execute a workflow, and tables of the user
          Runs, Servers, KindsOf, Callers,                     \* AgentRuns
          Turns, Window, Events,                           \* CopilotTurns; Events bounds AgentRuns as well
          Calls, Kbs, Args,                                \* ToolCalls
          Editors, Users, Changes, Sweeps, Attempts,      \* AgentRoles; Users are the runs that use the login
          Blocks, Agent, AgentKbs, Executions, Arms,       \* Workflows
          Chains, TickInterval, LockTTL, Interval, MaxRuns, MaxDeploys, MaxDeaths \* Scheduler, in time and where anything may fail

VARIABLES part,
          asked, pc, uuid, open, row, engine, output, behind, registry, charged, client, sessions, next, warned, runsLeft, \* AgentRuns
          copilot, turn, lock, rows, begun, seen, reply, trouble, excused, exists, clock, turnsLeft,                       \* CopilotTurns
          ask, at, session, out, items, labels, status, told, units, seqs, key, paid, handlers, kept,                      \* ToolCalls
          agent, tools, relation, role, held, proc, alone, sweep, ready, answers, changes, sweeps,                         \* AgentRoles
          workflow, deployed, armed, step, route, stale, txn, outs, searched, found, execution, noted, saved, logged, billed, arms, starts, \* Workflows
          schedule, runs, last, tickLock, tick, due, snap, read, deploys, deaths                                           \* Scheduler

AR == INSTANCE AgentRuns WITH Procs <- Servers, Kinds <- KindsOf, left <- runsLeft
CT == INSTANCE CopilotTurns WITH left <- turnsLeft
TC == INSTANCE ToolCalls WITH registry <- units, charged <- paid
RO == INSTANCE AgentRoles WITH Requests <- Editors, Runs <- Users, Tables <- Actors
WF == INSTANCE Workflows WITH Runs <- Actors, Kbs <- AgentKbs, exists <- workflow, at <- step, session <- txn, row <- execution, charged <- billed
SC == INSTANCE Scheduler WITH Slow <- FALSE, Faults <- TRUE, deployed <- schedule, lock <- tickLock, pc <- tick

(* What stands for nothing is no turn, and no request, session row or moment; a
   run is asked for as one of the kinds there are by one of the callers there are;
   the window of a history is a number of messages; "run" is the name of no block;
   and the times of the scheduler are positive. *)
ASSUME ActivitiesAssumption ==
    /\ AR!RunsAssumption /\ None \notin Turns \cup Nat /\ Window \in Nat
    /\ IsFiniteSet(Kbs) /\ IsFiniteSet(Chains) /\ "run" \notin Blocks
    /\ {TickInterval, LockTTL, Interval, MaxRuns} \subseteq Nat \ {0} /\ {MaxDeploys, MaxDeaths} \subseteq Nat

arVars == <<asked, pc, uuid, open, row, engine, output, behind, registry, charged, client, sessions, next, warned, runsLeft>>
ctVars == <<copilot, turn, lock, rows, begun, seen, reply, trouble, excused, exists, clock, turnsLeft>>
tcVars == <<ask, at, session, out, items, labels, status, told, units, seqs, key, paid, handlers, kept>>
roVars == <<agent, tools, relation, role, held, proc, alone, sweep, ready, answers, changes, sweeps>>
wfVars == <<workflow, deployed, armed, step, route, stale, txn, outs, searched, found, execution, noted, saved, logged, billed, arms, starts>>
scVars == <<schedule, runs, last, tickLock, tick, due, snap, read, deploys, deaths>>
vars == <<part, arVars, ctVars, tcVars, roVars, wfVars, scVars>>

\* What a part that does not run has for its state.
NoAR == /\ asked = None /\ pc = None /\ uuid = None /\ open = None /\ row = None /\ engine = None /\ output = None /\ behind = None /\ registry = None /\ charged = None /\ client = None /\ sessions = None /\ next = None /\ warned = None /\ runsLeft = None
NoCT == /\ copilot = None /\ turn = None /\ lock = None /\ rows = None /\ begun = None /\ seen = None /\ reply = None /\ trouble = None /\ excused = None /\ exists = None /\ clock = None /\ turnsLeft = None
NoTC == /\ ask = None /\ at = None /\ session = None /\ out = None /\ items = None /\ labels = None /\ status = None /\ told = None /\ units = None /\ seqs = None /\ key = None /\ paid = None /\ handlers = None /\ kept = None
NoRO == /\ agent = None /\ tools = None /\ relation = None /\ role = None /\ held = None /\ proc = None /\ alone = None /\ sweep = None /\ ready = None /\ answers = None /\ changes = None /\ sweeps = None
NoWF == /\ workflow = None /\ deployed = None /\ armed = None /\ step = None /\ route = None /\ stale = None /\ txn = None /\ outs = None /\ searched = None /\ found = None /\ execution = None /\ noted = None /\ saved = None /\ logged = None /\ billed = None /\ arms = None /\ starts = None
NoSC == /\ schedule = None /\ runs = None /\ last = None /\ tickLock = None /\ tick = None /\ due = None /\ snap = None /\ read = None /\ deploys = None /\ deaths = None
Init == \/ part = "runs" /\ AR!Init /\ NoCT /\ NoTC /\ NoRO /\ NoWF /\ NoSC
        \/ part = "turns" /\ NoAR /\ CT!Init /\ NoTC /\ NoRO /\ NoWF /\ NoSC
        \/ part = "calls" /\ NoAR /\ NoCT /\ TC!Init /\ NoRO /\ NoWF /\ NoSC
        \/ part = "logins" /\ NoAR /\ NoCT /\ NoTC /\ RO!Init /\ NoWF /\ NoSC
        \/ part = "workflows" /\ NoAR /\ NoCT /\ NoTC /\ NoRO /\ WF!Init /\ NoSC
        \/ part = "schedule" /\ NoAR /\ NoCT /\ NoTC /\ NoRO /\ NoWF /\ SC!Init
RunsStep == part = "runs" /\ AR!Next /\ UNCHANGED <<part, ctVars, tcVars, roVars, wfVars, scVars>>
TurnsStep == part = "turns" /\ CT!Next /\ UNCHANGED <<part, arVars, tcVars, roVars, wfVars, scVars>>
CallsStep == part = "calls" /\ TC!Next /\ UNCHANGED <<part, arVars, ctVars, roVars, wfVars, scVars>>
LoginsStep == part = "logins" /\ RO!Next /\ UNCHANGED <<part, arVars, ctVars, tcVars, wfVars, scVars>>
WorkflowsStep == part = "workflows" /\ WF!Next /\ UNCHANGED <<part, arVars, ctVars, tcVars, roVars, scVars>>
ScheduleStep == part = "schedule" /\ SC!Next /\ UNCHANGED <<part, arVars, ctVars, tcVars, roVars, wfVars>>
Next == RunsStep \/ TurnsStep \/ CallsStep \/ LoginsStep \/ WorkflowsStep \/ ScheduleStep
Spec == Init /\ [][Next]_vars

(* The components' properties; each is stated, and commented on, in its module,
   and each component's first has its types as well. *)

(* Whoever is told that a run completed finds it recorded so, and a run has one
   that finishes it, the request or the thread left behind (routes/agents.py). *)
RunsEndOnce == part = "runs" => AR!TypeOK /\ AR!ToldCompleted /\ AR!OneFinisher
(* A run that waits for a decision can be given one, and a run is of a session of
   its own caller, though sessions are deleted and made again under it
   (routes/agents.py, services/session.py). *)
RunsHaveTheirPlace == part = "runs" => AR!Approvable /\ AR!OwnSession
(* A turn that works holds its session's lock, and no two turns of one session
   work at a time, unless the lock lapsed under the first (routes/copilot.py,
   routes/project_copilot.py). *)
TurnsAreApart == part = "turns" => CT!TypeOK /\ CT!TurnsAreApart
(* The model is given a history it accepts, whatever the turns before left behind,
   and a turn that is over has its answer in it (services/copilot.py). *)
HistoryIsWhole == part = "turns" => CT!SeenWellFormed /\ CT!EndsAnswered
(* Two calls of a run that overlap give each unit a citation key of its own and
   are charged under keys of their own (services/citation_registry.py,
   services/run_context.py). *)
CallsAreApart == part = "calls" => TC!CallsAreApart
(* A search call keeps what the knowledge bases that answered gave, and the model
   is told of those that did not (services/context_handler.py). *)
PartialIsKept == part = "calls" => TC!PartialKept /\ TC!FailureTold
(* The login of an agent holds what its tools configure after a sync nothing came
   between, less after half of one, nothing once the agent is deleted, and no
   call goes beyond what its run was given (services/agent_sql.py). *)
LoginWithinTools == part = "logins" => RO!TypeOK /\ RO!LoginWithinTools
(* An armed webhook starts one execution, only what ran is charged, and the logs
   name no run that was not kept (routes/webhooks.py, routes/_workflow_helpers.py);
   one tick of the scheduler at a time looks at the workflows, and none runs more
   often than its schedule says, where publishing and the database may fail too
   (tasks/scheduler.py). *)
ExecutionsCounted ==
    /\ part = "workflows" => WF!TypeOK /\ WF!ExecutionsCounted
    /\ part = "schedule" => SC!TypeOK /\ SC!ScheduleKept

(* What comments and docstrings of the code say and the code does not do, as the
   README tells: a run recorded as failed is not charged; a run that was warned
   and has its answer is not reported as an error; an error of a run is recorded;
   no two rows of the user follow each other; a run keeps no image of a tool
   call; an execution that is over is not recorded as running; a completed one
   has run all of its blocks. *)
FailedNotCharged == part = "runs" => AR!FailedNotCharged
WarnedIsAnswered == part = "runs" => AR!WarnedIsAnswered
ErrorIsRecorded == part = "runs" => AR!ErrorIsRecorded
UserRowsApart == part = "turns" => CT!UserRowsApart
NoImageKept == part = "calls" => TC!NoImageKept
EndsRecorded == part = "workflows" => WF!EndsRecorded
CompletedRan == part = "workflows" => WF!CompletedRan
=============================================================================
