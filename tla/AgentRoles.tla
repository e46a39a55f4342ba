------------------------------ MODULE AgentRoles ------------------------------
(* The database login of an agent (services/agent_sql.py): what its database
   tools configure (routes/agents.py), the syncs that make the login hold
   exactly that, in two transactions under one advisory lock, the deletion of
   the agent, the sweep of logins at the start of a process (main.py), and the
   database calls of the agent's runs (services/tool_registry.py,
   tools/builtin.py). *)
EXTENDS Naturals, FiniteSets

CONSTANTS Requests, Runs, \* who changes the agent, and who runs it
          Tables,  \* the names the tools may be given
          Changes, \* how often the configuration or a table may change
          Sweeps,  \* how many processes may start
          Attempts \* of a sync

VARIABLES agent,    \* whether the agent's row is there
          tools,    \* [database tool assigned to the agent -> its tables]
          relation, \* [table -> what the name stands for]
          role,     \* whether the login is there
          held,     \* [table -> the privileges the login holds]
          proc,     \* [process -> the step of its request or run, and what it read]
          alone,    \* [process -> whether nothing else stepped between since its sync began]
          sweep,    \* the logins a starting process found, and those it keeps
          ready,    \* whether the end users' login was set up
          answers,  \* a call that was answered
          changes, sweeps
vars == <<agent, tools, relation, role, held, proc, alone, sweep, ready, answers, changes, sweeps>>
login == <<role, held>>
rows == <<agent, tools, relation>>
boot == <<sweep, ready, sweeps>>

Procs == Requests \union Runs
DbTools == {"query", "write"}
Configs == [DbTools -> SUBSET Tables]
Kinds == {"table", "absent", "view", "invoker view"}
Privileges == {"select", "modify"}
Steps == {"idle", "read", "revoke", "grant", "synced", "failed", "calls"}
Nothing == [d \in DbTools |-> {}]
Readable(t) == relation[t] \in {"table", "invoker view"}
\* What a table gets: select from both tools, the writes from the writing tool.
Desired(config) == [t \in Tables |-> (IF t \in config["query"] \union config["write"] THEN {"select"} ELSE {})
                                     \union (IF t \in config["write"] THEN {"modify"} ELSE {})]
\* What is not there, or may not be read through, is skipped.
Target(config) == [t \in Tables |-> IF Readable(t) THEN Desired(config)[t] ELSE {}]
Configured(config) == \E d \in DbTools : config[d] # {}
NoGrants == [t \in Tables |-> {}]

States == [step : Steps, run : BOOLEAN, caller : {"service", "user"}, config : Configs, tries : Nat, error : BOOLEAN]
Idle == [step |-> "idle", run |-> FALSE, caller |-> "service", config |-> Nothing, tries |-> 0, error |-> FALSE]
Init == /\ agent = TRUE /\ tools = Nothing /\ relation = [t \in Tables |-> "table"] /\ role = FALSE /\ held = NoGrants
        /\ proc = [p \in Procs |-> Idle] /\ alone = [p \in Procs |-> FALSE]
        /\ sweep = [step |-> "none", drop |-> FALSE] /\ ready = FALSE /\ answers = {} /\ changes = 0 /\ sweeps = 0

Put(p, r) == proc' = [proc EXCEPT ![p] = r]
\* Whatever another process, a sweep or a change does, a sync is no longer alone.
Disturb(p) == alone' = [q \in Procs |-> q = p /\ alone[p]]
DisturbAll == alone' = [q \in Procs |-> FALSE]
Drop == role' = FALSE /\ held' = NoGrants

-----------------------------------------------------------------------------
(* The agent's tools (routes/agents.py). Every change is committed first, and
   the login is synced after. *)
Changes_(p) == /\ p \in Requests /\ proc[p].step = "idle" /\ agent /\ changes < Changes /\ changes' = changes + 1
               /\ Put(p, [Idle EXCEPT !.step = "read"]) /\ DisturbAll /\ UNCHANGED <<agent, relation, answers>>
               /\ UNCHANGED login /\ UNCHANGED boot
\* A name that is there and may not be read through is refused.
ToolConfigError(ts) == \E t \in ts : relation[t] = "view"
AssignTool(p) == /\ Changes_(p)
                 /\ \E d \in DbTools, ts \in SUBSET Tables \ {{}} :
                       /\ tools[d] = {} /\ ~ToolConfigError(ts) /\ tools' = [tools EXCEPT ![d] = ts]
UpdateTool(p) == /\ Changes_(p)
                 /\ \E d \in DbTools, ts \in SUBSET Tables \ {{}} :
                       /\ tools[d] # {} /\ ~ToolConfigError(ts) /\ tools' = [tools EXCEPT ![d] = ts]
RemoveTool(p) == /\ Changes_(p)
                 /\ \E d \in DbTools : tools[d] # {} /\ tools' = [tools EXCEPT ![d] = {}]
\* The rows of the assignments are read for the sync; a failure is logged.
ReadTables(p) == /\ proc[p].step = "read"
                 /\ \/ Put(p, [proc[p] EXCEPT !.step = "revoke", !.config = tools]) /\ alone' = [alone EXCEPT ![p] = TRUE]
                    \/ Put(p, Idle) /\ UNCHANGED alone
                 /\ UNCHANGED <<answers, changes>> /\ UNCHANGED rows /\ UNCHANGED login /\ UNCHANGED boot
DropInTransaction == Drop
\* The row and the login, in one transaction under the lock; or neither.
DeleteAgent(p) == /\ p \in Requests /\ proc[p].step = "idle" /\ agent /\ agent' = FALSE /\ tools' = Nothing /\ DropInTransaction
                  /\ DisturbAll /\ UNCHANGED <<relation, proc, answers, changes>> /\ UNCHANGED boot

-----------------------------------------------------------------------------
(* A sync: two transactions under the lock. *)
\* What becomes of it at the end: a request is over, a run goes on to its calls.
After(p) == Put(p, IF proc[p].run THEN [proc[p] EXCEPT !.step = "calls"] ELSE [proc[p] EXCEPT !.step = "synced"])
\* A conflict of catalog writes is tried again from the start; anything else,
\* or the last conflict, is logged by a request and remembered by a run.
SyncFails(p) == /\ proc[p].step \in {"revoke", "grant"} /\ Disturb(p)
                /\ \/ proc[p].tries < Attempts - 1 /\ Put(p, [proc[p] EXCEPT !.step = "revoke", !.tries = @ + 1])
                   \/ Put(p, IF proc[p].run THEN [proc[p] EXCEPT !.step = "calls", !.error = TRUE]
                                            ELSE [proc[p] EXCEPT !.step = "failed"])
                /\ UNCHANGED <<answers, changes>> /\ UNCHANGED rows /\ UNCHANGED login /\ UNCHANGED boot
\* Mutant: a sync does not look whether the agent is still there.
AnyAgent == TRUE
AgentExists == agent
RevokeExtra(p) == held' = [t \in Tables |-> held[t] \intersect Target(proc[p].config)[t]]
DropUnconfigured(p) == /\ proc[p].step = "revoke" /\ ~(Configured(proc[p].config) /\ AgentExists) /\ Drop /\ After(p) /\ Disturb(p)
                       /\ UNCHANGED <<answers, changes>> /\ UNCHANGED rows /\ UNCHANGED boot
SyncRevoke(p) == /\ proc[p].step = "revoke" /\ Configured(proc[p].config) /\ AgentExists
                 /\ role' = TRUE /\ RevokeExtra(p) /\ Put(p, [proc[p] EXCEPT !.step = "grant"]) /\ Disturb(p)
                 /\ UNCHANGED <<answers, changes>> /\ UNCHANGED rows /\ UNCHANGED boot
Missing(p) == {t \in Tables : ~(Target(proc[p].config)[t] \subseteq held[t])}
\* A grant to a login that is gone meanwhile is an error.
SyncGrant(p) == /\ proc[p].step = "grant" /\ AgentExists /\ (role \/ Missing(p) = {})
                /\ held' = [t \in Tables |-> held[t] \union Target(proc[p].config)[t]]
                /\ After(p) /\ Disturb(p) /\ UNCHANGED <<role, answers, changes>> /\ UNCHANGED rows /\ UNCHANGED boot
\* The agent was deleted between the two.
GrantDeleted(p) == /\ proc[p].step = "grant" /\ ~AgentExists /\ Drop /\ After(p) /\ Disturb(p)
                   /\ UNCHANGED <<answers, changes>> /\ UNCHANGED rows /\ UNCHANGED boot
EndRequest(p) == /\ proc[p].step \in {"synced", "failed"} /\ Put(p, Idle) /\ alone' = [alone EXCEPT ![p] = FALSE]
                 /\ UNCHANGED <<answers, changes>> /\ UNCHANGED rows /\ UNCHANGED login /\ UNCHANGED boot

-----------------------------------------------------------------------------
(* A run: its tools are loaded with the assignments of that moment, and where it
   acts for the service the login is synced to them first. *)
LoadAllTools(p) == /\ p \in Runs /\ proc[p].step = "idle" /\ agent
                   /\ \E caller \in {"service", "user"} :
                         Put(p, [Idle EXCEPT !.run = TRUE, !.caller = caller, !.config = tools,
                                             !.step = IF caller = "service" /\ Configured(tools) THEN "revoke" ELSE "calls"])
                   /\ alone' = [alone EXCEPT ![p] = TRUE]
                   /\ UNCHANGED <<answers, changes>> /\ UNCHANGED rows /\ UNCHANGED login /\ UNCHANGED boot
Restricted(p) == ~proc[p].error
\* A service-role run connects as the login. An end user's needs theirs, which is
\* tried again where it was not set up, and a session that has not expired.
CheckCaller(p) == (proc[p].caller = "service" /\ role) \/ (proc[p].caller = "user" /\ ready)
Held(p, t, privilege) == proc[p].caller = "service" => privilege \in held[t]
\* The query: only tables of the tool as the run loaded it, whatever the login holds.
CheckReferences(p, t) == t \in proc[p].config["query"] /\ Readable(t)
RunQuery(p, t) == CheckCaller(p) /\ CheckReferences(p, t) /\ Held(p, t, "select")
ResolveTable(p, t) == t \in proc[p].config["write"]
CheckWriteTarget(t) == Readable(t)
RunWrite(p, t) == CheckCaller(p) /\ CheckWriteTarget(t) /\ Held(p, t, "modify")
Answered(p, d, t) == /\ proc[p].step = "calls" /\ proc[p].config[d] # {} /\ Restricted(p)
                     /\ answers = {} /\ answers' = {[by |-> p, tool |-> d, table |-> t]}
                     /\ UNCHANGED <<proc, alone, changes>> /\ UNCHANGED rows /\ UNCHANGED login /\ UNCHANGED boot
DatabaseQuery(p) == \E t \in Tables : RunQuery(p, t) /\ Answered(p, "query", t)
DatabaseWrite(p) == \E t \in Tables : ResolveTable(p, t) /\ RunWrite(p, t) /\ Answered(p, "write", t)
EndRun(p) == /\ proc[p].step = "calls" /\ Put(p, Idle) /\ alone' = [alone EXCEPT ![p] = FALSE]
             /\ answers' = {a \in answers : a.by # p}
             /\ UNCHANGED changes /\ UNCHANGED rows /\ UNCHANGED login /\ UNCHANGED boot

-----------------------------------------------------------------------------
(* The start of a process: the end users' login, then the agents'. *)
EnsureLogins == /\ ~ready /\ ready' = TRUE
                /\ UNCHANGED <<proc, alone, answers, changes, sweep, sweeps>> /\ UNCHANGED rows /\ UNCHANGED login
\* What is kept is read once, before the lock is taken for any login.
FindRoles == /\ sweep.step = "none" /\ sweeps < Sweeps /\ sweeps' = sweeps + 1 /\ role
             /\ sweep' = [step |-> "found", drop |-> ~Configured(tools)]
             /\ UNCHANGED <<proc, alone, ready, answers, changes>> /\ UNCHANGED rows /\ UNCHANGED login
ReconcileRole == /\ sweep.step = "found" /\ sweep' = [sweep EXCEPT !.step = "none"]
                 /\ IF sweep.drop THEN Drop /\ DisturbAll ELSE UNCHANGED <<role, held, alone>>
                 /\ UNCHANGED <<proc, ready, sweeps, answers, changes>> /\ UNCHANGED rows

(* The project's own statements: a table or a view is dropped, and its grants with
   it, or made again; a view is made to run as its owner or as its caller, and
   keeps them. *)
SameView(from, to) == {from, to} \subseteq {"view", "invoker view"}
AlterRelation == /\ changes < Changes /\ changes' = changes + 1 /\ DisturbAll
                 /\ \E t \in Tables, to \in Kinds :
                       /\ relation[t] # to /\ relation' = [relation EXCEPT ![t] = to]
                       /\ held' = [held EXCEPT ![t] = IF SameView(relation[t], to) THEN @ ELSE {}]
                 /\ UNCHANGED <<agent, tools, role, proc, answers>> /\ UNCHANGED boot

Proc(p) == \/ AssignTool(p) \/ UpdateTool(p) \/ RemoveTool(p) \/ ReadTables(p) \/ DeleteAgent(p)
           \/ SyncFails(p) \/ DropUnconfigured(p) \/ SyncRevoke(p) \/ SyncGrant(p) \/ GrantDeleted(p) \/ EndRequest(p)
           \/ LoadAllTools(p) \/ DatabaseQuery(p) \/ DatabaseWrite(p) \/ EndRun(p)
Next == EnsureLogins \/ FindRoles \/ ReconcileRole \/ AlterRelation \/ \E p \in Procs : Proc(p)
Spec == Init /\ [][Next]_vars

-----------------------------------------------------------------------------
TypeOK == /\ agent \in BOOLEAN /\ role \in BOOLEAN /\ ready \in BOOLEAN /\ tools \in Configs
          /\ relation \in [Tables -> Kinds] /\ held \in [Tables -> SUBSET Privileges]
          /\ proc \in [Procs -> States]
          /\ alone \in [Procs -> BOOLEAN] /\ sweep \in [step : {"none", "found"}, drop : BOOLEAN]
          /\ answers \subseteq [by : Procs, tool : DbTools, table : Tables] /\ changes \in Nat /\ sweeps \in Nat
(* "No sync can recreate the login in between": a deleted agent has no login,
   though a sync that read its configuration before is between its two
   transactions. *)
DeletedHasNoLogin == ~agent => ~role /\ held = NoGrants
\* A sync is done: a request's, or one a run goes on from.
Synced(p) == \/ proc[p].step = "synced"
             \/ proc[p].step = "calls" /\ ~proc[p].error /\ proc[p].caller = "service" /\ Configured(proc[p].config)
(* "Make the agent's login hold exactly the grants its database tools configure":
   a sync nothing stepped between ends with the login holding that and no more,
   whatever was left by those before it; with no tables there is no login. *)
SyncedExact == \A p \in Procs : (alone[p] /\ Synced(p)) => (role <=> Configured(proc[p].config)) /\ held = Target(proc[p].config)
(* "A failure in between can only leave the login with less". *)
FailsWithLess == \A p \in Procs : (alone[p] /\ proc[p].step = "grant") =>
                    \A t \in Tables : held[t] \subseteq Target(proc[p].config)[t]
(* Whatever call of a run was answered, it was of a table its own configuration
   gives that tool, though the login it shares may hold more since; and a run
   whose permissions could not be prepared has no call answered. *)
AnswersWithin == \A a \in answers : /\ a.table \in proc[a.by].config[a.tool]
                                    /\ ~proc[a.by].error
(* All of it: the login is kept within the agent's tools. *)
LoginWithinTools == DeletedHasNoLogin /\ SyncedExact /\ FailsWithLess /\ AnswersWithin
=============================================================================
