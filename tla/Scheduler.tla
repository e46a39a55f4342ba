----------------------------- MODULE Scheduler -----------------------------
(***************************************************************************)
(* The scheduler's ticks and the schedule of one deployed workflow.  A     *)
(* tick is a task that sends itself again when it has finished: a chain.   *)
(* Each worker start seeds one more chain, and a Redis key with a time to  *)
(* live is meant to keep ticks apart.  A tick executes the workflow        *)
(* itself, so it may take far longer than the key lives.                   *)
(*                                                                         *)
(* Time passes in units; a moment is kept as how long ago it was, up to    *)
(* the interval of the schedule, beyond which only "long ago" matters.     *)
(***************************************************************************)
EXTENDS Naturals, FiniteSets

CONSTANTS
    Chains,        \* chains of ticks, one per worker start: a bound on the starts
    None,          \* no moment: last_scheduled_at is NULL
    TickInterval,  \* TICK_INTERVAL
    LockTTL,       \* LOCK_TTL
    Interval,      \* interval_seconds of the schedule
    MaxRuns,       \* max_runs of the schedule
    MaxDeploys,    \* bound on the deployments explored
    MaxDeaths,     \* bound on the worker deaths explored
    Slow,          \* TRUE: a tick may outlive its lock
    Faults         \* TRUE: publishing and the database may fail

ASSUME SchedulerAssumption ==
    /\ {TickInterval, LockTTL, Interval, MaxRuns} \subseteq Nat \ {0}
    /\ {MaxDeploys, MaxDeaths} \subseteq Nat
    /\ {Slow, Faults} \subseteq BOOLEAN
    /\ None \notin Nat

VARIABLES
    deployed,  \* state = 'deployed', with its schedule
    runs,      \* schedule_run_count
    last,      \* how long ago last_scheduled_at is, or None
    lock,      \* what is left of the lock's time to live; 0 when it is free
    pc,        \* how far each chain's tick has come
    due,       \* what is left until each tick is due, or given out again
    snap,      \* the schedule each tick has selected
    read,      \* how long ago each tick took the time
    deploys,
    deaths

rowVars == <<deployed, runs, last>>
tickVars == <<pc, due, snap, read>>
boundVars == <<deploys, deaths>>
vars == <<rowVars, lock, tickVars, boundVars>>

Ages == 0..Interval
Positions == {"none", "waiting", "select", "check", "execute", "record", "unlock",
              "resend", "lost"}

\* A tick that took the lock and has not deleted it.
Active(c) == pc[c] \in {"select", "check", "execute", "record", "unlock"}

TypeOK ==
    /\ deployed \in BOOLEAN
    /\ runs \in 0..(MaxRuns + Cardinality(Chains))
    /\ last \in Ages \cup {None}
    /\ lock \in 0..LockTTL
    /\ pc \in [Chains -> Positions]
    /\ due \in [Chains -> 0..TickInterval \cup 0..LockTTL]
    /\ snap \in [Chains -> [runs : Nat, last : Ages \cup {None}]]
    /\ read \in [Chains -> Ages]
    /\ deploys \in 0..MaxDeploys
    /\ deaths \in 0..MaxDeaths

NoSnap == [runs |-> 0, last |-> None]

Init ==
    /\ deployed = FALSE
    /\ runs = 0
    /\ last = None
    /\ lock = 0
    /\ pc = [c \in Chains |-> "none"]
    /\ due = [c \in Chains |-> 0]
    /\ snap = [c \in Chains |-> NoSnap]
    /\ read = [c \in Chains |-> Interval]
    /\ deploys = 0
    /\ deaths = 0

Goto(c, position) == pc' = [pc EXCEPT ![c] = position]

-----------------------------------------------------------------------------
(* The user *)

\* POST /deploy: the run count starts again, last_scheduled_at stays.
Deploy ==
    /\ deploys < MaxDeploys
    /\ deploys' = deploys + 1
    /\ deployed' = TRUE
    /\ runs' = 0
    /\ UNCHANGED <<last, lock, tickVars, deaths>>

\* POST /undeploy.
Undeploy ==
    /\ deployed
    /\ deployed' = FALSE
    /\ last' = None
    /\ UNCHANGED <<runs, lock, tickVars, boundVars>>

-----------------------------------------------------------------------------
(* One tick *)

\* worker_ready: a tick is sent at once.
Seed(c) ==
    /\ pc[c] = "none"
    /\ Goto(c, "waiting")
    /\ due' = [due EXCEPT ![c] = 0]
    /\ UNCHANGED <<rowVars, lock, snap, read, boundVars>>

\* Seeded bug: the lock is set whether or not it is there.
BeginAnyway(c) ==
    /\ pc[c] = "waiting"
    /\ due[c] = 0
    /\ lock' = LockTTL
    /\ Goto(c, "select")
    /\ UNCHANGED <<rowVars, due, snap, read, boundVars>>

\* SET NX EX; a tick that finds the lock held returns, and sends nothing again.
Begin(c) ==
    /\ pc[c] = "waiting"
    /\ due[c] = 0
    /\ IF lock = 0
       THEN lock' = LockTTL /\ Goto(c, "select")
       ELSE UNCHANGED lock /\ Goto(c, "none")
    /\ UNCHANGED <<rowVars, due, snap, read, boundVars>>

\* The query for deployed workflows with a schedule.
Select(c) ==
    /\ pc[c] = "select"
    /\ Goto(c, IF deployed THEN "check" ELSE "unlock")
    /\ snap' = [snap EXCEPT ![c] = [runs |-> runs, last |-> last]]
    /\ UNCHANGED <<rowVars, lock, due, read, boundVars>>

\* Seeded bug of IsDue: one run too many.
IsDueOnceMore(s) == s.runs <= MaxRuns /\ (s.last = None \/ s.last = Interval)

\* Seeded bug of IsDue: one unit too early.
IsDueEarly(s) == s.runs < MaxRuns /\ s.last \in {None, Interval - 1, Interval}

\* Seeded bug of IsDue: max_runs is forgotten.
IsDueForEver(s) == s.last = None \/ s.last = Interval

\* Due by what the query returned: fewer than max_runs, and never run or run at
\* least an interval ago.
IsDue(s) == s.runs < MaxRuns /\ (s.last = None \/ s.last = Interval)

\* _maybe_execute_scheduled up to the insert of the execution's row; without a key
\* for a model (BadRequest) nothing is executed and the run is recorded even so.
Check(c) ==
    /\ pc[c] = "check"
    /\ read' = [read EXCEPT ![c] = 0]
    /\ \/ /\ IsDue(snap[c])
          /\ Goto(c, "execute") \/ Goto(c, "record")
       \/ /\ ~IsDue(snap[c]) \/ Faults
          /\ Goto(c, "unlock")
    /\ UNCHANGED <<rowVars, lock, due, snap, boundVars>>

\* The execution completes, fails or times out; should writing that fail too, the
\* exception ends the visit of this workflow.
Finish(c) ==
    /\ pc[c] = "execute"
    /\ \/ Goto(c, "record")
       \/ Faults /\ Goto(c, "unlock")
    /\ UNCHANGED <<rowVars, lock, due, snap, read, boundVars>>

\* last_scheduled_at is the time taken before the execution; the row is updated
\* whatever has become of the deployment.
Record(c) ==
    /\ pc[c] = "record"
    /\ last' = read[c]
    /\ runs' = runs + 1
    /\ Goto(c, "unlock")
    /\ UNCHANGED <<deployed, lock, due, snap, read, boundVars>>

\* The lock is deleted, whosever it is by now.
Unlock(c) ==
    /\ pc[c] = "unlock"
    /\ lock' = 0
    /\ Goto(c, "resend")
    /\ snap' = [snap EXCEPT ![c] = NoSnap]
    /\ read' = [read EXCEPT ![c] = Interval]
    /\ UNCHANGED <<rowVars, due, boundVars>>

\* Seeded bug: the next tick is left to the heartbeat of a scheduler that nobody runs.
ResendNothing(c) ==
    /\ pc[c] = "resend"
    /\ Goto(c, "none")
    /\ UNCHANGED <<rowVars, lock, due, snap, read, boundVars>>

\* The next tick of the chain; when three publishes fail there is none.
Resend(c) ==
    /\ pc[c] = "resend"
    /\ \/ Goto(c, "waiting") /\ due' = [due EXCEPT ![c] = TickInterval]
       \/ Faults /\ Goto(c, "none") /\ UNCHANGED due
    /\ UNCHANGED <<rowVars, lock, snap, read, boundVars>>

-----------------------------------------------------------------------------
(* Deaths and time *)

\* The worker dies with the tick.  Its lock stays until it expires, and the broker
\* keeps the tick for the visibility timeout, which is far longer than the lock: here
\* it is as long.
Die(c) ==
    /\ Active(c) \/ pc[c] = "resend"
    /\ deaths < MaxDeaths
    /\ deaths' = deaths + 1
    /\ Goto(c, "lost")
    /\ snap' = [snap EXCEPT ![c] = NoSnap]
    /\ read' = [read EXCEPT ![c] = Interval]
    /\ due' = [due EXCEPT ![c] = LockTTL]
    /\ UNCHANGED <<rowVars, lock, deploys>>

\* The broker hands the tick out again.
Redeliver(c) ==
    /\ pc[c] = "lost"
    /\ due[c] = 0
    /\ Goto(c, "waiting")
    /\ UNCHANGED <<rowVars, lock, due, snap, read, boundVars>>

Older(age) == IF age = None \/ age = Interval THEN age ELSE age + 1
Less(n) == IF n = 0 THEN 0 ELSE n - 1

\* A unit of time.  Unless ticks are slow, one that holds the lock is done before
\* the lock expires.
Advance ==
    /\ ~Slow => \A c \in Chains : Active(c) => lock > 1
    /\ lock' = Less(lock)
    /\ due' = [c \in Chains |-> Less(due[c])]
    /\ last' = Older(last)
    /\ snap' = [c \in Chains |-> [runs |-> snap[c].runs, last |-> Older(snap[c].last)]]
    /\ read' = [c \in Chains |-> Older(read[c])]
    /\ UNCHANGED <<deployed, runs, pc, boundVars>>

Step(c) ==
    \/ Begin(c) \/ Select(c) \/ Check(c) \/ Finish(c) \/ Record(c) \/ Unlock(c)
    \/ Resend(c)

Next ==
    \/ Deploy \/ Undeploy \/ Advance
    \/ \E c \in Chains : Seed(c) \/ Step(c) \/ Die(c) \/ Redeliver(c)

Spec == Init /\ [][Next]_vars

\* Time passes, tasks run and the broker redelivers; no worker has to start and
\* nobody has to deploy.
FairSpec ==
    /\ Spec
    /\ WF_vars(Advance)
    /\ \A c \in Chains : WF_vars(Step(c)) /\ WF_vars(Redeliver(c))

-----------------------------------------------------------------------------
(* Properties *)

\* The lock keeps the visits to the workflows apart, whichever chains they are of
\* (scheduler_tick), as long as a tick ends before its lock does.
OneTick ==
    \A c, d \in Chains : Active(c) /\ Active(d) => c = d

\* Executing counts too: a tick that decides by the row it selected never takes
\* the workflow past max_runs, across overlapping chains, deaths and deployments
\* that change under it.  (An execution that is never recorded is not counted.)
Executing == {c \in Chains : pc[c] \in {"execute", "record"}}
RunsCapped == runs + Cardinality(Executing) <= MaxRuns

\* Both: the schedule is kept.
ScheduleKept == OneTick /\ RunsCapped

\* Whatever the row read when the tick selected it, no execution begins within an
\* interval of the one that last_scheduled_at records by then.
SpacedStep == Executing' \ Executing # {} => last \in {None, Interval}
Spaced == [][SpacedStep]_vars

\* After each tick another one looks at the workflows, though workers die and ticks
\* that meet the lock end their chains.
TicksGoOn == (\E c \in Chains : pc[c] = "resend") ~> (\E c \in Chains : pc[c] = "select")

\* scheduler.py: "a Redis lock to prevent duplicate tick chains on worker restart".
\* So two chains do not go on side by side for ever.
ChainsMerge ==
    \A c, d \in Chains : c # d => ~<>[](pc[c] # "none" /\ pc[d] # "none")

\* _maybe_execute_scheduled: "First run fires immediately after deploy".  So a
\* workflow that is deployed has no last_scheduled_at left of an earlier deployment.
FreshIsDue == [][~deployed /\ deployed' => last = None]_vars
=============================================================================
