--------------------------- MODULE SchedulerProofs ---------------------------
(* Theorems about Scheduler, for any number of chains, deployments and deaths and
   any intervals, as long as no tick outlives its lock. *)
EXTENDS Scheduler, FiniteSetTheorems, TLAPS

USE SchedulerAssumption

(* Every variable keeps its type but the run count, whose bound is ScheduleKept. *)
Types == /\ deployed \in BOOLEAN /\ runs \in Nat /\ last \in Ages \union {None} /\ lock \in Nat
         /\ pc \in [Chains -> Positions] /\ due \in [Chains -> Nat]
         /\ snap \in [Chains -> [runs : Nat, last : Ages \union {None}]] /\ read \in [Chains -> Ages]
         /\ deploys \in Nat /\ deaths \in Nat

\* Ages and countdowns stay what they are as time goes on.
LEMMA AgesGrow == /\ \A a \in Ages \union {None} : Older(a) \in Ages \union {None}
                  /\ \A a \in Ages : Older(a) \in Ages
                  /\ \A n \in Nat : Less(n) \in Nat
  BY DEF Older, Less, Ages

\* Every variable keeps its type, whatever overlaps.
THEOREM ScheduleTypes == Spec => []Types
<1>1. Init => Types
  <2> SUFFICES ASSUME Init PROVE Types
    OBVIOUS
  <2>1. NoSnap \in [runs : Nat, last : Ages \union {None}] /\ Interval \in Ages
    BY DEF NoSnap, Ages
  <2>2. pc \in [Chains -> Positions]
    BY DEF Init, Positions
  <2> QED BY <2>1, <2>2 DEF Init, Types
<1>2. Types /\ [Next]_vars => Types'
  <2> SUFFICES ASSUME Types, [Next]_vars PROVE Types'
    OBVIOUS
  <2>1. CASE Deploy \/ Undeploy
    <3>1. CASE Deploy
      BY <3>1 DEF Deploy, Types, tickVars
    <3>2. CASE Undeploy
      BY <3>2 DEF Undeploy, Types, tickVars, boundVars
    <3> QED BY <2>1, <3>1, <3>2
  <2>2. CASE Advance
    <3>1. \A c \in Chains : Less(due[c]) \in Nat /\ Older(read[c]) \in Ages /\ snap[c].runs \in Nat /\ Older(snap[c].last) \in Ages \union {None}
      BY AgesGrow DEF Types
    <3>2. /\ due' \in [Chains -> Nat] /\ read' \in [Chains -> Ages] /\ last' \in Ages \union {None} /\ lock' \in Nat
          /\ snap' \in [Chains -> [runs : Nat, last : Ages \union {None}]]
      BY <2>2, <3>1, AgesGrow DEF Advance, Types
    <3> QED BY <2>2, <3>2 DEF Advance, Types, boundVars
  <2>3. ASSUME NEW c \in Chains, Seed(c) PROVE Types'
    BY <2>3 DEF Seed, Goto, Types, Positions, rowVars, boundVars
  <2>4. ASSUME NEW c \in Chains, Begin(c) PROVE Types'
    BY <2>4 DEF Begin, Goto, Types, Positions, rowVars, boundVars
  <2>5. ASSUME NEW c \in Chains, Select(c) PROVE Types'
    <3>1. pc' \in [Chains -> Positions]
      BY <2>5 DEF Select, Goto, Types, Positions
    <3> QED BY <2>5, <3>1 DEF Select, Types, rowVars, boundVars
  <2>6. ASSUME NEW c \in Chains, Check(c) PROVE Types'
    <3>1. pc' \in [Chains -> Positions] /\ read' \in [Chains -> Ages]
      BY <2>6 DEF Check, Goto, Types, Positions, Ages
    <3> QED BY <2>6, <3>1 DEF Check, Types, rowVars, boundVars
  <2>7. ASSUME NEW c \in Chains, Finish(c) PROVE Types'
    BY <2>7 DEF Finish, Goto, Types, Positions, rowVars, boundVars
  <2>8. ASSUME NEW c \in Chains, Record(c) PROVE Types'
    BY <2>8 DEF Record, Goto, Types, Positions, boundVars
  <2>9. ASSUME NEW c \in Chains, Unlock(c) \/ Die(c) PROVE Types'
    <3>1. NoSnap \in [runs : Nat, last : Ages \union {None}] /\ Interval \in Ages
      BY DEF NoSnap, Ages
    <3>2. CASE Unlock(c)
      BY <3>1, <3>2 DEF Unlock, Goto, Types, Positions, rowVars, boundVars
    <3>3. CASE Die(c)
      BY <3>1, <3>3 DEF Die, Goto, Types, Positions, rowVars
    <3> QED BY <2>9, <3>2, <3>3
  <2>10. ASSUME NEW c \in Chains, Resend(c) \/ Redeliver(c) PROVE Types'
    BY <2>10 DEF Resend, Redeliver, Goto, Types, Positions, rowVars, boundVars
  <2>11. CASE UNCHANGED vars
    BY <2>11 DEF vars, Types, rowVars, tickVars, boundVars
  <2> QED BY <2>1, <2>2, <2>3, <2>4, <2>5, <2>6, <2>7, <2>8, <2>9, <2>10, <2>11 DEF Next, Step
<1> QED BY <1>1, <1>2, PTL DEF Spec

-----------------------------------------------------------------------------
(* What keeps the schedule: a tick at work holds a lock that has not expired, and
   is the only one; what it read of the schedule is not behind the row; and the
   runs, the one that is being executed included, are within the limit. *)
OneHolds == /\ \A c \in Chains : Active(c) => lock > 0
            /\ \A c, d \in Chains : Active(c) /\ Active(d) => c = d
ReadInTime == \A c \in Chains : pc[c] = "check" => runs <= snap[c].runs /\ last \in {None, snap[c].last}
InLimit == /\ runs <= MaxRuns
           /\ \A c \in Chains : pc[c] \in {"execute", "record"} => runs < MaxRuns

\* Every step leaves the lock to at most one chain at work, and in time.
LEMMA OneHoldsStep == ASSUME ~Slow, Types, OneHolds, [Next]_vars PROVE OneHolds'
<1> USE DEF OneHolds, Active, Types
\* A step of one chain that is at work already, or is not after it.
<1>1. ASSUME NEW c \in Chains, NEW to \in Positions, Goto(c, to), UNCHANGED lock,
             Active(c) \/ to \in {"none", "waiting", "resend", "lost"}
      PROVE OneHolds'
  BY <1>1 DEF Goto
<1>2. CASE Deploy \/ Undeploy
  BY <1>2 DEF Deploy, Undeploy, tickVars
<1>3. CASE Advance
  BY <1>3 DEF Advance, Less
<1>4. ASSUME NEW c \in Chains, Seed(c) \/ Redeliver(c) \/ Resend(c) \/ Die(c) PROVE OneHolds'
  BY <1>1, <1>4 DEF Seed, Redeliver, Resend, Die, Positions
<1>5. ASSUME NEW c \in Chains, Begin(c) PROVE OneHolds'
  <2>1. CASE lock = 0
    <3>1. \A d \in Chains : ~Active(d)
      BY <2>1
    <3> QED BY <1>5, <2>1, <3>1 DEF Begin, Goto
  <2>2. CASE lock # 0
    BY <1>1, <1>5, <2>2 DEF Begin, Positions
  <2> QED BY <2>1, <2>2
<1>6. ASSUME NEW c \in Chains, Select(c) \/ Check(c) \/ Finish(c) \/ Record(c) PROVE OneHolds'
  BY <1>1, <1>6 DEF Select, Check, Finish, Record, Positions
<1>7. ASSUME NEW c \in Chains, Unlock(c) PROVE OneHolds'
  BY <1>7 DEF Unlock, Goto
<1>8. CASE UNCHANGED vars
  BY <1>8 DEF vars, tickVars
<1> QED BY <1>2, <1>3, <1>4, <1>5, <1>6, <1>7, <1>8 DEF Next, Step

\* Every step leaves what a holder read as fresh as the row itself.
LEMMA ReadStep == ASSUME Types, OneHolds, ReadInTime, [Next]_vars PROVE ReadInTime'
<1> USE DEF ReadInTime, Types
\* A step of a chain that leaves the rest as it was, and does not go to the check.
<1>1. ASSUME NEW c \in Chains, NEW to, to # "check", Goto(c, to), UNCHANGED rowVars,
             UNCHANGED snap \/ snap' = [snap EXCEPT ![c] = NoSnap]
      PROVE ReadInTime'
  BY <1>1 DEF Goto, rowVars
<1>2. CASE Deploy \/ Undeploy
  BY <1>2 DEF Deploy, Undeploy, tickVars
<1>3. CASE Advance
  <2> SUFFICES ASSUME NEW c \in Chains, pc[c] = "check" PROVE runs <= snap'[c].runs /\ last' \in {None, snap'[c].last}
    BY <1>3 DEF Advance
  <2> QED BY <1>3 DEF Advance, Older
<1>4. ASSUME NEW c \in Chains, Seed(c) \/ Redeliver(c) \/ Resend(c) \/ Die(c) PROVE ReadInTime'
  BY <1>1, <1>4 DEF Seed, Redeliver, Resend, Die
<1>5. ASSUME NEW c \in Chains, Begin(c) \/ Check(c) \/ Finish(c) \/ Unlock(c) PROVE ReadInTime'
  BY <1>1, <1>5 DEF Begin, Check, Finish, Unlock
<1>6. ASSUME NEW c \in Chains, Select(c) PROVE ReadInTime'
  <2>1. snap' = [snap EXCEPT ![c] = [runs |-> runs, last |-> last]] /\ UNCHANGED <<runs, last>>
    BY <1>6 DEF Select, rowVars
  <2>2. snap'[c].runs = runs /\ snap'[c].last = last
    BY <2>1
  <2>3. \A d \in Chains \ {c} : snap'[d] = snap[d] /\ pc'[d] = pc[d]
    BY <1>6, <2>1 DEF Select, Goto
  <2> QED BY <2>1, <2>2, <2>3
\* The row changes while no other tick is at work.
<1>7. ASSUME NEW c \in Chains, Record(c) PROVE ReadInTime'
  <2>1. \A d \in Chains : pc[d] # "check"
    BY <1>7 DEF Record, OneHolds, Active
  <2> QED BY <1>7, <2>1 DEF Record, Goto
<1>8. CASE UNCHANGED vars
  BY <1>8 DEF vars, tickVars, rowVars
<1> QED BY <1>2, <1>3, <1>4, <1>5, <1>6, <1>7, <1>8 DEF Next, Step

\* Every step leaves a chain that executes below max_runs.
LEMMA InLimitStep == ASSUME Types, OneHolds, ReadInTime, InLimit, [Next]_vars PROVE InLimit'
<1> USE DEF InLimit, Types
\* A step of a chain that begins no execution.
<1>1. ASSUME NEW c \in Chains, NEW to, Goto(c, to), UNCHANGED runs,
             to \in {"execute", "record"} => pc[c] \in {"execute", "record"} \/ runs < MaxRuns
      PROVE InLimit'
  BY <1>1 DEF Goto
<1>2. CASE Deploy \/ Undeploy \/ Advance
  BY <1>2 DEF Deploy, Undeploy, Advance, tickVars
<1>3. ASSUME NEW c \in Chains, Seed(c) \/ Redeliver(c) \/ Resend(c) \/ Die(c) PROVE InLimit'
  BY <1>1, <1>3 DEF Seed, Redeliver, Resend, Die, rowVars
<1>4. ASSUME NEW c \in Chains, Begin(c) \/ Select(c) \/ Finish(c) \/ Unlock(c) PROVE InLimit'
  BY <1>1, <1>4 DEF Begin, Select, Finish, Unlock, rowVars
<1>5. ASSUME NEW c \in Chains, Check(c) PROVE InLimit'
  <2>1. CASE IsDue(snap[c])
    <3>1. runs < MaxRuns
      BY <1>5, <2>1 DEF Check, IsDue, ReadInTime
    <3> QED BY <1>1, <1>5, <3>1 DEF Check, rowVars
  <2>2. CASE ~IsDue(snap[c])
    BY <1>1, <1>5, <2>2 DEF Check, rowVars
  <2> QED BY <2>1, <2>2
<1>6. ASSUME NEW c \in Chains, Record(c) PROVE InLimit'
  <2>1. \A d \in Chains \ {c} : pc[d] \notin {"execute", "record"}
    BY <1>6 DEF Record, OneHolds, Active
  <2>2. runs < MaxRuns
    BY <1>6 DEF Record
  <2> QED BY <1>6, <2>1, <2>2 DEF Record, Goto
<1>7. CASE UNCHANGED vars
  BY <1>7 DEF vars, tickVars, rowVars
<1> QED BY <1>2, <1>3, <1>4, <1>5, <1>6, <1>7 DEF Next, Step

\* The three together.
LEMMA ScheduleInv == ASSUME ~Slow PROVE Spec => [](Types /\ OneHolds /\ ReadInTime /\ InLimit)
<1>1. Init => OneHolds /\ ReadInTime /\ InLimit
  BY DEF Init, OneHolds, Active, ReadInTime, InLimit
<1>2. Types /\ (OneHolds /\ ReadInTime /\ InLimit) /\ [Next]_vars => (OneHolds /\ ReadInTime /\ InLimit)'
  BY OneHoldsStep, ReadStep, InLimitStep
<1> QED BY <1>1, <1>2, ScheduleTypes, PTL DEF Spec

(* One tick at a time looks at the workflows, and with what it is executing the
   workflow is not past its runs. *)
THEOREM KeepsSchedule == ASSUME ~Slow PROVE Spec => []ScheduleKept
<1>1. Types /\ OneHolds /\ InLimit => ScheduleKept
  <2> SUFFICES ASSUME Types, OneHolds, InLimit PROVE ScheduleKept
    OBVIOUS
  <2>1. OneTick
    BY DEF OneHolds, OneTick
  <2>2. CASE Executing = {}
    <3>1. RunsCapped
      BY <2>2, FS_EmptySet DEF InLimit, RunsCapped, Types
    <3> QED BY <2>1, <3>1 DEF ScheduleKept
  <2>3. ASSUME NEW c \in Executing PROVE RunsCapped
    <3>1. Executing = {c}
      BY DEF Executing, OneHolds, Active
    <3>2. Cardinality(Executing) = 1
      BY <3>1, FS_Singleton
    <3>3. runs < MaxRuns
      BY DEF Executing, InLimit
    <3> QED BY <3>2, <3>3 DEF RunsCapped, Types
  <2> QED BY <2>1, <2>2, <2>3 DEF ScheduleKept
<1> QED BY <1>1, ScheduleInv, PTL

\* What is counted, and counted down, is within its bounds.
Limits == /\ lock \in 0..LockTTL /\ due \in [Chains -> 0..TickInterval \cup 0..LockTTL]
          /\ deploys \in 0..MaxDeploys /\ deaths \in 0..MaxDeaths

LEMMA LimitsStep == ASSUME Limits, [Next]_vars PROVE Limits'
<1> USE DEF Limits
<1>1. ASSUME UNCHANGED <<lock, due, deploys, deaths>> PROVE Limits'
  BY <1>1
<1>2. CASE Deploy
  BY <1>2 DEF Deploy, tickVars
<1>3. CASE Undeploy \/ UNCHANGED vars
  BY <1>1, <1>3 DEF Undeploy, tickVars, boundVars, vars, rowVars
<1>4. CASE Advance
  <2>1. \A n \in 0..LockTTL : Less(n) \in 0..LockTTL
    BY DEF Less
  <2>2. \A n \in 0..TickInterval \cup 0..LockTTL : Less(n) \in 0..TickInterval \cup 0..LockTTL
    BY DEF Less
  <2> QED BY <1>4, <2>1, <2>2 DEF Advance, boundVars
<1>5. ASSUME NEW c \in Chains, Seed(c) \/ Begin(c) \/ Unlock(c) \/ Resend(c) PROVE Limits'
  BY <1>5 DEF Seed, Begin, Unlock, Resend, boundVars
<1>6. ASSUME NEW c \in Chains, Die(c) PROVE Limits'
  BY <1>6 DEF Die
<1>7. ASSUME NEW c \in Chains, Select(c) \/ Check(c) \/ Finish(c) \/ Record(c) \/ Redeliver(c) PROVE Limits'
  BY <1>1, <1>7 DEF Select, Check, Finish, Record, Redeliver, boundVars
<1> QED BY <1>2, <1>3, <1>4, <1>5, <1>6, <1>7 DEF Next, Step

(* Every variable keeps within its bounds: the lock and the tasks their times to
   live, and the run count what the schedule allows. *)
THEOREM ScheduleTypeOK == ASSUME ~Slow, IsFiniteSet(Chains) PROVE Spec => []TypeOK
<1>1. Init => Limits
  BY DEF Init, Limits
<1>2. Limits /\ [Next]_vars => Limits'
  BY LimitsStep
<1>3. Types /\ InLimit /\ Limits => TypeOK
  <2>1. Cardinality(Chains) \in Nat
    BY FS_CardinalityType
  <2> QED BY <2>1 DEF Types, InLimit, Limits, TypeOK
<1> QED BY <1>1, <1>2, <1>3, ScheduleInv, PTL DEF Spec

(* No execution begins within an interval of the last one that is recorded. *)
THEOREM KeepsApart == ASSUME ~Slow PROVE Spec => Spaced
<1>1. Types /\ ReadInTime /\ [Next]_vars => [SpacedStep]_vars
  <2> SUFFICES ASSUME Types, ReadInTime, [Next]_vars, NEW c \in Executing' \ Executing PROVE last \in {None, Interval}
    BY DEF SpacedStep
  <2>1. c \in Chains /\ pc'[c] \in {"execute", "record"} /\ pc[c] \notin {"execute", "record"}
    BY DEF Executing
  <2>2. ASSUME NEW d \in Chains, NEW to, Goto(d, to), to \in {"execute", "record"} => pc[d] \in {"execute", "record"} PROVE FALSE
    BY <2>1, <2>2 DEF Goto, Types
  <2>3. ASSUME pc' = pc PROVE FALSE
    BY <2>1, <2>3
  <2>4. CASE Deploy \/ Undeploy \/ Advance \/ UNCHANGED vars
    BY <2>3, <2>4 DEF Deploy, Undeploy, Advance, vars, tickVars
  <2>5. ASSUME NEW d \in Chains, Seed(d) \/ Redeliver(d) \/ Resend(d) \/ Die(d) PROVE FALSE
    BY <2>2, <2>5 DEF Seed, Redeliver, Resend, Die
  <2>6. ASSUME NEW d \in Chains, Begin(d) \/ Select(d) \/ Finish(d) \/ Record(d) \/ Unlock(d) PROVE FALSE
    BY <2>2, <2>6 DEF Begin, Select, Finish, Record, Unlock
  <2>7. ASSUME NEW d \in Chains, Check(d) PROVE last \in {None, Interval}
    <3>1. IsDue(snap[d])
      BY <2>2, <2>7 DEF Check
    <3> QED BY <2>7, <3>1 DEF Check, IsDue, ReadInTime
  <2> QED BY <2>4, <2>5, <2>6, <2>7 DEF Next, Step
<1> QED BY <1>1, ScheduleInv, PTL DEF Spec, Spaced
=============================================================================
