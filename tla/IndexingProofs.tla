--------------------------- MODULE IndexingProofs ---------------------------
(***************************************************************************)
(* Theorems about IndexingWatchdog, for every number of rows, tasks and    *)
(* workers and every bound.                                                *)
(***************************************************************************)
EXTENDS IndexingWatchdog, TLAPS

AllTypeOK == TypeOK /\ WdTypeOK

\* Type correctness of the rows, the broker, the runs and the reconciler.
THEOREM TypeCorrect == SystemSpec => []AllTypeOK
<1>1. SystemInit => AllTypeOK
  BY IndexingAssumption
     DEF SystemInit, Init, WdInit, AllTypeOK, TypeOK, WdTypeOK,
         Statuses, Absent, Positions, Owning
<1>2. AllTypeOK /\ [SystemNext]_allVars => AllTypeOK'
  <2> SUFFICES ASSUME AllTypeOK, [SystemNext]_allVars PROVE AllTypeOK'
    OBVIOUS
  <2> USE IndexingAssumption DEF AllTypeOK, TypeOK, WdTypeOK, Statuses, Absent, Kinds, Running,
         rowVars, brokerVars, workVars, userVars, RowOf
  <2>1. CASE Request /\ UNCHANGED wdVars
    <3>1. ASSUME NEW r \in Rows, AddSource(r) PROVE AllTypeOK'
      BY <2>1, <3>1 DEF AddSource, Reset, wdVars
    <3>2. ASSUME NEW r \in Rows, Reindex(r) PROVE AllTypeOK'
      BY <2>1, <3>2 DEF Reindex, Reset, wdVars
    <3>3. ASSUME NEW r \in Rows, CancelBegin(r) PROVE AllTypeOK'
      BY <2>1, <3>3 DEF CancelBegin, Revoke, wdVars
    <3>4. ASSUME NEW r \in Rows, RemoveSource(r) PROVE AllTypeOK'
      BY <2>1, <3>4 DEF RemoveSource, Revoke, wdVars
    <3>5. ASSUME NEW r \in Rows, SourceChanges(r) PROVE AllTypeOK'
      BY <2>1, <3>5 DEF SourceChanges, wdVars
    <3> QED BY <2>1, <3>1, <3>2, <3>3, <3>4, <3>5 DEF Request
  <2>2. CASE FinishRequest /\ UNCHANGED wdVars
    <3>1. ASSUME NEW d \in dispatching, Dispatch(d) PROVE AllTypeOK'
      BY <2>2, <3>1 DEF Dispatch, Publish, FreshTasks, wdVars
    <3>2. ASSUME NEW d \in dispatching, DispatchFails(d) PROVE AllTypeOK'
      BY <2>2, <3>2 DEF DispatchFails, wdVars
    <3>3. ASSUME NEW d \in dispatching, BalanceRefused(d) PROVE AllTypeOK'
      BY <2>2, <3>3 DEF BalanceRefused, wdVars
    <3>4. ASSUME NEW r \in Rows, CancelEnd(r) PROVE AllTypeOK'
      BY <2>2, <3>4 DEF CancelEnd, wdVars
    <3> QED BY <2>2, <3>1, <3>2, <3>3, <3>4 DEF FinishRequest
  <2>3. ASSUME NEW w \in Workers, Run(w), UNCHANGED wdVars PROVE AllTypeOK'
    <3> USE <2>3 DEF wdVars, rowVars, brokerVars, workVars, userVars, Goto, RowOf, Positions, Owning
    <3>1. ASSUME NEW t \in Tasks, Fetch(w, t) PROVE AllTypeOK'
      BY <3>1 DEF Fetch, Retire
    <3>2. CASE Check(w)
      BY <3>2 DEF Check
    <3>3. CASE Reject(w)
      BY <3>3 DEF Reject
    <3>4. CASE Claim(w)
      <4>1. task[w] \in Tasks /\ RowOf(w) \in Rows
        BY <3>4 DEF Claim
      <4>2. CASE status[RowOf(w)] = "pending"
        <5>1. attempts' \in [Rows -> Nat]
          BY <3>4, <4>1, <4>2 DEF Claim
        <5>2. /\ status' \in [Rows -> Statuses]
              /\ owner' \in [Rows -> Tasks \cup {None}]
              /\ stale' \in [Rows -> BOOLEAN]
          BY <3>4, <4>1, <4>2 DEF Claim
        <5>3. pc' \in [Workers -> Positions] /\ pc[w] # "idle"
          BY <3>4, <4>1, <4>2 DEF Claim
        <5> QED BY <3>4, <4>2, <5>1, <5>2, <5>3 DEF Claim
      <4>3. CASE status[RowOf(w)] # "pending"
        BY <3>4, <4>3 DEF Claim
      <4> QED BY <4>2, <4>3
    <3>5. CASE ClearArtifacts(w)
      BY <3>5 DEF ClearArtifacts
    <3>6. CASE WriteArtifacts(w)
      BY <3>6 DEF WriteArtifacts, More
    <3>7. CASE CommitIndexed(w)
      BY <3>7 DEF CommitIndexed, More
    <3>8. CASE RunFails(w)
      BY <3>8 DEF RunFails
    <3>9. CASE StorageFails(w)
      BY <3>9 DEF StorageFails
    <3>10. CASE Requeue(w)
      BY <3>10 DEF Requeue, Publish, FreshTasks
    <3>11. CASE SideEffects(w)
      BY <3>11 DEF SideEffects
    <3>12. CASE Acknowledge(w)
      BY <3>12 DEF Acknowledge, Retire
    <3> QED BY <3>1, <3>2, <3>3, <3>4, <3>5, <3>6, <3>7, <3>8, <3>9, <3>10,
               <3>11, <3>12 DEF Run
  <2>4. ASSUME NEW w \in Workers, Crash(w), UNCHANGED wdVars PROVE AllTypeOK'
    BY <2>4 DEF Crash, wdVars, Positions, Owning
  <2>5. ASSUME NEW t \in Tasks, Redeliver(t), UNCHANGED wdVars PROVE AllTypeOK'
    BY <2>5 DEF Redeliver, wdVars
  <2>6. ASSUME NEW r \in Rows, AgeInTime(r), UNCHANGED wdVars PROVE AllTypeOK'
    BY <2>6 DEF AgeInTime, Age, wdVars
  <2>7. ASSUME NEW repliers \in SUBSET Workers, Collect(repliers) PROVE AllTypeOK'
    BY <2>7 DEF Collect, vars
  <2>8. CASE SelectOrphans
    BY <2>8 DEF SelectOrphans, vars
  <2>9. CASE FailExhausted
    BY <2>9 DEF FailExhausted
  <2>10. CASE ResetOrphans
    BY <2>10 DEF ResetOrphans
  <2>11. ASSUME NEW r \in Rows, Redispatch(r) PROVE AllTypeOK'
    BY <2>11 DEF Redispatch, Publish, FreshTasks
  <2>12. CASE WatchdogCrash
    BY <2>12 DEF WatchdogCrash
  <2>13. CASE UNCHANGED allVars
    BY <2>13 DEF allVars, vars, wdVars
  <2> QED
    BY <2>1, <2>2, <2>3, <2>4, <2>5, <2>6, <2>7, <2>8, <2>9, <2>10, <2>11,
       <2>12, <2>13 DEF SystemNext, Step, Tick
<1> QED BY <1>1, <1>2, PTL DEF SystemSpec

-----------------------------------------------------------------------------
(* One owner *)

\* Delivery: no two workers run one task, and a queued message is run by nobody.
\* It holds while the broker gives a message to a second worker only after the
\* first has died.
Delivery ==
    /\ \A v, w \in Workers : task[v] = task[w] /\ task[v] # None => v = w
    /\ \A t \in Tasks : broker[t] = "queued" => Running(t) = {}

\* Without redelivery to a live run, a task is run by at most one worker, and not while it is queued.
LEMMA DeliveryInvariant == ASSUME ~LiveRedelivery PROVE SystemSpec => []Delivery
<1>1. SystemInit => Delivery
  BY DEF SystemInit, Init, Delivery
<1>2. AllTypeOK /\ Delivery /\ [SystemNext]_allVars => Delivery'
  <2> SUFFICES ASSUME AllTypeOK, Delivery, [SystemNext]_allVars PROVE Delivery'
    OBVIOUS
  <2> USE IndexingAssumption DEF AllTypeOK, TypeOK, Delivery, Running
  <2>1. ASSUME NEW w \in Workers, NEW t \in Tasks, Fetch(w, t) PROVE Delivery'
    BY <2>1 DEF Fetch, Retire, workVars
  <2>2. ASSUME NEW w \in Workers, Acknowledge(w) PROVE Delivery'
    BY <2>2 DEF Acknowledge, Retire, brokerVars
  <2>3. ASSUME NEW w \in Workers, Crash(w) PROVE Delivery'
    BY <2>3 DEF Crash, brokerVars
  <2>4. ASSUME NEW t \in Tasks, Redeliver(t) PROVE Delivery'
    BY <2>4 DEF Redeliver, workVars
  <2>5. ASSUME NEW r \in Rows, Publish(r), UNCHANGED task PROVE Delivery'
    BY <2>5 DEF Publish, FreshTasks
  <2>6. ASSUME UNCHANGED <<broker, task>> PROVE Delivery'
    BY <2>6
  <2>7. CASE Request
    BY <2>6, <2>7 DEF Request, AddSource, Reindex, CancelBegin, RemoveSource,
          SourceChanges, brokerVars, workVars
  <2>8. CASE FinishRequest
    BY <2>5, <2>6, <2>8 DEF FinishRequest, Dispatch, DispatchFails, BalanceRefused,
          CancelEnd, brokerVars, workVars
  <2>9. ASSUME NEW w \in Workers, Requeue(w) PROVE Delivery'
    BY <2>5, <2>6, <2>9 DEF Requeue, Goto, brokerVars
  <2>10. ASSUME NEW w \in Workers,
                \/ Check(w) \/ Reject(w) \/ Claim(w) \/ ClearArtifacts(w)
                \/ WriteArtifacts(w) \/ CommitIndexed(w) \/ RunFails(w)
                \/ StorageFails(w) \/ SideEffects(w)
         PROVE  Delivery'
    BY <2>6, <2>10 DEF Check, Reject, Claim, ClearArtifacts, WriteArtifacts,
          CommitIndexed, RunFails, StorageFails, SideEffects, Goto, brokerVars
  <2>11. ASSUME NEW r \in Rows, AgeInTime(r) PROVE Delivery'
    BY <2>6, <2>11 DEF AgeInTime, Age, brokerVars, workVars
  <2>12. ASSUME NEW repliers \in SUBSET Workers, Collect(repliers) PROVE Delivery'
    BY <2>6, <2>12 DEF Collect, vars, brokerVars, workVars
  <2>13. CASE SelectOrphans \/ FailExhausted \/ ResetOrphans \/ WatchdogCrash
    BY <2>6, <2>13 DEF SelectOrphans, FailExhausted, ResetOrphans, WatchdogCrash,
          vars, brokerVars, workVars
  <2>14. ASSUME NEW r \in Rows, Redispatch(r) PROVE Delivery'
    BY <2>5, <2>6, <2>14 DEF Redispatch, brokerVars, workVars
  <2>15. CASE UNCHANGED allVars
    BY <2>6, <2>15 DEF allVars, vars, brokerVars, workVars
  <2>16. ASSUME NEW w \in Workers, Run(w) PROVE Delivery'
    BY <2>1, <2>2, <2>9, <2>10, <2>16 DEF Run
  <2> QED
    BY <2>3, <2>4, <2>7, <2>8, <2>11, <2>12, <2>13, <2>14, <2>15, <2>16
       DEF SystemNext, Step, Tick
<1> QED BY <1>1, <1>2, TypeCorrect, PTL DEF SystemSpec

\* At most one run between its claim and its last write owns a row, whatever the
\* routes, the reconciler and the crashes do.
THEOREM SingleOwner == ASSUME ~LiveRedelivery PROVE SystemSpec => []OneOwner
<1>1. AllTypeOK /\ Delivery => OneOwner
  BY IndexingAssumption DEF AllTypeOK, TypeOK, Delivery, OneOwner, Owns, Owning
<1> QED BY <1>1, TypeCorrect, DeliveryInvariant, PTL

-----------------------------------------------------------------------------
(* Bounded attempts *)

\* What keeps AttemptsBound: a row that waits may still be claimed once, and an
\* orphan the tick has read below the bound, and not yet reset, has come at most
\* one claim closer to it.
AttemptsInv ==
    /\ AttemptsBound
    /\ \A r \in Rows : status[r] = "pending" => attempts[r] <= MaxAttempts
    /\ tick \in {"selected", "failed"} =>
         \A r \in recoverable :
            /\ attempts[r] <= MaxAttempts
            /\ status[r] = "pending" => attempts[r] < MaxAttempts

\* A row is claimed at most MAX_ATTEMPTS + 1 times between two requests of the
\* user, whatever fails, is delivered twice or is recovered.
THEOREM BoundedAttempts == SystemSpec => []AttemptsBound
<1>1. SystemInit => AttemptsInv
  BY IndexingAssumption DEF SystemInit, Init, WdInit, AttemptsInv, AttemptsBound
<1>2. AllTypeOK /\ AttemptsInv /\ [SystemNext]_allVars => AttemptsInv'
  <2> SUFFICES ASSUME AllTypeOK, AttemptsInv, [SystemNext]_allVars PROVE AttemptsInv'
    OBVIOUS
  <2> USE IndexingAssumption DEF AllTypeOK, TypeOK, WdTypeOK, AttemptsInv, AttemptsBound
  <2>1. ASSUME UNCHANGED <<status, attempts, tick, recoverable>> PROVE AttemptsInv'
    BY <2>1
  <2>2. ASSUME NEW r \in Rows, Reset(r), UNCHANGED <<tick, recoverable>> PROVE AttemptsInv'
    BY <2>2 DEF Reset
  <2>3. ASSUME NEW r \in Rows, NEW s, s # "pending", status' = [status EXCEPT ![r] = s],
               UNCHANGED <<attempts, tick, recoverable>>
        PROVE  AttemptsInv'
    BY <2>3
  <2>4. CASE Request /\ UNCHANGED wdVars
    <3>1. ASSUME NEW r \in Rows, RemoveSource(r) PROVE AttemptsInv'
      BY <2>4, <3>1 DEF RemoveSource, wdVars
    <3> QED BY <2>1, <2>2, <2>4, <3>1 DEF Request, AddSource, Reindex, CancelBegin,
               SourceChanges, rowVars, wdVars
  <2>5. CASE FinishRequest /\ UNCHANGED wdVars
    <3>1. ASSUME NEW d \in dispatching, DispatchFails(d) PROVE AttemptsInv'
      BY <2>1, <2>3, <2>5, <3>1 DEF DispatchFails, wdVars
    <3> QED BY <2>1, <2>3, <2>5, <3>1 DEF FinishRequest, Dispatch, BalanceRefused,
               CancelEnd, rowVars, wdVars
  <2>6. ASSUME NEW w \in Workers, Run(w), UNCHANGED wdVars PROVE AttemptsInv'
    <3> USE <2>6 DEF wdVars, RowOf
    <3>1. CASE Claim(w)
      <4>1. RowOf(w) \in Rows
        BY <3>1 DEF Claim
      <4>2. CASE status[RowOf(w)] = "pending"
        <5>1. /\ status' = [status EXCEPT ![RowOf(w)] = "indexing"]
              /\ attempts' = [attempts EXCEPT ![RowOf(w)] = @ + 1]
          BY <3>1, <4>2 DEF Claim
        <5>2. /\ attempts[RowOf(w)] \in Nat
              /\ attempts[RowOf(w)] <= MaxAttempts
              /\ attempts'[RowOf(w)] = attempts[RowOf(w)] + 1
              /\ status'[RowOf(w)] = "indexing"
          BY <4>1, <4>2, <5>1
        <5>3. \A r \in Rows : r # RowOf(w) => /\ attempts'[r] = attempts[r]
                                              /\ status'[r] = status[r]
          BY <5>1
        <5> QED BY <4>1, <4>2, <5>2, <5>3
      <4>3. CASE status[RowOf(w)] # "pending"
        BY <2>1, <3>1, <4>3 DEF Claim, rowVars
      <4> QED BY <4>2, <4>3
    <3>2. CASE StorageFails(w)
      BY <3>2 DEF StorageFails, Owns
    <3>3. CASE Reject(w) \/ CommitIndexed(w) \/ RunFails(w)
      <4>1. RowOf(w) \in Rows
        BY <3>3 DEF Reject, CommitIndexed, RunFails, Owning
      <4> QED BY <2>1, <2>3, <3>3, <4>1 DEF Reject, CommitIndexed, RunFails
    <3> QED BY <2>1, <3>1, <3>2, <3>3 DEF Run, Fetch, Check, ClearArtifacts,
               WriteArtifacts, Requeue, SideEffects, Acknowledge, rowVars
  <2>7. CASE \/ \E w \in Workers : Crash(w) /\ UNCHANGED wdVars
             \/ \E t \in Tasks : Redeliver(t) /\ UNCHANGED wdVars
             \/ \E r \in Rows : AgeInTime(r) /\ UNCHANGED wdVars
             \/ UNCHANGED allVars
    BY <2>1, <2>7 DEF Crash, Redeliver, AgeInTime, Age, rowVars, wdVars, allVars, vars
  <2>8. ASSUME NEW repliers \in SUBSET Workers, Collect(repliers) PROVE AttemptsInv'
    BY <2>8 DEF Collect, vars, rowVars
  <2>9. CASE SelectOrphans
    BY <2>9 DEF SelectOrphans, vars, rowVars
  <2>10. CASE FailExhausted
    BY <2>10 DEF FailExhausted
  <2>11. CASE ResetOrphans
    BY <2>11 DEF ResetOrphans
  <2>12. ASSUME NEW r \in Rows, Redispatch(r) PROVE AttemptsInv'
    BY <2>12 DEF Redispatch, rowVars
  <2>13. CASE WatchdogCrash
    BY <2>13 DEF WatchdogCrash, rowVars
  <2> QED
    BY <2>4, <2>5, <2>6, <2>7, <2>8, <2>9, <2>10, <2>11, <2>12, <2>13
       DEF SystemNext, Step, Tick
<1>3. AttemptsInv => AttemptsBound
  BY DEF AttemptsInv
<1> QED BY <1>1, <1>2, <1>3, TypeCorrect, PTL DEF SystemSpec

-----------------------------------------------------------------------------
(* One result per request *)

\* What keeps OneResult: once a result is committed nobody may commit another,
\* because nobody owns the row on the way to it and nobody can come to own it.
ResultInv ==
    /\ OneResult
    /\ \A r \in Rows : status[r] \in {"pending", "indexing"} => results[r] = 0
    /\ \A w \in Workers : pc[w] \in Owning /\ Owns(w) => results[RowOf(w)] = 0

\* It is an invariant when no live delivery is handed out again.
LEMMA ResultInvariant == ASSUME ~LiveRedelivery PROVE SystemSpec => []ResultInv
<1>1. SystemInit => ResultInv
  BY DEF SystemInit, Init, ResultInv, OneResult, Owning
<1>2. AllTypeOK /\ Delivery /\ ResultInv /\ [SystemNext]_allVars => ResultInv'
  <2> SUFFICES ASSUME AllTypeOK, Delivery, ResultInv, [SystemNext]_allVars
               PROVE  ResultInv'
    OBVIOUS
  <2> USE IndexingAssumption DEF AllTypeOK, TypeOK, Delivery, Running, ResultInv,
          OneResult, Owns, Owning, RowOf, Present, Absent
  \* A worker that comes to own nothing new sees its row's result unchanged.
  <2>1. ASSUME UNCHANGED <<status, owner, results, msg, task>>,
               \A w \in Workers : pc'[w] \in Owning => pc[w] \in Owning
        PROVE  ResultInv'
    BY <2>1
  <2>2. ASSUME NEW r \in Rows, NEW s, s \notin {"pending", "indexing"},
               status' = [status EXCEPT ![r] = s],
               Present(r), UNCHANGED <<owner, results, msg, task>>,
               \A w \in Workers : pc'[w] \in Owning => pc[w] \in Owning
        PROVE  ResultInv'
    BY <2>2
  <2>3. ASSUME NEW r \in Rows, Reset(r), UNCHANGED <<msg, task, pc>> PROVE ResultInv'
    BY <2>3 DEF Reset
  <2>4. ASSUME NEW r \in Rows, Publish(r), UNCHANGED <<status, owner, results, task>>,
               \A w \in Workers : pc'[w] \in Owning => pc[w] \in Owning
        PROVE  ResultInv'
    BY <2>4 DEF Publish, FreshTasks
  <2>5. CASE Request /\ UNCHANGED wdVars
    <3>1. ASSUME NEW r \in Rows, RemoveSource(r) PROVE ResultInv'
      BY <3>1 DEF RemoveSource, workVars
    <3> QED BY <2>1, <2>3, <2>5, <3>1 DEF Request, AddSource, Reindex, CancelBegin,
               SourceChanges, rowVars, brokerVars, workVars
  <2>6. CASE FinishRequest /\ UNCHANGED wdVars
    <3>1. ASSUME NEW d \in dispatching, DispatchFails(d) PROVE ResultInv'
      BY <2>1, <2>2, <3>1 DEF DispatchFails, brokerVars, workVars
    <3>2. ASSUME NEW d \in dispatching, Dispatch(d) PROVE ResultInv'
      BY <2>4, <3>2 DEF Dispatch, rowVars, workVars
    <3>3. ASSUME NEW r \in Rows, CancelEnd(r) PROVE ResultInv'
      BY <2>1, <2>2, <3>3 DEF CancelEnd, brokerVars, workVars
    <3> QED BY <2>1, <2>6, <3>1, <3>2, <3>3 DEF FinishRequest, BalanceRefused,
               rowVars, brokerVars, workVars
  <2>7. ASSUME NEW w \in Workers, Run(w), UNCHANGED wdVars PROVE ResultInv'
    <3> USE <2>7 DEF wdVars, Goto
    <3>1. ASSUME NEW t \in Tasks, Fetch(w, t) PROVE ResultInv'
      BY <3>1 DEF Fetch, Retire, rowVars, workVars
    <3>2. CASE Claim(w)
      BY <3>2 DEF Claim, rowVars, brokerVars
    <3>3. CASE CommitIndexed(w)
      <4>1. CASE Owns(w)
        <5>1. /\ RowOf(w) \in Rows
              /\ results[RowOf(w)] = 0
              /\ results' = [results EXCEPT ![RowOf(w)] = 1]
              /\ status' = [status EXCEPT ![RowOf(w)] = "indexed"]
              /\ pc' = [pc EXCEPT ![w] = "committed"]
              /\ UNCHANGED <<owner, msg, task>>
          BY <3>3, <4>1 DEF CommitIndexed, More, brokerVars
        <5>2. \A v \in Workers \ {w} :
                 pc[v] \in Owning /\ Owns(v) => RowOf(v) # RowOf(w)
          BY <4>1, <3>3 DEF CommitIndexed
        <5>3. OneResult'
          BY <5>1
        <5>4. \A r \in Rows : status'[r] \in {"pending", "indexing"} => results'[r] = 0
          BY <5>1
        <5>5. ASSUME NEW v \in Workers, pc'[v] \in Owning, Owns(v)'
              PROVE  results'[RowOf(v)'] = 0
          <6>1. v # w /\ pc[v] \in Owning /\ RowOf(v)' = RowOf(v) /\ RowOf(v) \in Rows
            BY <5>1, <5>5
          <6>2. Owns(v)
            BY <4>1, <5>1, <5>5, <6>1
          <6> QED BY <5>1, <5>2, <6>1, <6>2
        <5> QED BY <5>3, <5>4, <5>5
      <4>2. CASE ~Owns(w)
        BY <2>1, <3>3, <4>2 DEF CommitIndexed, brokerVars
      <4> QED BY <4>1, <4>2
    <3>4. CASE Reject(w) \/ RunFails(w)
      BY <2>1, <2>2, <3>4 DEF Reject, RunFails, brokerVars
    <3>5. CASE StorageFails(w)
      BY <3>5 DEF StorageFails, brokerVars
    <3>6. CASE Requeue(w)
      <4>1. RowOf(w) \in Rows
        BY <3>6 DEF Requeue
      <4> QED BY <2>1, <2>4, <3>6, <4>1 DEF Requeue, rowVars, brokerVars
    <3>7. CASE Acknowledge(w)
      BY <3>7 DEF Acknowledge, Retire, rowVars, brokerVars
    <3>8. CASE Check(w) \/ SideEffects(w) \/ ClearArtifacts(w) \/ WriteArtifacts(w)
      BY <2>1, <3>8 DEF Check, SideEffects, ClearArtifacts, WriteArtifacts, rowVars,
            brokerVars
    <3> QED BY <3>1, <3>2, <3>3, <3>4, <3>5, <3>6, <3>7, <3>8 DEF Run
  <2>8. ASSUME NEW w \in Workers, Crash(w) PROVE ResultInv'
    BY <2>8 DEF Crash, rowVars, brokerVars
  <2>9. CASE \/ \E t \in Tasks : Redeliver(t) /\ UNCHANGED wdVars
             \/ \E r \in Rows : AgeInTime(r) /\ UNCHANGED wdVars
             \/ \E repliers \in SUBSET Workers : Collect(repliers)
             \/ SelectOrphans
             \/ WatchdogCrash
             \/ UNCHANGED allVars
    BY <2>1, <2>9 DEF Redeliver, AgeInTime, Age, Collect, SelectOrphans, WatchdogCrash,
          rowVars, brokerVars, workVars, allVars, vars
  <2>10. CASE FailExhausted
    BY <2>10 DEF FailExhausted, brokerVars, workVars
  <2>11. CASE ResetOrphans
    BY <2>11 DEF ResetOrphans, brokerVars, workVars
  <2>12. ASSUME NEW r \in Rows, Redispatch(r) PROVE ResultInv'
    BY <2>1, <2>4, <2>12 DEF Redispatch, rowVars, brokerVars, workVars
  <2> QED
    BY <2>5, <2>6, <2>7, <2>8, <2>9, <2>10, <2>11, <2>12 DEF SystemNext, Step, Tick
<1> QED BY <1>1, <1>2, TypeCorrect, DeliveryInvariant, PTL DEF SystemSpec

\* A request of the user to index a source commits at most one result, however
\* often its task is delivered, retried or recovered.
THEOREM SingleResult == ASSUME ~LiveRedelivery PROVE SystemSpec => []OneResult
<1>1. ResultInv => OneResult
  BY DEF ResultInv
<1> QED BY <1>1, ResultInvariant, PTL

-----------------------------------------------------------------------------
(* Artifacts *)

\* What keeps NoDuplicates: whoever owns a row it has cleared finds it still
\* empty when it commits, because nobody else can commit meanwhile.
CopiesInv ==
    /\ \A r \in Rows : copies[r] <= 1
    /\ \A w \in Workers : pc[w] = "cleared" /\ Owns(w) => copies[RowOf(w)] = 0

\* With a strategy whose artifacts are in the transaction of the fenced write, an
\* indexed row never holds the artifacts of two runs.
THEOREM NoDuplicateArtifacts ==
    ASSUME ~LiveRedelivery, ~EarlyCommit PROVE SystemSpec => []NoDuplicates
<1>1. SystemInit => CopiesInv
  BY DEF SystemInit, Init, CopiesInv
<1>2. AllTypeOK /\ Delivery /\ CopiesInv /\ [SystemNext]_allVars => CopiesInv'
  <2> SUFFICES ASSUME AllTypeOK, Delivery, CopiesInv, [SystemNext]_allVars
               PROVE  CopiesInv'
    OBVIOUS
  <2> USE IndexingAssumption DEF AllTypeOK, TypeOK, Delivery, Running, CopiesInv,
          Owns, Owning, RowOf, Present, Absent
  \* Nobody comes to own a row it has cleared.
  <2>1. ASSUME UNCHANGED <<copies, msg, task>>,
               \A w \in Workers : pc'[w] = "cleared" => pc[w] = "cleared",
               \A w \in Workers : pc[w] = "cleared" /\ Owns(w)' => Owns(w)
        PROVE  CopiesInv'
    BY <2>1
  <2>2. ASSUME NEW r \in Rows, Publish(r), UNCHANGED <<status, owner, copies, task>>,
               \A w \in Workers : pc'[w] = "cleared" => pc[w] = "cleared"
        PROVE  CopiesInv'
    BY <2>2 DEF Publish, FreshTasks
  <2>3. CASE Request /\ UNCHANGED wdVars
    <3>1. ASSUME NEW r \in Rows, Reset(r), UNCHANGED <<copies, msg, task, pc>>
          PROVE  CopiesInv'
      BY <3>1 DEF Reset
    <3>2. ASSUME NEW r \in Rows, RemoveSource(r) PROVE CopiesInv'
      BY <3>2 DEF RemoveSource, workVars
    <3> QED BY <2>1, <2>3, <3>1, <3>2 DEF Request, AddSource, Reindex, CancelBegin,
               SourceChanges, rowVars, brokerVars, workVars
  <2>4. CASE FinishRequest /\ UNCHANGED wdVars
    <3>1. ASSUME NEW d \in dispatching, DispatchFails(d) PROVE CopiesInv'
      BY <2>1, <3>1 DEF DispatchFails, brokerVars, workVars
    <3>2. ASSUME NEW d \in dispatching, Dispatch(d) PROVE CopiesInv'
      BY <2>2, <3>2 DEF Dispatch, rowVars, workVars
    <3>3. ASSUME NEW r \in Rows, CancelEnd(r) PROVE CopiesInv'
      BY <2>1, <3>3 DEF CancelEnd, brokerVars, workVars
    <3> QED BY <2>1, <2>4, <3>1, <3>2, <3>3 DEF FinishRequest, BalanceRefused,
               rowVars, brokerVars, workVars
  <2>5. ASSUME NEW w \in Workers, Run(w), UNCHANGED wdVars PROVE CopiesInv'
    <3> USE <2>5 DEF wdVars, Goto
    <3>1. ASSUME NEW t \in Tasks, Fetch(w, t) PROVE CopiesInv'
      BY <3>1 DEF Fetch, Retire, rowVars, workVars
    <3>2. CASE Claim(w)
      BY <3>2 DEF Claim, rowVars, brokerVars
    <3>3. CASE ClearArtifacts(w)
      BY <3>3 DEF ClearArtifacts, rowVars, brokerVars
    <3>4. CASE CommitIndexed(w)
      <4>1. CASE Owns(w)
        <5>1. /\ RowOf(w) \in Rows
              /\ copies[RowOf(w)] = 0
              /\ copies' = [copies EXCEPT ![RowOf(w)] = 1]
              /\ status' = [status EXCEPT ![RowOf(w)] = "indexed"]
              /\ pc' = [pc EXCEPT ![w] = "committed"]
              /\ UNCHANGED <<owner, msg, task>>
          BY <3>4, <4>1 DEF CommitIndexed, More, brokerVars
        <5>2. \A r \in Rows : copies'[r] <= 1
          BY <5>1
        <5>3. ASSUME NEW v \in Workers, pc'[v] = "cleared", Owns(v)'
              PROVE  copies'[RowOf(v)'] = 0
          <6>1. v # w /\ pc[v] = "cleared" /\ RowOf(v)' = RowOf(v) /\ RowOf(v) \in Rows
            BY <5>1, <5>3
          <6>2. Owns(v)
            BY <4>1, <5>1, <5>3, <6>1
          <6>3. RowOf(v) # RowOf(w)
            BY <3>4, <4>1, <6>1, <6>2 DEF CommitIndexed
          <6> QED BY <5>1, <6>1, <6>2, <6>3
        <5> QED BY <5>2, <5>3
      <4>2. CASE ~Owns(w)
        BY <2>1, <3>4, <4>2 DEF CommitIndexed, brokerVars
      <4> QED BY <4>1, <4>2
    <3>5. CASE Reject(w) \/ RunFails(w)
      BY <2>1, <3>5 DEF Reject, RunFails, brokerVars
    <3>6. CASE StorageFails(w)
      BY <3>6 DEF StorageFails, brokerVars
    <3>7. CASE Requeue(w)
      <4>1. RowOf(w) \in Rows
        BY <3>7 DEF Requeue
      <4> QED BY <2>1, <2>2, <3>7, <4>1 DEF Requeue, rowVars, brokerVars
    <3>8. CASE Acknowledge(w)
      BY <3>8 DEF Acknowledge, Retire, rowVars, brokerVars
    <3>9. CASE Check(w) \/ SideEffects(w)
      BY <2>1, <3>9 DEF Check, SideEffects, rowVars, brokerVars
    <3>10. CASE WriteArtifacts(w)
      BY <3>10 DEF WriteArtifacts
    <3> QED BY <3>1, <3>2, <3>3, <3>4, <3>5, <3>6, <3>7, <3>8, <3>9, <3>10 DEF Run
  <2>6. ASSUME NEW w \in Workers, Crash(w) PROVE CopiesInv'
    BY <2>6 DEF Crash, rowVars, brokerVars
  <2>7. CASE \/ \E t \in Tasks : Redeliver(t) /\ UNCHANGED wdVars
             \/ \E r \in Rows : AgeInTime(r) /\ UNCHANGED wdVars
             \/ \E repliers \in SUBSET Workers : Collect(repliers)
             \/ SelectOrphans
             \/ WatchdogCrash
             \/ UNCHANGED allVars
    BY <2>1, <2>7 DEF Redeliver, AgeInTime, Age, Collect, SelectOrphans, WatchdogCrash,
          rowVars, brokerVars, workVars, allVars, vars
  <2>8. CASE FailExhausted
    BY <2>8 DEF FailExhausted, brokerVars, workVars
  <2>9. CASE ResetOrphans
    BY <2>9 DEF ResetOrphans, brokerVars, workVars
  <2>10. ASSUME NEW r \in Rows, Redispatch(r) PROVE CopiesInv'
    BY <2>1, <2>2, <2>10 DEF Redispatch, rowVars, brokerVars, workVars
  <2> QED
    BY <2>3, <2>4, <2>5, <2>6, <2>7, <2>8, <2>9, <2>10 DEF SystemNext, Step, Tick
<1>3. CopiesInv => NoDuplicates
  BY DEF CopiesInv, NoDuplicates
<1> QED BY <1>1, <1>2, <1>3, TypeCorrect, DeliveryInvariant, PTL DEF SystemSpec

-----------------------------------------------------------------------------
(* Removed rows *)

\* Nothing is left of a removed row, and nothing is there before it: a run that
\* lost its row writes nothing, however early its strategy commits.
THEOREM RemovedRowsEmpty == SystemSpec => []RemovedIsEmpty
<1>1. SystemInit => RemovedIsEmpty
  BY DEF SystemInit, Init, RemovedIsEmpty
<1>2. AllTypeOK /\ RemovedIsEmpty /\ [SystemNext]_allVars => RemovedIsEmpty'
  <2> SUFFICES ASSUME AllTypeOK, RemovedIsEmpty, [SystemNext]_allVars PROVE RemovedIsEmpty'
    OBVIOUS
  <2> USE DEF AllTypeOK, TypeOK, RemovedIsEmpty, Present, Absent
  \* A step that fills nothing and takes no row away.
  <2>1. ASSUME copies' = copies, \A r \in Rows : status'[r] \in {"none", "removed"} => status'[r] = status[r]
        PROVE  RemovedIsEmpty'
    BY <2>1
  <2>2. CASE Request
    <3>1. ASSUME NEW r \in Rows, RemoveSource(r) PROVE RemovedIsEmpty'
      BY <3>1 DEF RemoveSource
    <3>2. ASSUME NEW r \in Rows, AddSource(r) \/ Reindex(r) PROVE RemovedIsEmpty'
      BY <2>1, <3>2 DEF AddSource, Reindex, Reset
    <3>3. ASSUME NEW r \in Rows, CancelBegin(r) \/ SourceChanges(r) PROVE RemovedIsEmpty'
      BY <2>1, <3>3 DEF CancelBegin, SourceChanges, rowVars
    <3> QED BY <2>2, <3>1, <3>2, <3>3 DEF Request
  <2>3. CASE FinishRequest
    BY <2>1, <2>3 DEF FinishRequest, Dispatch, DispatchFails, BalanceRefused, CancelEnd, rowVars
  <2>4. ASSUME NEW w \in Workers, Run(w) PROVE RemovedIsEmpty'
    <3>1. CASE ClearArtifacts(w) \/ WriteArtifacts(w)
      BY <3>1 DEF ClearArtifacts, WriteArtifacts, rowVars
    <3>2. CASE CommitIndexed(w)
      <4>1. CASE Owns(w)
        <5>1. RowOf(w) \in Rows /\ Present(RowOf(w))
          BY <3>2, <4>1 DEF CommitIndexed, Owns
        <5>2. status' = [status EXCEPT ![RowOf(w)] = "indexed"]
          BY <3>2, <4>1 DEF CommitIndexed
        <5>3. \A r \in Rows : r # RowOf(w) => copies'[r] = copies[r]
          BY <3>2, <4>1 DEF CommitIndexed
        <5> QED BY <5>1, <5>2, <5>3
      <4>2. CASE ~Owns(w)
        BY <2>1, <3>2, <4>2 DEF CommitIndexed
      <4> QED BY <4>1, <4>2
    <3>3. CASE Reject(w) \/ Claim(w) \/ RunFails(w) \/ StorageFails(w)
      BY <2>1, <3>3 DEF Reject, Claim, RunFails, StorageFails, rowVars
    <3>4. CASE (\E t \in Tasks : Fetch(w, t)) \/ Check(w) \/ Requeue(w) \/ SideEffects(w) \/ Acknowledge(w)
      BY <2>1, <3>4 DEF Fetch, Check, Requeue, SideEffects, Acknowledge, rowVars
    <3> QED BY <2>4, <3>1, <3>2, <3>3, <3>4 DEF Run
  <2>5. CASE \/ \E w \in Workers : Crash(w)
             \/ \E t \in Tasks : Redeliver(t)
             \/ \E r \in Rows : AgeInTime(r)
             \/ \E repliers \in SUBSET Workers : Collect(repliers)
             \/ SelectOrphans \/ (\E r \in Rows : Redispatch(r)) \/ WatchdogCrash \/ UNCHANGED allVars
    BY <2>1, <2>5 DEF Crash, Redeliver, AgeInTime, Age, Collect, SelectOrphans, Redispatch, WatchdogCrash, allVars, vars, rowVars
  <2>6. CASE FailExhausted \/ ResetOrphans
    BY <2>1, <2>6 DEF FailExhausted, ResetOrphans
  <2> QED BY <2>2, <2>3, <2>4, <2>5, <2>6 DEF SystemNext, Step, Tick
<1> QED BY <1>1, <1>2, TypeCorrect, PTL DEF SystemSpec

-----------------------------------------------------------------------------
(* Indexed rows stay indexed *)

\* A row is indexed by a result, which whoever still owns a row has not given; and
\* while no source leaves "extracted" nobody is on the way to refuse a row.
IndexedInv ==
    /\ \A r \in Rows : ready[r] /\ (status[r] = "indexed" => results[r] > 0)
    /\ \A w \in Workers : pc[w] # "reject"

\* It is an invariant as long as sources are not extracted again.
LEMMA IndexedInvariant == ASSUME "reextract" \notin Routes PROVE SystemSpec => []IndexedInv
<1>1. SystemInit => IndexedInv
  BY DEF SystemInit, Init, IndexedInv
<1>2. AllTypeOK /\ IndexedInv /\ [SystemNext]_allVars => IndexedInv'
  <2> SUFFICES ASSUME AllTypeOK, IndexedInv, [SystemNext]_allVars PROVE IndexedInv'
    OBVIOUS
  <2> USE DEF AllTypeOK, TypeOK, IndexedInv
  <2>1. ASSUME UNCHANGED <<results, ready>>, \A r \in Rows : status'[r] = "indexed" => status[r] = "indexed",
               \A w \in Workers : pc'[w] = "reject" => pc[w] = "reject"
        PROVE  IndexedInv'
    BY <2>1
  <2>2. CASE Request
    BY <2>1, <2>2 DEF Request, AddSource, Reindex, Reset, CancelBegin, RemoveSource, SourceChanges, rowVars, workVars
  <2>3. CASE FinishRequest
    BY <2>1, <2>3 DEF FinishRequest, Dispatch, DispatchFails, BalanceRefused, CancelEnd, rowVars, workVars
  <2>4. ASSUME NEW w \in Workers, Run(w) PROVE IndexedInv'
    <3>1. CASE CommitIndexed(w)
      <4>1. pc' = [pc EXCEPT ![w] = "committed"] \/ pc' = [pc EXCEPT ![w] = "done"]
        BY <3>1 DEF CommitIndexed, Goto
      <4>2. CASE Owns(w)
        <5>1. RowOf(w) \in Rows /\ results[RowOf(w)] \in 0..2
          BY <3>1 DEF CommitIndexed
        <5>2. results' = [results EXCEPT ![RowOf(w)] = More(results[RowOf(w)])] /\ More(results[RowOf(w)]) > 0
          BY <3>1, <4>2, <5>1 DEF CommitIndexed, More
        <5>3. status' = [status EXCEPT ![RowOf(w)] = "indexed"] /\ ready' = ready
          BY <3>1, <4>2 DEF CommitIndexed
        <5> QED BY <4>1, <5>1, <5>2, <5>3
      <4>3. CASE ~Owns(w)
        BY <2>1, <3>1, <4>1, <4>3 DEF CommitIndexed
      <4> QED BY <4>2, <4>3
    <3>2. CASE Check(w)
      BY <2>1, <3>2 DEF Check, Goto, rowVars
    <3>3. CASE Claim(w)
      BY <2>1, <3>3 DEF Claim, Goto, rowVars
    <3>4. CASE ClearArtifacts(w) \/ WriteArtifacts(w) \/ RunFails(w) \/ StorageFails(w)
      BY <2>1, <3>4 DEF ClearArtifacts, WriteArtifacts, RunFails, StorageFails, Goto, rowVars
    <3>5. CASE (\E t \in Tasks : Fetch(w, t)) \/ Requeue(w) \/ SideEffects(w) \/ Acknowledge(w)
      BY <2>1, <3>5 DEF Fetch, Requeue, SideEffects, Acknowledge, Goto, rowVars, workVars
    <3>6. ~Reject(w)
      BY DEF Reject
    <3> QED BY <2>4, <3>1, <3>2, <3>3, <3>4, <3>5, <3>6 DEF Run
  <2>5. CASE \/ \E w \in Workers : Crash(w)
             \/ \E t \in Tasks : Redeliver(t)
             \/ \E r \in Rows : AgeInTime(r)
             \/ \E repliers \in SUBSET Workers : Collect(repliers)
             \/ SelectOrphans \/ (\E r \in Rows : Redispatch(r)) \/ WatchdogCrash \/ UNCHANGED allVars
    BY <2>1, <2>5 DEF Crash, Redeliver, AgeInTime, Age, Collect, SelectOrphans, Redispatch, WatchdogCrash, allVars, vars, rowVars, workVars
  <2>6. CASE FailExhausted
    <3>1. \A r \in Rows : status'[r] = "indexed" => status[r] = "indexed"
      BY <2>6 DEF FailExhausted
    <3>2. UNCHANGED <<results, ready, pc>>
      BY <2>6 DEF FailExhausted, workVars
    <3> QED BY <2>1, <3>1, <3>2
  <2>7. CASE ResetOrphans
    <3>1. \A r \in Rows : status'[r] = "indexed" => status[r] = "indexed"
      BY <2>7 DEF ResetOrphans
    <3>2. UNCHANGED <<results, ready, pc>>
      BY <2>7 DEF ResetOrphans, workVars
    <3> QED BY <2>1, <3>1, <3>2
  <2> QED BY <2>7, <2>2, <2>3, <2>4, <2>5, <2>6 DEF SystemNext, Step, Tick
<1> QED BY <1>1, <1>2, TypeCorrect, PTL DEF SystemSpec

\* An indexed row stays indexed until the user asks for something else, when
\* publishing does not fail, sources are not extracted again, and a live delivery
\* is not handed out a second time.
THEOREM IndexedStaysSo ==
    ASSUME ~LiveRedelivery, ~Faults, "reextract" \notin Routes PROVE SystemSpec => IndexedStays
<1> DEFINE Stays == \A r \in Rows : status[r] = "indexed" =>
                       \/ status'[r] \in {"indexed", "cancelled", "removed"}
                       \/ status'[r] = "pending" /\ attempts'[r] = 0
<1>1. AllTypeOK /\ ResultInv /\ IndexedInv /\ [SystemNext]_allVars => Stays
  <2> SUFFICES ASSUME AllTypeOK, ResultInv, IndexedInv, [SystemNext]_allVars, NEW r \in Rows, status[r] = "indexed"
               PROVE  status'[r] \in {"indexed", "cancelled", "removed"} \/ (status'[r] = "pending" /\ attempts'[r] = 0)
    OBVIOUS
  <2> USE DEF AllTypeOK, TypeOK
  <2>1. CASE Request
    BY <2>1 DEF Request, AddSource, Reindex, Reset, CancelBegin, RemoveSource, SourceChanges, rowVars
  <2>2. CASE FinishRequest
    BY <2>2 DEF FinishRequest, Dispatch, DispatchFails, BalanceRefused, CancelEnd, rowVars
  <2>3. ASSUME NEW w \in Workers, Run(w) PROVE status'[r] = "indexed"
    <3>1. CASE RunFails(w) \/ StorageFails(w)
      <4>1. Owns(w) => RowOf(w) # r
        BY <3>1 DEF RunFails, StorageFails, ResultInv, IndexedInv
      <4> QED BY <3>1, <4>1 DEF RunFails, StorageFails
    <3>2. CASE Claim(w)
      BY <3>2 DEF Claim, rowVars
    <3>3. CASE CommitIndexed(w)
      BY <3>3 DEF CommitIndexed
    <3>4. ~Reject(w)
      BY DEF Reject, IndexedInv
    <3>5. CASE (\E t \in Tasks : Fetch(w, t)) \/ Check(w) \/ ClearArtifacts(w) \/ WriteArtifacts(w) \/ Requeue(w) \/ SideEffects(w) \/ Acknowledge(w)
      BY <3>5 DEF Fetch, Check, ClearArtifacts, WriteArtifacts, Requeue, SideEffects, Acknowledge, rowVars
    <3> QED BY <2>3, <3>1, <3>2, <3>3, <3>4, <3>5 DEF Run
  <2>4. CASE \/ \E w \in Workers : Crash(w)
             \/ \E t \in Tasks : Redeliver(t)
             \/ \E q \in Rows : AgeInTime(q)
             \/ \E repliers \in SUBSET Workers : Collect(repliers)
             \/ SelectOrphans \/ (\E q \in Rows : Redispatch(q)) \/ WatchdogCrash \/ UNCHANGED allVars
    BY <2>4 DEF Crash, Redeliver, AgeInTime, Age, Collect, SelectOrphans, Redispatch, WatchdogCrash, allVars, vars, rowVars
  <2>5. CASE FailExhausted \/ ResetOrphans
    BY <2>5 DEF FailExhausted, ResetOrphans
  <2> QED BY <2>1, <2>2, <2>3, <2>4, <2>5 DEF SystemNext, Step, Tick
<1>2. SystemSpec => [][Stays]_allVars
  BY <1>1, TypeCorrect, ResultInvariant, IndexedInvariant, PTL DEF SystemSpec
<1> QED BY <1>2 DEF IndexedStays

-----------------------------------------------------------------------------
(* Pending rows are looked after *)

\* Where a message is, as far as it matters to its row: the id a row carries is of
\* a message about that row, or of none; what is revoked is of a removed row; the
\* message of a run is with the run; and a row in indexing has a run's id.
MessagesInv ==
    /\ \A r \in Rows : owner[r] # None => broker[owner[r]] = "acked" \/ msg[owner[r]] = r
    /\ \A t \in revoked : broker[t] = "acked" \/ (msg[t] \in Rows /\ status[msg[t]] = "removed")
    /\ \A w \in Workers : task[w] # None => broker[task[w]] = "unacked"
    /\ \A r \in Rows : status[r] = "indexing" => owner[r] # None

\* It is an invariant when nobody cancels and no live delivery is handed out again.
LEMMA MessagesInvariant ==
    ASSUME ~LiveRedelivery, "cancel" \notin Routes PROVE SystemSpec => []MessagesInv
<1>1. SystemInit => MessagesInv
  BY IndexingAssumption DEF SystemInit, Init, MessagesInv
<1>2. AllTypeOK /\ Delivery /\ MessagesInv /\ [SystemNext]_allVars => MessagesInv'
  <2> SUFFICES ASSUME AllTypeOK, Delivery, MessagesInv, [SystemNext]_allVars PROVE MessagesInv'
    OBVIOUS
  <2> USE IndexingAssumption DEF AllTypeOK, TypeOK, Delivery, Running, MessagesInv, Statuses, Absent
  \* A step of the rows alone, which claims none and brings no removed one back.
  <2>1. ASSUME UNCHANGED <<msg, broker, revoked, task>>,
               \A r \in Rows : /\ owner'[r] \in {owner[r], None}
                               /\ status[r] = "removed" => status'[r] = "removed"
                               /\ status'[r] = "indexing" => owner'[r] # None
        PROVE  MessagesInv'
    BY <2>1
  <2>2. ASSUME NEW r \in Rows, Publish(r), UNCHANGED <<status, owner, task>> PROVE MessagesInv'
    BY <2>2 DEF Publish, FreshTasks
  <2>3. CASE Request
    <3>1. ASSUME NEW r \in Rows, RemoveSource(r) PROVE MessagesInv'
      <4>1. /\ status' = [status EXCEPT ![r] = "removed"]
            /\ owner' = [owner EXCEPT ![r] = None]
            /\ UNCHANGED <<msg, broker, task>>
        BY <3>1 DEF RemoveSource, workVars
      <4>2. \A t \in revoked' : t \in revoked \/ (t = owner[r] /\ t \in Tasks /\ broker[t] # "acked")
        BY <3>1 DEF RemoveSource, Revoke
      <4>3. \A t \in revoked' : broker[t] = "acked" \/ (msg[t] \in Rows /\ status'[msg[t]] = "removed")
        BY <4>1, <4>2
      <4> QED BY <4>1, <4>3
    <3>2. ASSUME NEW r \in Rows, AddSource(r) \/ Reindex(r) PROVE MessagesInv'
      BY <2>1, <3>2 DEF AddSource, Reindex, Reset, Present, brokerVars, workVars
    <3>3. ASSUME NEW r \in Rows, SourceChanges(r) PROVE MessagesInv'
      BY <2>1, <3>3 DEF SourceChanges, rowVars, brokerVars, workVars
    <3> QED BY <2>3, <3>1, <3>2, <3>3 DEF Request, CancelBegin
  <2>4. CASE FinishRequest
    <3>1. ASSUME NEW d \in dispatching, Dispatch(d) PROVE MessagesInv'
      BY <2>2, <3>1 DEF Dispatch, rowVars, workVars
    <3>2. ASSUME NEW d \in dispatching, DispatchFails(d) PROVE MessagesInv'
      BY <2>1, <3>2 DEF DispatchFails, Present, brokerVars, workVars
    <3>3. ASSUME NEW d \in dispatching, BalanceRefused(d) PROVE MessagesInv'
      BY <2>1, <3>3 DEF BalanceRefused, rowVars, brokerVars, workVars
    <3>4. ASSUME NEW r \in Rows, CancelEnd(r) PROVE MessagesInv'
      BY <2>1, <3>4 DEF CancelEnd, Present, brokerVars, workVars
    <3> QED BY <2>4, <3>1, <3>2, <3>3, <3>4 DEF FinishRequest
  <2>5. ASSUME NEW w \in Workers, Run(w) PROVE MessagesInv'
    <3> USE DEF Goto
    <3>1. ASSUME NEW t \in Tasks, Fetch(w, t) PROVE MessagesInv'
      BY <3>1 DEF Fetch, Retire, rowVars, workVars
    <3>2. CASE Claim(w)
      BY <3>2 DEF Claim, RowOf, rowVars, brokerVars
    <3>3. CASE CommitIndexed(w)
      BY <2>1, <3>3 DEF CommitIndexed, Owns, Present, RowOf, brokerVars
    <3>4. CASE Reject(w) \/ RunFails(w)
      BY <2>1, <3>4 DEF Reject, RunFails, Owns, Present, RowOf, brokerVars
    <3>5. CASE StorageFails(w)
      BY <2>1, <3>5 DEF StorageFails, Owns, Present, RowOf, brokerVars
    <3>6. CASE Requeue(w)
      <4>1. RowOf(w) \in Rows
        BY <3>6 DEF Requeue, RowOf
      <4> QED BY <2>1, <2>2, <3>6, <4>1 DEF Requeue, rowVars, brokerVars
    <3>7. CASE Acknowledge(w)
      BY <3>7 DEF Acknowledge, Retire, rowVars, brokerVars
    <3>8. CASE Check(w) \/ ClearArtifacts(w) \/ WriteArtifacts(w) \/ SideEffects(w)
      BY <2>1, <3>8 DEF Check, ClearArtifacts, WriteArtifacts, SideEffects, rowVars, brokerVars
    <3> QED BY <2>5, <3>1, <3>2, <3>3, <3>4, <3>5, <3>6, <3>7, <3>8 DEF Run
  <2>6. ASSUME NEW w \in Workers, Crash(w) PROVE MessagesInv'
    BY <2>6 DEF Crash, rowVars, brokerVars
  <2>7. ASSUME NEW t \in Tasks, Redeliver(t) PROVE MessagesInv'
    BY <2>7 DEF Redeliver, rowVars, workVars
  <2>8. CASE \/ \E r \in Rows : AgeInTime(r)
             \/ \E repliers \in SUBSET Workers : Collect(repliers)
             \/ SelectOrphans \/ WatchdogCrash \/ UNCHANGED allVars
    BY <2>1, <2>8 DEF AgeInTime, Age, Collect, SelectOrphans, WatchdogCrash, allVars, vars, rowVars,
          brokerVars, workVars
  <2>9. CASE FailExhausted \/ ResetOrphans
    <3>1. UNCHANGED <<owner, msg, broker, revoked, task>>
      BY <2>9 DEF FailExhausted, ResetOrphans, brokerVars, workVars
    <3>2. ASSUME NEW r \in Rows
          PROVE  status'[r] = status[r] \/ (status[r] = "indexing" /\ status'[r] \in {"failed", "pending"})
      <4>1. CASE FailExhausted
        BY <4>1 DEF FailExhausted
      <4>2. CASE ResetOrphans
        BY <4>2 DEF ResetOrphans
      <4> QED BY <2>9, <4>1, <4>2
    <3> QED BY <2>1, <3>1, <3>2
  <2>10. ASSUME NEW r \in Rows, Redispatch(r) PROVE MessagesInv'
    BY <2>1, <2>2, <2>10 DEF Redispatch, rowVars, brokerVars, workVars
  <2> QED BY <2>3, <2>4, <2>5, <2>6, <2>7, <2>8, <2>9, <2>10 DEF SystemNext, Step, Tick
<1> QED BY <1>1, <1>2, TypeCorrect, DeliveryInvariant, PTL DEF SystemSpec

\* The ways in which a row is looked after: a message that will be delivered, a run
\* that has not claimed yet or is to put it back, a request, the run that owns it.
Sent(r) == \E t \in Tasks : /\ msg[t] = r /\ t \notin revoked
                            /\ broker[t] = "queued" \/ (broker[t] = "unacked" /\ Running(t) = {})
Visited(r) == \E w \in Workers : pc[w] \in {"check", "reject", "claim", "requeue"} /\ RowOf(w) = r
Asked(r) == \E d \in dispatching : d.row = r
Owned(r) == \E w \in Workers : pc[w] \in Owning /\ RowOf(w) = r /\ Owns(w)

\* What keeps PendingIsComing: until somebody dies, the run a row names is there, so
\* it is the first death alone that the message, or the tick, has to answer for.
ComingInv ==
    /\ \A r \in Rows : status[r] = "pending" =>
         \/ Sent(r) \/ Visited(r) \/ Asked(r)
         \/ owner[r] # None /\ (Owned(r) \/ crashes >= 2 \/ (tick = "dispatching" /\ r \in recoverable))
    /\ \A r \in Rows : crashes = 0 /\ owner[r] # None /\ status[r] \in {"pending", "indexing"} => Owned(r)

\* No pending row is left without a message, a run or a request that will move it
\* on, for any number of rows, when nobody cancels, publishing does not fail and a
\* live delivery is not handed out a second time: however many die, but for a row
\* the reconciler has reset, of which the first death only is answered for.
THEOREM PendingRowsComing ==
    ASSUME ~LiveRedelivery, ~Faults, "cancel" \notin Routes PROVE SystemSpec => []PendingIsComing
<1>1. SystemInit => ComingInv
  BY DEF SystemInit, Init, ComingInv
<1>2. AllTypeOK /\ Delivery /\ MessagesInv /\ ComingInv /\ [SystemNext]_allVars => ComingInv'
  <2> SUFFICES ASSUME AllTypeOK, Delivery, MessagesInv, ComingInv, [SystemNext]_allVars PROVE ComingInv'
    OBVIOUS
  <2> USE IndexingAssumption DEF AllTypeOK, TypeOK, WdTypeOK
  \* A step that leaves the broker, the runs and the tick's work alone, and makes no row pending.
  <2>1. ASSUME UNCHANGED <<msg, broker, revoked, pc, task, crashes>>, dispatching \subseteq dispatching',
               \A r \in Rows : /\ owner'[r] = owner[r]
                               /\ status'[r] \in {"pending", "indexing"} => status'[r] = status[r],
               tick = "dispatching" => tick' = tick /\ recoverable \subseteq recoverable'
        PROVE  ComingInv'
    <3>1. \A r \in Rows : status'[r] \in {"pending", "indexing"} =>
            (Sent(r) => Sent(r)') /\ (Visited(r) => Visited(r)') /\ (Asked(r) => Asked(r)') /\ (Owned(r) => Owned(r)')
      BY <2>1 DEF Sent, Visited, Asked, Owned, Running, RowOf, Owns, Owning, Present, Absent
    <3> QED BY <2>1, <3>1 DEF ComingInv
  \* A row is reset by a request, which will publish.
  <2>2. ASSUME NEW q \in Rows, Reset(q), NEW k, dispatching' = dispatching \cup {[row |-> q, kind |-> k]},
               UNCHANGED <<msg, broker, revoked, pc, task, crashes, tick, recoverable>>
        PROVE  ComingInv'
    <3>1. \A r \in Rows : r # q => status'[r] = status[r] /\ owner'[r] = owner[r]
      BY <2>2 DEF Reset
    <3>2. owner'[q] = None /\ Asked(q)'
      <4>1. owner'[q] = None
        BY <2>2 DEF Reset
      <4>2. [row |-> q, kind |-> k] \in dispatching' /\ [row |-> q, kind |-> k].row = q
        BY <2>2
      <4> QED BY <4>1, <4>2 DEF Asked
    <3>3. \A r \in Rows : r # q =>
            (Sent(r) => Sent(r)') /\ (Visited(r) => Visited(r)') /\ (Asked(r) => Asked(r)') /\ (Owned(r) => Owned(r)')
      BY <2>2, <3>1 DEF Sent, Visited, Asked, Owned, Running, RowOf, Owns, Owning, Present, Absent
    <3> QED BY <2>2, <3>1, <3>2, <3>3 DEF ComingInv
  \* A message is published for a row.
  <2>3. ASSUME NEW q \in Rows, Publish(q), UNCHANGED <<status, owner, task, crashes>>,
               \A w \in Workers : pc'[w] = pc[w] \/ (pc[w] = "requeue" /\ RowOf(w) = q),
               \A d \in dispatching : d \in dispatching' \/ d.row = q,
               tick = "dispatching" => \A r \in recoverable : r = q \/ (tick' = tick /\ r \in recoverable')
        PROVE  ComingInv'
    <3>1. PICK t \in FreshTasks : /\ msg' = [msg EXCEPT ![t] = q]
                                  /\ broker' = [broker EXCEPT ![t] = "queued"]
                                  /\ revoked' = revoked \ {t}
      BY <2>3 DEF Publish
    <3>2. t \in Tasks /\ broker[t] = "acked" /\ \A w \in Workers : task[w] # t
      BY <3>1 DEF FreshTasks, Running
    <3>3. Sent(q)'
      BY <3>1, <3>2 DEF Sent
    <3>4. \A w \in Workers : task[w] # None => RowOf(w)' = RowOf(w) /\ Owns(w)' = Owns(w)
      BY <2>3, <3>1, <3>2 DEF RowOf, Owns, Present
    <3>5. \A r \in Rows : r # q => (Sent(r) => Sent(r)') /\ (Asked(r) => Asked(r)') /\ (Visited(r) => Visited(r)')
      BY <2>3, <3>1, <3>2, <3>4 DEF Sent, Asked, Visited, Running
    <3>6. \A r \in Rows : Owned(r) => Owned(r)'
      BY <2>3, <3>4 DEF Owned, Owning
    <3> QED BY <2>3, <3>3, <3>5, <3>6 DEF ComingInv
  <2>4. CASE Request /\ UNCHANGED wdVars
    <3>1. ASSUME NEW q \in Rows, RemoveSource(q) PROVE ComingInv'
      <4>1. /\ status' = [status EXCEPT ![q] = "removed"]
            /\ owner' = [owner EXCEPT ![q] = None]
            /\ UNCHANGED <<msg, broker, pc, task, crashes, tick, recoverable, dispatching>>
        BY <2>4, <3>1 DEF RemoveSource, workVars, userVars, wdVars
      <4>2. \A t \in revoked' : t \in revoked \/ (t = owner[q] /\ t \in Tasks /\ broker[t] # "acked")
        BY <3>1 DEF RemoveSource, Revoke
      <4>3. \A r \in Rows : r # q => (Sent(r) => Sent(r)')
        BY <4>1, <4>2 DEF Sent, Running, MessagesInv
      <4>4. \A r \in Rows : r # q => (Visited(r) => Visited(r)') /\ (Asked(r) => Asked(r)') /\ (Owned(r) => Owned(r)')
        BY <4>1 DEF Visited, Asked, Owned, RowOf, Owns, Owning, Present, Absent
      <4> QED BY <4>1, <4>3, <4>4 DEF ComingInv
    <3>2. ASSUME NEW q \in Rows, AddSource(q) PROVE ComingInv'
      BY <2>2, <2>4, <3>2 DEF AddSource, brokerVars, workVars, wdVars
    <3>3. ASSUME NEW q \in Rows, Reindex(q) PROVE ComingInv'
      BY <2>2, <2>4, <3>3 DEF Reindex, brokerVars, workVars, wdVars
    <3>4. ASSUME NEW q \in Rows, SourceChanges(q) PROVE ComingInv'
      BY <2>1, <2>4, <3>4 DEF SourceChanges, rowVars, brokerVars, workVars, userVars, wdVars
    <3> QED BY <2>4, <3>1, <3>2, <3>3, <3>4 DEF Request, CancelBegin
  <2>5. CASE FinishRequest /\ UNCHANGED wdVars
    <3>1. ASSUME NEW d \in dispatching, Dispatch(d) PROVE ComingInv'
      <4>1. d.row \in Rows
        OBVIOUS
      <4> QED BY <2>3, <2>5, <3>1, <4>1 DEF Dispatch, rowVars, workVars, wdVars
    <3>2. ASSUME NEW q \in Rows, CancelEnd(q) PROVE ComingInv'
      BY <2>1, <2>5, <3>2 DEF CancelEnd, brokerVars, workVars, wdVars
    <3> QED BY <2>5, <3>1, <3>2 DEF FinishRequest, DispatchFails, BalanceRefused
  <2>6. ASSUME NEW w \in Workers, Run(w), UNCHANGED wdVars PROVE ComingInv'
    <3> USE <2>6 DEF Goto, wdVars
    \* A run moves on and the rows that are pending or indexing, and their owners, are left alone.
    <3>1. ASSUME UNCHANGED <<msg, broker, revoked, task, dispatching, crashes>>,
                 \A v \in Workers : v # w => pc'[v] = pc[v],
                 \A r \in Rows : /\ owner'[r] = owner[r]
                                 /\ status'[r] \in {"pending", "indexing"} => status'[r] = status[r],
                 pc[w] \in {"check", "reject", "claim", "requeue"} /\ status'[RowOf(w)] = "pending"
                    => pc'[w] \in {"check", "reject", "claim", "requeue"},
                 pc[w] \in Owning /\ Owns(w) /\ status'[RowOf(w)] \in {"pending", "indexing"} => pc'[w] \in Owning
          PROVE  ComingInv'
      <4>1. \A r \in Rows : (Sent(r) => Sent(r)') /\ (Asked(r) => Asked(r)')
        BY <3>1 DEF Sent, Asked, Running
      <4>2. \A r \in Rows : status'[r] = "pending" => (Visited(r) => Visited(r)')
        BY <3>1 DEF Visited, RowOf
      <4>3. \A r \in Rows : status'[r] \in {"pending", "indexing"} => (Owned(r) => Owned(r)')
        BY <3>1 DEF Owned, RowOf, Owns, Present, Absent
      <4> QED BY <3>1, <4>1, <4>2, <4>3 DEF ComingInv
    <3>2. ASSUME NEW t \in Tasks, Fetch(w, t) PROVE ComingInv'
      <4>1. UNCHANGED <<status, owner, dispatching, crashes, tick, recoverable>> /\ pc[w] = "idle"
        BY <3>2 DEF Fetch, rowVars, userVars
      <4>2. Running(t) = {}
        BY <3>2 DEF Fetch, Delivery
      <4>3. CASE t \in revoked
        <5>1. /\ msg' = [msg EXCEPT ![t] = None] /\ broker' = [broker EXCEPT ![t] = "acked"]
              /\ revoked' = revoked \ {t} /\ UNCHANGED <<pc, task>>
          BY <3>2, <4>2, <4>3 DEF Fetch, Retire, workVars
        <5>2. \A r \in Rows : (Sent(r) => Sent(r)') /\ (Asked(r) => Asked(r)')
          BY <4>1, <4>3, <5>1 DEF Sent, Asked, Running
        <5>3. \A r \in Rows : (Visited(r) => Visited(r)') /\ (Owned(r) => Owned(r)')
          BY <4>1, <4>2, <5>1 DEF Visited, Owned, Running, RowOf, Owns, Owning, Present
        <5> QED BY <4>1, <5>2, <5>3 DEF ComingInv
      <4>4. CASE t \notin revoked
        <5>1. /\ broker' = [broker EXCEPT ![t] = "unacked"] /\ pc' = [pc EXCEPT ![w] = "check"]
              /\ task' = [task EXCEPT ![w] = t] /\ UNCHANGED <<msg, revoked>>
          BY <3>2, <4>4 DEF Fetch
        <5>2. \A r \in Rows : Sent(r) => Sent(r)' \/ (msg[t] = r /\ Visited(r)')
          BY <5>1 DEF Sent, Visited, Running, RowOf
        <5>3. \A r \in Rows : (Visited(r) => Visited(r)') /\ (Owned(r) => Owned(r)') /\ (Asked(r) => Asked(r)')
          BY <4>1, <5>1 DEF Visited, Owned, Asked, RowOf, Owns, Owning, Present
        <5> QED BY <4>1, <5>2, <5>3 DEF ComingInv
      <4> QED BY <4>3, <4>4
    <3>3. CASE Check(w)
      BY <3>1, <3>3 DEF Check, Owning, rowVars, brokerVars, userVars
    <3>4. CASE Reject(w)
      BY <3>1, <3>4 DEF Reject, Owning, RowOf, Present, Absent, brokerVars, userVars
    <3>5. CASE Claim(w)
      <4>1. CASE status[RowOf(w)] = "pending"
        <5>1. /\ RowOf(w) \in Rows /\ task[w] # None
              /\ status' = [status EXCEPT ![RowOf(w)] = "indexing"]
              /\ owner' = [owner EXCEPT ![RowOf(w)] = task[w]]
              /\ pc' = [pc EXCEPT ![w] = "claimed"]
              /\ UNCHANGED <<msg, broker, revoked, task, dispatching, crashes>>
          BY <3>5, <4>1 DEF Claim, RowOf, brokerVars, userVars
        <5>2. Owned(RowOf(w))'
          BY <5>1 DEF Owned, Owning, Owns, RowOf, Present, Absent
        <5>3. \A r \in Rows : r # RowOf(w) =>
                (Sent(r) => Sent(r)') /\ (Visited(r) => Visited(r)') /\ (Asked(r) => Asked(r)') /\ (Owned(r) => Owned(r)')
          BY <3>5, <5>1 DEF Claim, Sent, Visited, Asked, Owned, Running, RowOf, Owns, Owning, Present, Absent
        <5>4. RowOf(w)' = RowOf(w)
          BY <5>1 DEF RowOf
        <5> QED BY <5>1, <5>2, <5>3, <5>4 DEF ComingInv
      <4>2. CASE status[RowOf(w)] # "pending"
        BY <3>1, <3>5, <4>2 DEF Claim, Owning, rowVars, brokerVars, userVars
      <4> QED BY <4>1, <4>2
    <3>6. CASE ClearArtifacts(w) \/ WriteArtifacts(w) \/ SideEffects(w)
      BY <3>1, <3>6 DEF ClearArtifacts, WriteArtifacts, SideEffects, Owning, rowVars, brokerVars, userVars
    <3>7. CASE CommitIndexed(w) \/ RunFails(w)
      BY <3>1, <3>7 DEF CommitIndexed, RunFails, Owning, RowOf, brokerVars, userVars
    <3>8. CASE StorageFails(w)
      <4>1. CASE Owns(w) /\ attempts[RowOf(w)] < MaxAttempts
        <5>1. /\ RowOf(w) \in Rows /\ pc[w] \in Owning
              /\ status' = [status EXCEPT ![RowOf(w)] = "pending"]
              /\ owner' = [owner EXCEPT ![RowOf(w)] = None]
              /\ pc' = [pc EXCEPT ![w] = "requeue"]
              /\ UNCHANGED <<msg, broker, revoked, task, dispatching, crashes>>
          BY <3>8, <4>1 DEF StorageFails, Owning, RowOf, brokerVars, userVars
        <5>2. Visited(RowOf(w))' /\ RowOf(w)' = RowOf(w)
          BY <5>1 DEF Visited, RowOf
        <5>3. \A r \in Rows : r # RowOf(w) =>
                (Sent(r) => Sent(r)') /\ (Visited(r) => Visited(r)') /\ (Asked(r) => Asked(r)') /\ (Owned(r) => Owned(r)')
          BY <5>1 DEF Sent, Visited, Asked, Owned, Running, RowOf, Owns, Owning, Present, Absent
        <5> QED BY <5>1, <5>2, <5>3 DEF ComingInv
      <4>2. CASE ~(Owns(w) /\ attempts[RowOf(w)] < MaxAttempts)
        BY <3>1, <3>8, <4>2 DEF StorageFails, Owning, RowOf, brokerVars, userVars
      <4> QED BY <4>1, <4>2
    <3>9. CASE Requeue(w)
      <4>1. RowOf(w) \in Rows /\ Publish(RowOf(w))
        BY <3>9 DEF Requeue, RowOf
      <4> QED BY <2>3, <3>9, <4>1 DEF Requeue, rowVars, userVars
    <3>10. CASE Acknowledge(w)
      <4>1. /\ UNCHANGED <<status, owner, dispatching, crashes, tick, recoverable>>
            /\ pc[w] = "done" /\ task[w] \in Tasks /\ broker[task[w]] = "unacked" /\ Running(task[w]) = {w}
            /\ pc' = [pc EXCEPT ![w] = "idle"] /\ task' = [task EXCEPT ![w] = None]
        BY <3>10 DEF Acknowledge, rowVars, userVars, MessagesInv, Delivery, Running
      <4>2. /\ broker' = [broker EXCEPT ![task[w]] = "acked"] /\ msg' = [msg EXCEPT ![task[w]] = None]
            /\ revoked' = revoked \ {task[w]}
        BY <3>10, <4>1 DEF Acknowledge, Retire
      <4>3. \A r \in Rows : (Sent(r) => Sent(r)') /\ (Asked(r) => Asked(r)')
        BY <4>1, <4>2 DEF Sent, Asked, Running
      <4>4. \A r \in Rows : (Visited(r) => Visited(r)') /\ (Owned(r) => Owned(r)')
        BY <4>1, <4>2 DEF Visited, Owned, Running, RowOf, Owns, Owning, Present
      <4> QED BY <4>1, <4>3, <4>4 DEF ComingInv
    <3> QED BY <2>6, <3>2, <3>3, <3>4, <3>5, <3>6, <3>7, <3>8, <3>9, <3>10 DEF Run
  <2>7. ASSUME NEW w \in Workers, Crash(w), UNCHANGED wdVars PROVE ComingInv'
    <3>1. /\ UNCHANGED <<status, owner, msg, broker, revoked, dispatching, tick, recoverable>>
          /\ pc[w] # "idle" /\ task[w] \in Tasks /\ crashes' = crashes + 1
          /\ pc' = [pc EXCEPT ![w] = "idle"] /\ task' = [task EXCEPT ![w] = None]
      BY <2>7 DEF Crash, rowVars, brokerVars, userVars, wdVars
    \* The message of the run that died comes back.
    <3>2. ASSUME NEW r \in Rows, r = RowOf(w), status[r] = "pending" PROVE Sent(r)'
      <4>1. broker[task[w]] = "unacked" /\ msg[task[w]] = r /\ task[w] \notin revoked
        BY <3>1, <3>2 DEF RowOf, MessagesInv
      <4>2. \A v \in Workers : task'[v] # task[w]
        BY <3>1 DEF Delivery
      <4> QED BY <3>1, <4>1, <4>2 DEF Sent, Running
    <3>3. \A r \in Rows : (Sent(r) => Sent(r)') /\ (Asked(r) => Asked(r)')
      BY <3>1 DEF Sent, Asked, Running
    <3>4. \A r \in Rows : r # RowOf(w) => (Visited(r) => Visited(r)') /\ (Owned(r) => Owned(r)')
      BY <3>1 DEF Visited, Owned, RowOf, Owns, Owning, Present
    <3> QED BY <3>1, <3>2, <3>3, <3>4 DEF ComingInv
  <2>8. ASSUME NEW t \in Tasks, Redeliver(t), UNCHANGED wdVars PROVE ComingInv'
    <3>1. /\ UNCHANGED <<status, owner, msg, revoked, pc, task, dispatching, crashes, tick, recoverable>>
          /\ broker' = [broker EXCEPT ![t] = "queued"]
      BY <2>8 DEF Redeliver, rowVars, workVars, userVars, wdVars
    <3>2. \A r \in Rows : (Sent(r) => Sent(r)') /\ (Visited(r) => Visited(r)') /\ (Asked(r) => Asked(r)') /\ (Owned(r) => Owned(r)')
      BY <3>1 DEF Sent, Visited, Asked, Owned, Running, RowOf, Owns, Owning, Present
    <3> QED BY <3>1, <3>2 DEF ComingInv
  <2>9. CASE \/ (\E r \in Rows : AgeInTime(r)) /\ UNCHANGED wdVars
             \/ \E repliers \in SUBSET Workers : Collect(repliers)
             \/ SelectOrphans \/ UNCHANGED allVars
    BY <2>1, <2>9 DEF AgeInTime, Age, Collect, SelectOrphans, allVars, vars, rowVars, brokerVars, workVars,
          userVars, wdVars
  <2>10. CASE FailExhausted
    BY <2>1, <2>10 DEF FailExhausted, brokerVars, workVars, userVars
  <2>11. CASE ResetOrphans
    <3>1. /\ UNCHANGED <<owner, msg, broker, revoked, pc, task, dispatching, crashes, recoverable>>
          /\ tick' = "dispatching" /\ tick = "failed"
          /\ \A r \in Rows : \/ status'[r] = status[r]
                             \/ status[r] = "indexing" /\ status'[r] = "pending" /\ r \in recoverable
      BY <2>11 DEF ResetOrphans, brokerVars, workVars, userVars
    <3>2. \A r \in Rows : (Sent(r) => Sent(r)') /\ (Visited(r) => Visited(r)') /\ (Asked(r) => Asked(r)')
      BY <3>1 DEF Sent, Visited, Asked, Running, RowOf
    <3>3. \A r \in Rows : Owned(r) => Owned(r)'
      BY <3>1 DEF Owned, RowOf, Owns, Owning, Present, Absent
    <3> QED BY <3>1, <3>2, <3>3 DEF ComingInv, MessagesInv
  <2>12. ASSUME NEW q \in Rows, Redispatch(q) PROVE ComingInv'
    BY <2>3, <2>12 DEF Redispatch, rowVars, workVars, userVars
  <2>13. CASE WatchdogCrash
    <3>1. /\ UNCHANGED <<status, owner, msg, broker, revoked, pc, task, dispatching>>
          /\ crashes' = crashes + 1
      BY <2>13 DEF WatchdogCrash, rowVars, brokerVars, workVars, userVars
    <3>2. \A r \in Rows : (Sent(r) => Sent(r)') /\ (Visited(r) => Visited(r)') /\ (Asked(r) => Asked(r)') /\ (Owned(r) => Owned(r)')
      BY <3>1 DEF Sent, Visited, Asked, Owned, Running, RowOf, Owns, Owning, Present
    <3> QED BY <3>1, <3>2 DEF ComingInv
  <2> QED
    BY <2>4, <2>5, <2>6, <2>7, <2>8, <2>9, <2>10, <2>11, <2>12, <2>13 DEF SystemNext, Step, Tick
<1>3. AllTypeOK /\ ComingInv => PendingIsComing
  <2> SUFFICES ASSUME AllTypeOK, ComingInv, NEW r \in Rows, status[r] = "pending", owner[r] = None \/ crashes <= 1
               PROVE  Coming(r)
    BY DEF PendingIsComing
  <2>1. crashes <= 1 => ~(crashes >= 2)
    BY IndexingAssumption DEF AllTypeOK, TypeOK
  <2>2. Sent(r) \/ Visited(r) \/ Asked(r) \/ Owned(r) \/ (tick = "dispatching" /\ r \in recoverable)
    BY <2>1 DEF ComingInv
  <2> QED BY <2>2 DEF Coming, Sent, Visited, Asked, Owned, Owning
<1> QED BY <1>1, <1>2, <1>3, TypeCorrect, DeliveryInvariant, MessagesInvariant, PTL DEF SystemSpec
=============================================================================
