-------------------------- MODULE ActivitiesProofs --------------------------
(* Theorems about what is done on behalf of users, for any number of runs, turns,
   calls, requests, workflow blocks and chains of ticks: first about each component
   as Activities instantiates it (Scheduler, which runs by itself too, has a module
   of theorems of its own), then about the parts together. *)
EXTENDS Activities, Sequences, SequenceTheorems, FiniteSetTheorems, TLAPS

SP == INSTANCE SchedulerProofs WITH Slow <- FALSE, Faults <- TRUE, deployed <- schedule, lock <- tickLock, pc <- tick

-----------------------------------------------------------------------------
(* Runs of agents and orchestrations: types, and what is known of a run at each place
   of its request. *)

RunPlaces == {"none", "checked", "bound", "started", "streaming", "answered", "recorded", "told", "ended"}
RunTypes ==
    /\ asked \in [Runs -> AR!Requests \cup {None}] /\ pc \in [Runs -> RunPlaces] /\ uuid \in [Runs -> Nat]
    /\ open \in [Runs -> BOOLEAN] /\ row \in [Runs -> AR!Kept \cup {"absent", "deleted"}]
    /\ engine \in [Runs -> {"none", "running", "waiting", "ended"}]
    /\ behind \in [Runs -> {"none", "reading", "charging"}] /\ registry \in [Servers -> SUBSET Runs]
    /\ charged \in [Runs -> 0..1] /\ client \in [Runs -> {"waits", "left", "error", "completed", "failed"}]
    /\ sessions \in [AR!Names -> AR!SessionRows \cup {None}] /\ next \in Nat \ {0}
    /\ output \in [Runs -> {"success", "failure", "raised", "nothing", None}]
(* A run's life: what is known of it at each place of its request. *)
RunLife(r) ==
    /\ pc[r] # "none" => asked[r] \in AR!Requests
    /\ pc[r] \in {"none", "checked"} => uuid[r] = 0 /\ ~open[r]
    /\ open[r] => uuid[r] # 0
    /\ pc[r] \notin {"told", "ended"} => charged[r] = 0
    /\ pc[r] \in {"started", "streaming", "answered"} => row[r] # "absent"
    /\ pc[r] \in {"recorded", "told"} /\ output[r] = "success" => row[r] \in {"completed", "deleted"}
    /\ pc[r] = "told" /\ output[r] = "success" => charged[r] = 1
    /\ engine[r] \in {"running", "waiting"} => pc[r] \in {"streaming", "ended"} /\ charged[r] = 0
    /\ behind[r] # "none" => pc[r] = "ended" /\ client[r] = "left" /\ asked[r].kind = "plain"
    /\ behind[r] = "charging" => charged[r] = 0 /\ engine[r] = "ended"
    /\ client[r] = "completed" => pc[r] = "ended" /\ row[r] \in {"completed", "deleted"} /\ charged[r] = 1
(* Sessions are told apart by their ids, one that is not committed is of its run. *)
BoundApart == /\ \A n \in AR!Names : sessions[n] # None => sessions[n].id \in 1..(next - 1)
              /\ \A m, n \in AR!Names : sessions[m] # None /\ sessions[n] # None /\ sessions[m].id = sessions[n].id => m = n
              /\ \A r \in Runs : uuid[r] < next
              /\ \A r \in Runs, n \in AR!Names : open[r] /\ sessions[n] # None => sessions[n].id # uuid[r]
              /\ \A r, s \in Runs : open[r] /\ r # s => uuid[r] # uuid[s]
              /\ \A r \in Runs, n \in AR!Names : asked[r] # None /\ asked[r].caller = "user" /\ sessions[n] # None /\ sessions[n].id = uuid[r]
                                                 => sessions[n].owner = "user"
RunsInv == RunTypes /\ (\A r \in Runs : RunLife(r)) /\ AR!Approvable /\ BoundApart

\* An outcome is a status, and only a success completes.
LEMMA OutcomeType == ASSUME NEW o PROVE AR!Outcome(o) \in {"completed", "failed"} /\ (AR!Outcome(o) = "completed" <=> o = "success")
  BY DEF AR!Outcome

\* What the exception handler does.
LEMMA FailsTypes == ASSUME AR!RunsAssumption, RunTypes, NEW r \in Runs, asked[r] \in AR!Requests, AR!Fails(r)
                    PROVE /\ pc' \in [Runs -> RunPlaces] /\ uuid' \in [Runs -> Nat] /\ open' \in [Runs -> BOOLEAN]
                          /\ row' \in [Runs -> AR!Kept \cup {"absent", "deleted"}]
                          /\ client' \in [Runs -> {"waits", "left", "error", "completed", "failed"}]
                          /\ sessions' \in [AR!Names -> AR!SessionRows \cup {None}] /\ next' \in Nat \ {0}
<1> USE DEF RunTypes, AR!RunsAssumption, AR!Requests, AR!SessionRows, AR!Kept, RunPlaces
<1>1. asked[r].name \in AR!Names /\ asked[r].caller \in AR!Owners
  OBVIOUS
<1>2. AR!Found(r) = "mine" => sessions[asked[r].name].id \in Nat
  BY <1>1 DEF AR!Found
<1>3. [id |-> next, owner |-> asked[r].caller] \in AR!SessionRows
  BY <1>1
<1>4. pc' \in [Runs -> RunPlaces] /\ open' \in [Runs -> BOOLEAN] /\ client' \in [Runs -> {"waits", "left", "error", "completed", "failed"}]
  BY DEF AR!Fails
<1>5. row' \in [Runs -> AR!Kept \cup {"absent", "deleted"}]
  BY DEF AR!Fails, AR!Written
<1>6. uuid' \in [Runs -> Nat] /\ next' \in Nat \ {0}
  BY <1>2 DEF AR!Fails
<1>7. sessions' \in [AR!Names -> AR!SessionRows \cup {None}]
  <2>1. sessions' = sessions \/ sessions' = [sessions EXCEPT ![asked[r].name] = [id |-> next, owner |-> asked[r].caller]]
    BY DEF AR!Fails
  <2> QED BY <1>1, <1>3, <2>1
<1> QED BY <1>4, <1>5, <1>6, <1>7

\* What a row's insertion does.
LEMMA InsertedTypes == ASSUME AR!RunsAssumption, RunTypes, NEW r \in Runs, asked[r] \in AR!Requests, NEW s \in AR!Kept, AR!Inserted(r, s)
                       PROVE /\ open' \in [Runs -> BOOLEAN] /\ row' \in [Runs -> AR!Kept \cup {"absent", "deleted"}]
                             /\ sessions' \in [AR!Names -> AR!SessionRows \cup {None}]
<1> USE DEF RunTypes, AR!RunsAssumption, AR!Requests, AR!SessionRows, AR!Kept
<1>1. asked[r].name \in AR!Names /\ asked[r].caller \in AR!Owners
  OBVIOUS
<1>2. [id |-> uuid[r], owner |-> asked[r].caller] \in AR!SessionRows
  BY <1>1
<1> QED BY <1>1, <1>2 DEF AR!Inserted

\* Every step keeps the types.
LEMMA RunTypesStep == ASSUME AR!RunsAssumption, RunTypes, \A r \in Runs : RunLife(r), [AR!Next]_(AR!vars) PROVE RunTypes'
<1>1. ASSUME NEW owner \in AR!Owners, AR!CreateSession(owner) PROVE RunTypes'
  BY <1>1 DEF RunTypes, AR!CreateSession, AR!flow, AR!SessionRows, AR!Owners, AR!Names
<1>2. ASSUME NEW r \in Runs, NEW k \in KindsOf[r], NEW c \in Callers[r], NEW n \in AR!Names, NEW p \in Servers, AR!Ask(r, k, c, n, p) PROVE RunTypes'
  BY <1>2 DEF RunTypes, AR!Ask, AR!Requests, AR!RunsAssumption, RunPlaces
<1>3. ASSUME NEW r \in Runs, AR!Bind(r) PROVE RunTypes'
  <2>1. asked[r] \in AR!Requests
    BY <1>3 DEF AR!Bind, RunLife
  <2>2. asked[r].name \in AR!Names /\ asked[r].caller \in AR!Owners /\ [id |-> next, owner |-> asked[r].caller] \in AR!SessionRows
    BY <2>1 DEF RunTypes, AR!Requests, AR!SessionRows
  <2>3. AR!Found(r) = "mine" => sessions[asked[r].name].id \in Nat
    BY <2>2 DEF AR!Found, RunTypes, AR!SessionRows
  <2>4. sessions' \in [AR!Names -> AR!SessionRows \cup {None}]
    <3>1. sessions' = sessions \/ sessions' = [sessions EXCEPT ![asked[r].name] = [id |-> next, owner |-> asked[r].caller]]
      BY <1>3 DEF AR!Bind
    <3> QED BY <2>2, <3>1 DEF RunTypes
  <2>5. uuid' \in [Runs -> Nat] /\ next' \in Nat \ {0}
    BY <1>3, <2>3 DEF AR!Bind, RunTypes
  <2>6. pc' \in [Runs -> RunPlaces] /\ open' \in [Runs -> BOOLEAN] /\ client' \in [Runs -> {"waits", "left", "error", "completed", "failed"}]
    BY <1>3, ZenonT(60) DEF AR!Bind, RunTypes, RunPlaces
  <2> QED BY <1>3, <2>4, <2>5, <2>6 DEF AR!Bind, RunTypes
<1>4. ASSUME NEW r \in Runs, AR!RetrievalFails(r) \/ AR!AskApproval(r) \/ AR!Charge(r) \/ AR!Complete(r) \/ AR!Abort(r) \/ AR!ChargeBehind(r) \/ AR!Cleanup(r) PROVE RunTypes'
  <2>1. RunLife(r) /\ AR!Outcome(output[r]) \in {"completed", "failed"}
    BY OutcomeType
  <2>2. CASE AR!RetrievalFails(r) \/ AR!Cleanup(r)
    <3>1. CASE AR!RetrievalFails(r)
      BY <3>1 DEF RunTypes, AR!RetrievalFails
    <3>2. CASE AR!Cleanup(r)
      BY <3>2 DEF RunTypes, AR!Cleanup, AR!Kept
    <3> QED BY <2>2, <3>1, <3>2
  <2>6. CASE AR!AskApproval(r) \/ AR!Abort(r)
    BY <2>6 DEF RunTypes, AR!AskApproval, AR!Abort
  <2>3. CASE AR!Charge(r)
    <3>1. charged' \in [Runs -> 0..1]
      BY <2>1, <2>3 DEF AR!Charge, RunTypes, RunLife
    <3> QED BY <2>3, <3>1 DEF AR!Charge, RunTypes, RunPlaces
  <2>4. CASE AR!Complete(r)
    BY <2>1, <2>4 DEF AR!Complete, RunTypes, RunPlaces
  <2>5. CASE AR!ChargeBehind(r)
    <3>1. charged' \in [Runs -> 0..1]
      BY <2>1, <2>5 DEF AR!ChargeBehind, RunTypes, RunLife
    <3> QED BY <2>5, <3>1 DEF AR!ChargeBehind, AR!AfterCharge, RunTypes
  <2> QED BY <1>4, <2>2, <2>3, <2>4, <2>5, <2>6
<1>5. ASSUME NEW r \in Runs, AR!Persisted(r) PROVE RunTypes'
  <2>1. asked[r] \in AR!Requests
    BY <1>5 DEF AR!Persisted, RunLife
  <2>2. CASE AR!Fails(r)
    BY <1>5, <2>1, <2>2, FailsTypes DEF AR!Persisted, RunTypes
  <2>3. CASE AR!Inserted(r, "running") /\ pc' = [pc EXCEPT ![r] = "started"] /\ UNCHANGED <<uuid, next, client>>
    BY <1>5, <2>1, <2>3, InsertedTypes DEF AR!Persisted, RunTypes, AR!Kept, RunPlaces
  <2> QED BY <1>5, <2>2, <2>3 DEF AR!Persisted
<1>6. ASSUME NEW r \in Runs, AR!PersistTools(r) \/ AR!PersistPlain(r) \/ AR!PersistOrchestration(r) PROVE RunTypes'
  BY <1>5, <1>6 DEF AR!PersistTools, AR!PersistPlain, AR!PersistOrchestration
<1>7. ASSUME NEW r \in Runs, AR!StartTools(r) \/ AR!StartPlain(r) \/ AR!StartOrchestration(r) PROVE RunTypes'
  BY <1>7 DEF RunTypes, AR!StartTools, AR!StartPlain, AR!StartOrchestration, AR!Started, RunPlaces
<1>8. ASSUME NEW r \in Runs, AR!AnswerTools(r) \/ AR!AnswerPlain(r) \/ AR!AnswerOrchestration(r) PROVE RunTypes'
  <2>1. AR!Sent(r) /\ asked[r] \in AR!Requests
    BY <1>8 DEF AR!AnswerTools, AR!AnswerPlain, AR!AnswerOrchestration, AR!Sent, RunLife
  <2>2. CASE AR!Fails(r)
    BY <2>1, <2>2, FailsTypes DEF AR!Sent, RunTypes
  <2>3. CASE pc' = [pc EXCEPT ![r] = "answered"] /\ UNCHANGED <<row, open, uuid, sessions, next, client>>
    BY <2>1, <2>3 DEF AR!Sent, RunTypes, RunPlaces
  <2> QED BY <2>1, <2>2, <2>3 DEF AR!Sent
<1>9. ASSUME NEW r \in Runs, AR!RecordTools(r) \/ AR!RecordPlain(r) \/ AR!RecordOrchestration(r) PROVE RunTypes'
  <2>1. AR!Outcome(output[r]) \in {"completed", "failed"}
    BY OutcomeType
  <2> QED BY <1>9, <2>1 DEF AR!RecordTools, AR!RecordPlain, AR!RecordOrchestration, AR!Recorded, AR!Written, RunTypes, RunPlaces, AR!Kept
<1>10. ASSUME NEW r \in Runs, NEW p \in Servers, AR!Approve(r, p) PROVE RunTypes'
  BY <1>10 DEF AR!Approve, RunTypes
<1>11. ASSUME NEW r \in Runs, NEW o \in AR!Outputs, AR!EngineEnds(r, o) \/ AR!FinishBehind(r, o) PROVE RunTypes'
  BY <1>11, OutcomeType DEF AR!EngineEnds, AR!FinishBehind, AR!Unregistered, AR!Written, RunTypes, AR!Kept, AR!Outputs
<1>12. ASSUME NEW r \in Runs, NEW o \in AR!Outputs, AR!Respond(r, o) PROVE RunTypes'
  <2>1. asked[r] \in AR!Requests /\ AR!Outcome(o) \in AR!Kept
    BY <1>12, OutcomeType DEF AR!Respond, RunLife, AR!Kept
  <2>2. CASE AR!Fails(r)
    BY <1>12, <2>1, <2>2, FailsTypes DEF AR!Respond, RunTypes, AR!Outputs
  <2>3. CASE AR!Inserted(r, AR!Outcome(o)) /\ pc' = [pc EXCEPT ![r] = "recorded"] /\ UNCHANGED <<uuid, next, client>>
    BY <1>12, <2>1, <2>3, InsertedTypes DEF AR!Respond, RunTypes, RunPlaces, AR!Outputs
  <2> QED BY <1>12, <2>2, <2>3 DEF AR!Respond
<1>13. ASSUME NEW r \in Runs, AR!LeaveTools(r) \/ AR!LeavePlain(r) \/ AR!LeaveOrchestration(r) PROVE RunTypes'
  BY <1>13 DEF AR!LeaveTools, AR!LeavePlain, AR!LeaveOrchestration, AR!Leaves, AR!AfterLeaving, AR!Written, RunTypes, RunPlaces, AR!Kept
<1>14. ASSUME NEW n \in AR!Names, AR!DeleteSession(n) PROVE RunTypes'
  BY <1>14 DEF AR!DeleteSession, RunTypes
<1>15. ASSUME NEW p \in Servers, AR!Crash(p) PROVE RunTypes'
  BY <1>15 DEF AR!Crash, RunTypes, RunPlaces
<1>16. CASE UNCHANGED AR!vars
  BY <1>16 DEF AR!vars, RunTypes
<1> QED BY <1>1, <1>2, <1>3, <1>4, <1>6, <1>7, <1>8, <1>9, <1>10, <1>11, <1>12, <1>13, <1>14, <1>15, <1>16 DEF AR!Next, AR!RunStep

\* What a step leaves alone of a run leaves its life as it was.
LEMMA LifeFrame == ASSUME NEW r, RunLife(r), asked'[r] = asked[r], pc'[r] = pc[r], uuid'[r] = uuid[r], open'[r] = open[r], row'[r] = row[r],
                          engine'[r] = engine[r], output'[r] = output[r], behind'[r] = behind[r], charged'[r] = charged[r], client'[r] = client[r]
                   PROVE RunLife(r)'
  BY DEF RunLife, AR!Requests, AR!Names

\* The exception handler ends the request, and what it was charged and left behind stays.
LEMMA FailsLife == ASSUME RunTypes, NEW r \in Runs, RunLife(r), pc[r] \in {"bound", "streaming"}, AR!Fails(r),
                          UNCHANGED <<asked, engine, behind, charged>>
                   PROVE RunLife(r)'
<1>1. pc'[r] = "ended" /\ client'[r] = "error" /\ ~open'[r]
  BY DEF AR!Fails, RunTypes
<1> QED BY <1>1 DEF RunLife, RunTypes, AR!Requests, AR!Names

\* Every step leaves of every run what its place tells.
LEMMA RunLifeStep == ASSUME AR!RunsAssumption, RunTypes, \A r \in Runs : RunLife(r), [AR!Next]_(AR!vars), NEW s \in Runs PROVE RunLife(s)'
<1>0. RunLife(s)
  OBVIOUS
<1>1. ASSUME NEW owner \in AR!Owners, AR!CreateSession(owner) PROVE RunLife(s)'
  BY <1>0, <1>1, LifeFrame DEF AR!CreateSession, AR!flow
<1>2. ASSUME NEW r \in Runs, NEW k \in KindsOf[r], NEW c \in Callers[r], NEW n \in AR!Names, NEW p \in Servers, AR!Ask(r, k, c, n, p) PROVE RunLife(s)'
  <2>1. CASE s = r
    <3>1. [kind |-> k, caller |-> c, name |-> n, proc |-> p] \in AR!Requests
      BY DEF AR!RunsAssumption, AR!Requests
    <3> QED BY <1>0, <1>2, <2>1, <3>1 DEF AR!Ask, RunLife, RunTypes, AR!Requests, AR!Names
  <2>2. CASE s # r
    BY <1>0, <1>2, <2>2, LifeFrame DEF AR!Ask, RunTypes
  <2> QED BY <2>1, <2>2
<1>3. ASSUME NEW r \in Runs, AR!Bind(r) PROVE RunLife(s)'
  <2>1. CASE s = r
    <3>1. pc[r] = "checked" /\ pc'[r] \in {"bound", "ended"} /\ client'[r] \in {client[r], "error"} /\ UNCHANGED <<asked, row, engine, output, behind, charged>>
      BY <1>3 DEF AR!Bind, RunTypes
    <3>2. open'[r] => uuid'[r] # 0
      BY <1>0, <1>3, <2>1 DEF AR!Bind, RunLife, RunTypes
    <3> QED BY <1>0, <2>1, <3>1, <3>2 DEF RunLife, RunTypes, AR!Requests, AR!Names
  <2>2. CASE s # r
    BY <1>0, <1>3, <2>2, LifeFrame DEF AR!Bind, RunTypes
  <2> QED BY <2>1, <2>2
<1>4. ASSUME NEW r \in Runs, s # r, \/ AR!RetrievalFails(r) \/ AR!AskApproval(r) \/ AR!Charge(r) \/ AR!Complete(r) \/ AR!Abort(r) \/ AR!ChargeBehind(r) \/ AR!Cleanup(r)
      PROVE RunLife(s)'
  BY <1>0, <1>4, LifeFrame DEF RunTypes, AR!RetrievalFails, AR!AskApproval, AR!Charge, AR!Complete, AR!Abort, AR!ChargeBehind, AR!Cleanup
<1>5. ASSUME AR!RetrievalFails(s) \/ AR!AskApproval(s) \/ AR!Abort(s) \/ AR!Cleanup(s) PROVE RunLife(s)'
  <2>1. CASE AR!RetrievalFails(s)
    BY <1>0, <2>1 DEF RunLife, RunTypes, AR!RetrievalFails, AR!Requests, AR!Names
  <2>2. CASE AR!AskApproval(s) \/ AR!Abort(s)
    BY <1>0, <2>2 DEF RunLife, RunTypes, AR!AskApproval, AR!Abort, AR!Requests, AR!Names
  <2>3. CASE AR!Cleanup(s)
    BY <1>0, <2>3 DEF RunLife, RunTypes, AR!Cleanup, AR!Stale, AR!Requests, AR!Names
  <2> QED BY <1>5, <2>1, <2>2, <2>3
<1>6. ASSUME AR!Charge(s) \/ AR!Complete(s) \/ AR!ChargeBehind(s) PROVE RunLife(s)'
  BY <1>0, <1>6, OutcomeType DEF RunLife, RunTypes, AR!Charge, AR!Complete, AR!ChargeBehind, AR!AfterCharge, AR!Requests, AR!Names
<1>7. ASSUME NEW r \in Runs, AR!Persisted(r) PROVE RunLife(s)'
  <2>1. CASE s = r /\ AR!Fails(r)
    BY <1>0, <1>7, <2>1, FailsLife DEF AR!Persisted
  <2>2. CASE s = r /\ AR!Inserted(r, "running") /\ pc' = [pc EXCEPT ![r] = "started"] /\ UNCHANGED <<uuid, next, client>>
    BY <1>0, <1>7, <2>2 DEF AR!Persisted, AR!Inserted, RunLife, RunTypes, AR!Requests, AR!Names
  <2>3. CASE s # r
    BY <1>0, <1>7, <2>3, LifeFrame DEF AR!Persisted, AR!Inserted, AR!Fails, AR!Written, RunTypes
  <2> QED BY <1>7, <2>1, <2>2, <2>3 DEF AR!Persisted
<1>8. ASSUME NEW r \in Runs, AR!PersistTools(r) \/ AR!PersistPlain(r) \/ AR!PersistOrchestration(r) PROVE RunLife(s)'
  BY <1>7, <1>8 DEF AR!PersistTools, AR!PersistPlain, AR!PersistOrchestration
<1>9. ASSUME NEW r \in Runs, AR!StartTools(r) \/ AR!StartPlain(r) \/ AR!StartOrchestration(r) PROVE RunLife(s)'
  <2>1. \E reg : AR!Started(r, reg)
    BY <1>9 DEF AR!StartTools, AR!StartPlain, AR!StartOrchestration
  <2>2. CASE s = r
    BY <1>0, <2>1, <2>2 DEF AR!Started, RunLife, RunTypes, AR!Requests, AR!Names
  <2>3. CASE s # r
    BY <1>0, <2>1, <2>3, LifeFrame DEF AR!Started, RunTypes
  <2> QED BY <2>2, <2>3
<1>10. ASSUME NEW r \in Runs, AR!AnswerTools(r) \/ AR!AnswerPlain(r) \/ AR!AnswerOrchestration(r) PROVE RunLife(s)'
  <2>1. AR!Sent(r)
    BY <1>10 DEF AR!AnswerTools, AR!AnswerPlain, AR!AnswerOrchestration
  <2>2. CASE s = r /\ AR!Fails(r)
    BY <1>0, <2>1, <2>2, FailsLife DEF AR!Sent
  <2>3. CASE s = r /\ pc' = [pc EXCEPT ![r] = "answered"] /\ UNCHANGED <<row, open, uuid, sessions, next, client>>
    BY <1>0, <2>1, <2>3 DEF AR!Sent, RunLife, RunTypes, AR!Requests, AR!Names
  <2>4. CASE s # r
    BY <1>0, <2>1, <2>4, LifeFrame DEF AR!Sent, AR!Fails, AR!Written, RunTypes
  <2> QED BY <2>1, <2>2, <2>3, <2>4 DEF AR!Sent
<1>11. ASSUME NEW r \in Runs, AR!RecordTools(r) \/ AR!RecordPlain(r) \/ AR!RecordOrchestration(r) PROVE RunLife(s)'
  <2>1. AR!Recorded(r)
    BY <1>11 DEF AR!RecordTools, AR!RecordPlain, AR!RecordOrchestration
  <2>2. CASE s = r
    BY <1>0, <2>1, <2>2, OutcomeType DEF AR!Recorded, AR!Written, RunLife, RunTypes, AR!Requests, AR!Names, AR!Kept
  <2>3. CASE s # r
    BY <1>0, <2>1, <2>3, LifeFrame DEF AR!Recorded, AR!Written, RunTypes
  <2> QED BY <2>2, <2>3
<1>12. ASSUME NEW r \in Runs, NEW p \in Servers, AR!Approve(r, p) PROVE RunLife(s)'
  BY <1>0, <1>12 DEF AR!Approve, RunLife, RunTypes, AR!Requests, AR!Names
<1>13. ASSUME NEW r \in Runs, NEW o \in AR!Outputs, AR!EngineEnds(r, o) PROVE RunLife(s)'
  BY <1>0, <1>13 DEF AR!EngineEnds, RunLife, RunTypes, AR!Requests, AR!Names
<1>14. ASSUME NEW r \in Runs, NEW o \in AR!Outputs, AR!FinishBehind(r, o) PROVE RunLife(s)'
  <2>1. CASE s = r
    BY <1>0, <1>14, <2>1, OutcomeType DEF AR!FinishBehind, AR!Written, RunLife, RunTypes, AR!Requests, AR!Names
  <2>2. CASE s # r
    BY <1>0, <1>14, <2>2, LifeFrame DEF AR!FinishBehind, AR!Written, RunTypes
  <2> QED BY <2>1, <2>2
<1>15. ASSUME NEW r \in Runs, NEW o \in AR!Outputs, AR!Respond(r, o) PROVE RunLife(s)'
  <2>1. CASE s = r /\ AR!Fails(r)
    BY <1>0, <1>15, <2>1, FailsLife DEF AR!Respond
  <2>2. CASE s = r /\ AR!Inserted(r, AR!Outcome(o)) /\ pc' = [pc EXCEPT ![r] = "recorded"] /\ UNCHANGED <<uuid, next, client>>
    BY <1>0, <1>15, <2>2, OutcomeType DEF AR!Respond, AR!Inserted, RunLife, RunTypes, AR!Requests, AR!Names
  <2>3. CASE s # r
    BY <1>0, <1>15, <2>3, LifeFrame DEF AR!Respond, AR!Inserted, AR!Fails, AR!Written, RunTypes
  <2> QED BY <1>15, <2>1, <2>2, <2>3 DEF AR!Respond
<1>16. ASSUME NEW r \in Runs, AR!LeaveTools(r) \/ AR!LeavePlain(r) \/ AR!LeaveOrchestration(r) PROVE RunLife(s)'
  <2>1. CASE s = r
    BY <1>0, <1>16, <2>1 DEF AR!LeaveTools, AR!LeavePlain, AR!LeaveOrchestration, AR!Leaves, AR!AfterLeaving, AR!Written, AR!Of, RunLife, RunTypes, AR!Requests, AR!Names
  <2>2. CASE s # r
    BY <1>0, <1>16, <2>2, LifeFrame DEF AR!LeaveTools, AR!LeavePlain, AR!LeaveOrchestration, AR!Leaves, AR!Written, RunTypes
  <2> QED BY <2>1, <2>2
<1>17. ASSUME NEW n \in AR!Names, AR!DeleteSession(n) PROVE RunLife(s)'
  <2>1. row'[s] \in {row[s], "deleted"} /\ (row[s] = "absent" => row'[s] = "absent") /\ UNCHANGED <<asked, pc, uuid, open, engine, output, behind, registry, charged, client>>
    BY <1>17 DEF AR!DeleteSession, AR!Kept
  <2> QED BY <1>0, <2>1 DEF RunLife, RunTypes, AR!Requests, AR!Names, AR!Kept
<1>18. ASSUME NEW p \in Servers, AR!Crash(p) PROVE RunLife(s)'
  BY <1>0, <1>18 DEF AR!Crash, RunLife, RunTypes, AR!Requests, AR!Names
<1>19. CASE UNCHANGED AR!vars
  BY <1>0, <1>19, LifeFrame DEF AR!vars
<1>20. ASSUME NEW r \in Runs, AR!RetrievalFails(r) \/ AR!AskApproval(r) \/ AR!Abort(r) \/ AR!Cleanup(r) \/ AR!Charge(r) \/ AR!Complete(r) \/ AR!ChargeBehind(r) PROVE RunLife(s)'
  BY <1>4, <1>5, <1>6, <1>20
<1> QED BY <1>1, <1>2, <1>3, <1>8, <1>9, <1>10, <1>11, <1>12, <1>13, <1>14, <1>15, <1>16, <1>17, <1>18, <1>19, <1>20 DEF AR!Next, AR!RunStep

\* Every step leaves the runs that can be approved those whose engine lives.
LEMMA ApprovableStep == ASSUME AR!RunsAssumption, RunTypes, \A r \in Runs : RunLife(r), AR!Approvable, [AR!Next]_(AR!vars) PROVE AR!Approvable'
<1> USE DEF AR!Approvable, AR!Of
<1>1. ASSUME UNCHANGED <<asked, engine, registry>> PROVE AR!Approvable'
  BY <1>1
<1>2. ASSUME NEW owner \in AR!Owners, AR!CreateSession(owner) PROVE AR!Approvable'
  BY <1>1, <1>2 DEF AR!CreateSession, AR!flow
<1>3. ASSUME NEW r \in Runs, NEW k \in KindsOf[r], NEW c \in Callers[r], NEW n \in AR!Names, NEW p \in Servers, AR!Ask(r, k, c, n, p) PROVE AR!Approvable'
  <2>1. engine[r] \notin {"running", "waiting"}
    BY <1>3 DEF AR!Ask, RunLife
  <2>2. \A s \in Runs : s # r => asked'[s] = asked[s]
    BY <1>3 DEF AR!Ask
  <2> QED BY <1>3, <2>1, <2>2 DEF AR!Ask
<1>4. ASSUME NEW r \in Runs, \/ AR!Bind(r) \/ AR!RetrievalFails(r) \/ AR!Charge(r) \/ AR!Complete(r) \/ AR!ChargeBehind(r) \/ AR!Cleanup(r) PROVE AR!Approvable'
  BY <1>1, <1>4 DEF AR!Bind, AR!RetrievalFails, AR!Charge, AR!Complete, AR!ChargeBehind, AR!Cleanup
<1>5. ASSUME NEW r \in Runs, AR!PersistTools(r) \/ AR!PersistPlain(r) \/ AR!PersistOrchestration(r) PROVE AR!Approvable'
  BY <1>1, <1>5 DEF AR!PersistTools, AR!PersistPlain, AR!PersistOrchestration, AR!Persisted
<1>6. ASSUME NEW r \in Runs, AR!AnswerTools(r) \/ AR!AnswerPlain(r) \/ AR!AnswerOrchestration(r) PROVE AR!Approvable'
  BY <1>1, <1>6 DEF AR!AnswerTools, AR!AnswerPlain, AR!AnswerOrchestration, AR!Sent
<1>7. ASSUME NEW r \in Runs, AR!RecordTools(r) \/ AR!RecordPlain(r) \/ AR!RecordOrchestration(r) PROVE AR!Approvable'
  BY <1>1, <1>7 DEF AR!RecordTools, AR!RecordPlain, AR!RecordOrchestration, AR!Recorded
<1>8. ASSUME NEW r \in Runs, AR!LeaveTools(r) \/ AR!LeavePlain(r) \/ AR!LeaveOrchestration(r) PROVE AR!Approvable'
  BY <1>1, <1>8 DEF AR!LeaveTools, AR!LeavePlain, AR!LeaveOrchestration, AR!Leaves
<1>9. ASSUME NEW r \in Runs, NEW o \in AR!Outputs, AR!Respond(r, o) PROVE AR!Approvable'
  BY <1>1, <1>9 DEF AR!Respond
<1>10. ASSUME NEW n \in AR!Names, AR!DeleteSession(n) PROVE AR!Approvable'
  BY <1>1, <1>10 DEF AR!DeleteSession
\* The engine starts, and with it the run can be approved.
<1>11. ASSUME NEW r \in Runs, AR!StartTools(r) PROVE AR!Approvable'
  <2>1. pc[r] = "started" /\ asked[r] \in AR!Requests /\ AR!Of(r, "tools") /\ engine[r] \notin {"running", "waiting"}
    BY <1>11 DEF AR!StartTools, AR!Started, RunLife
  <2>2. asked[r].proc \in Servers
    BY <2>1 DEF AR!Requests
  <2> QED BY <1>11, <2>1, <2>2 DEF AR!StartTools, AR!Started, RunTypes
<1>12. ASSUME NEW r \in Runs, AR!StartPlain(r) \/ AR!StartOrchestration(r) PROVE AR!Approvable'
  BY <1>12 DEF AR!StartPlain, AR!StartOrchestration, AR!Started, RunTypes
<1>13. ASSUME NEW r \in Runs, AR!AskApproval(r) \/ AR!Abort(r) PROVE AR!Approvable'
  BY <1>13 DEF AR!AskApproval, AR!Abort, RunTypes
<1>14. ASSUME NEW r \in Runs, NEW p \in Servers, AR!Approve(r, p) PROVE AR!Approvable'
  BY <1>14 DEF AR!Approve, RunTypes
<1>15. ASSUME NEW r \in Runs, NEW o \in AR!Outputs, AR!EngineEnds(r, o) PROVE AR!Approvable'
  <2>1. asked[r] \in AR!Requests
    BY <1>15 DEF AR!EngineEnds, RunLife
  <2>2. asked[r].proc \in Servers
    BY <2>1 DEF AR!Requests
  <2> QED BY <1>15, <2>2 DEF AR!EngineEnds, AR!Unregistered, RunTypes
<1>16. ASSUME NEW r \in Runs, NEW o \in AR!Outputs, AR!FinishBehind(r, o) PROVE AR!Approvable'
  <2>1. asked[r].kind = "plain"
    BY <1>16 DEF AR!FinishBehind, RunLife
  <2> QED BY <1>16, <2>1 DEF AR!FinishBehind, RunTypes
<1>17. ASSUME NEW p \in Servers, AR!Crash(p) PROVE AR!Approvable'
  BY <1>17 DEF AR!Crash, RunTypes
<1>18. CASE UNCHANGED AR!vars
  BY <1>1, <1>18 DEF AR!vars
<1> QED BY <1>2, <1>3, <1>4, <1>5, <1>6, <1>7, <1>8, <1>9, <1>10, <1>11, <1>12, <1>13, <1>14, <1>15, <1>16, <1>17, <1>18 DEF AR!Next, AR!RunStep

\* A session's id is a number the next one passes.
LEMMA SessionIds == ASSUME AR!RunsAssumption, RunTypes, NEW n \in AR!Names, sessions[n] # None PROVE sessions[n].id \in Nat /\ sessions[n].owner \in AR!Owners
  BY DEF RunTypes, AR!SessionRows

\* A run is bound to a session of its caller, and holds none.
LEMMA BoundTo == ASSUME AR!RunsAssumption, RunTypes, BoundApart, NEW r \in Runs, asked[r] \in AR!Requests, NEW m \in AR!Names, sessions[m] # None,
                        uuid' = [uuid EXCEPT ![r] = sessions[m].id], asked[r].caller = "user" => sessions[m].owner = "user",
                        UNCHANGED <<asked, sessions, next>>, open' \in {open, [open EXCEPT ![r] = FALSE]},
                        ~open'[r]
                 PROVE BoundApart'
<1>1. sessions[m].id \in 1..(next - 1)
  BY DEF BoundApart
<1>2. \A s \in Runs : open'[s] => open[s] /\ s # r
  BY DEF RunTypes
<1>3. \A s \in Runs : s # r => uuid'[s] = uuid[s]
  BY DEF RunTypes
<1>4. uuid'[r] = sessions[m].id
  BY DEF RunTypes
<1> QED BY <1>1, <1>2, <1>3, <1>4 DEF BoundApart, RunTypes

\* A run has a new session, in its transaction or committed.
LEMMA BoundAnew == ASSUME AR!RunsAssumption, RunTypes, BoundApart, NEW r \in Runs, asked[r] \in AR!Requests, UNCHANGED asked,
                          uuid' = [uuid EXCEPT ![r] = next], next' = next + 1,
                          \/ sessions' = sessions
                          \/ /\ sessions[asked[r].name] = None /\ ~open'[r]
                             /\ sessions' = [sessions EXCEPT ![asked[r].name] = [id |-> next, owner |-> asked[r].caller]],
                          \A s \in Runs : s # r => open'[s] = open[s]
                   PROVE BoundApart'
<1>1. \A s \in Runs : uuid'[s] = IF s = r THEN next ELSE uuid[s]
  BY DEF RunTypes
<1>2. \A s \in Runs : uuid[s] \in Nat /\ uuid[s] < next /\ next \in Nat /\ next # 0
  BY DEF RunTypes, BoundApart
<1>3. asked[r].name \in AR!Names /\ asked[r].caller \in AR!Owners
  BY DEF AR!Requests
<1>4. \A n \in AR!Names : sessions[n] # None => sessions[n].id \in Nat /\ sessions[n].id # 0 /\ sessions[n].id < next
  BY <1>2, SessionIds DEF BoundApart, RunTypes
<1>5. [id |-> next, owner |-> asked[r].caller] # None
  BY <1>2, <1>3 DEF AR!RunsAssumption, AR!SessionRows
<1>6. CASE sessions' = sessions
  BY <1>1, <1>2, <1>4, <1>6 DEF BoundApart
<1>7. CASE /\ sessions[asked[r].name] = None /\ ~open'[r]
           /\ sessions' = [sessions EXCEPT ![asked[r].name] = [id |-> next, owner |-> asked[r].caller]]
  <2>1. \A n \in AR!Names : sessions'[n] = IF n = asked[r].name THEN [id |-> next, owner |-> asked[r].caller] ELSE sessions[n]
    BY <1>7 DEF RunTypes
  <2>2. \A n \in AR!Names : sessions'[n] # None => sessions'[n].id \in 1..(next' - 1)
    BY <1>2, <1>4, <2>1
  <2>3. \A m, n \in AR!Names : sessions'[m] # None /\ sessions'[n] # None /\ sessions'[m].id = sessions'[n].id => m = n
    BY <1>4, <2>1 DEF BoundApart
  <2>4. \A s \in Runs : uuid'[s] < next'
    BY <1>1, <1>2
  <2>5. \A s \in Runs, n \in AR!Names : open'[s] /\ sessions'[n] # None => sessions'[n].id # uuid'[s]
    BY <1>1, <1>2, <1>7, <2>1 DEF BoundApart
  <2>6. \A s, q \in Runs : open'[s] /\ s # q => uuid'[s] # uuid'[q]
    BY <1>1, <1>2, <1>7 DEF BoundApart
  <2>7. \A s \in Runs, n \in AR!Names : asked[s] # None /\ asked[s].caller = "user" /\ sessions'[n] # None /\ sessions'[n].id = uuid'[s]
                                            => sessions'[n].owner = "user"
    BY <1>1, <1>2, <1>4, <2>1 DEF BoundApart
  <2> QED BY <2>2, <2>3, <2>4, <2>5, <2>6, <2>7 DEF BoundApart
<1> QED BY <1>6, <1>7

\* What a run holds is given up, or inserted where it can be.
LEMMA BoundInserted == ASSUME AR!RunsAssumption, RunTypes, BoundApart, NEW r \in Runs, asked[r] \in AR!Requests, UNCHANGED <<asked, uuid, next>>,
                              open' = [open EXCEPT ![r] = FALSE],
                              \/ sessions' = sessions
                              \/ /\ open[r] /\ uuid[r] # 0 /\ sessions[asked[r].name] = None
                                 /\ sessions' = [sessions EXCEPT ![asked[r].name] = [id |-> uuid[r], owner |-> asked[r].caller]]
                       PROVE BoundApart'
<1>1. \A s \in Runs : open'[s] => open[s] /\ s # r
  BY DEF RunTypes
<1>2. CASE sessions' = sessions
  BY <1>1, <1>2 DEF BoundApart
<1>3. CASE /\ open[r] /\ uuid[r] # 0 /\ sessions[asked[r].name] = None
           /\ sessions' = [sessions EXCEPT ![asked[r].name] = [id |-> uuid[r], owner |-> asked[r].caller]]
  <2>1. asked[r].name \in AR!Names /\ asked[r].caller \in AR!Owners
    BY DEF AR!Requests
  <2>2. \A n \in AR!Names : sessions'[n] = IF n = asked[r].name THEN [id |-> uuid[r], owner |-> asked[r].caller] ELSE sessions[n]
    BY <1>3 DEF RunTypes
  <2>3. uuid[r] \in Nat /\ next \in Nat /\ uuid[r] < next
    BY DEF RunTypes, BoundApart
  <2>4. \A n \in AR!Names : sessions'[n] # None => sessions'[n].id \in 1..(next - 1)
    BY <2>2, <2>3 DEF BoundApart
  <2>5. \A m, n \in AR!Names : sessions'[m] # None /\ sessions'[n] # None /\ sessions'[m].id = sessions'[n].id => m = n
    BY <1>3, <2>2 DEF BoundApart
  <2>6. \A s \in Runs, n \in AR!Names : open'[s] /\ sessions'[n] # None => sessions'[n].id # uuid[s]
    BY <1>1, <1>3, <2>2 DEF BoundApart
  <2>7. \A s, q \in Runs : open'[s] /\ s # q => uuid[s] # uuid[q]
    BY <1>1 DEF BoundApart
  <2>8. \A s \in Runs, n \in AR!Names : asked[s] # None /\ asked[s].caller = "user" /\ sessions'[n] # None /\ sessions'[n].id = uuid[s]
                                            => sessions'[n].owner = "user"
    BY <1>3, <2>2 DEF BoundApart
  <2> QED BY <2>4, <2>5, <2>6, <2>7, <2>8 DEF BoundApart
<1> QED BY <1>2, <1>3

\* What the caller finds is a session of that name, and a user's own.
LEMMA FoundIs == ASSUME NEW r \in Runs, asked[r] \in AR!Requests
                 PROVE /\ AR!Found(r) = "mine" => sessions[asked[r].name] # None /\ (asked[r].caller = "user" => sessions[asked[r].name].owner = "user")
                       /\ AR!Found(r) = "new" => sessions[asked[r].name] = None
                       /\ AR!Found(r) \in {"mine", "new", "refused"} /\ asked[r].name \in AR!Names
  BY DEF AR!Found, AR!Requests, AR!Owners

\* The exception handler binds the run to what it finds, or to nothing.
LEMMA BoundFails == ASSUME AR!RunsAssumption, RunTypes, BoundApart, NEW r \in Runs, asked[r] \in AR!Requests, UNCHANGED asked, AR!Fails(r) PROVE BoundApart'
<1>1. CASE asked[r].kind = "single" /\ AR!Found(r) # "refused" /\ row[r] = "absent" /\ AR!Found(r) = "mine"
  <2>1. /\ uuid' = [uuid EXCEPT ![r] = sessions[asked[r].name].id] /\ UNCHANGED <<sessions, next>>
        /\ open' = [open EXCEPT ![r] = FALSE]
    BY <1>1 DEF AR!Fails
  <2>2. ~open'[r]
    BY <2>1 DEF RunTypes
  <2> QED BY <1>1, <2>1, <2>2, FoundIs, BoundTo
<1>2. CASE asked[r].kind = "single" /\ AR!Found(r) # "refused" /\ row[r] = "absent" /\ AR!Found(r) # "mine"
  <2>1. /\ uuid' = [uuid EXCEPT ![r] = next] /\ next' = next + 1 /\ open' = [open EXCEPT ![r] = FALSE]
        /\ sessions' = [sessions EXCEPT ![asked[r].name] = [id |-> next, owner |-> asked[r].caller]]
    BY <1>2 DEF AR!Fails
  <2>2. ~open'[r] /\ \A s \in Runs : s # r => open'[s] = open[s]
    BY <2>1 DEF RunTypes
  <2> QED BY <1>2, <2>1, <2>2, FoundIs, BoundAnew
<1>3. CASE ~(asked[r].kind = "single" /\ AR!Found(r) # "refused" /\ row[r] = "absent")
  <2>1. open' = [open EXCEPT ![r] = FALSE] /\ UNCHANGED <<uuid, sessions, next>>
    BY <1>3 DEF AR!Fails
  <2> QED BY <2>1, BoundInserted
<1> QED BY <1>1, <1>2, <1>3

\* A row that can be inserted is of the session the run has.
LEMMA BoundInserts == ASSUME AR!RunsAssumption, RunTypes, BoundApart, NEW r \in Runs, asked[r] \in AR!Requests, RunLife(r), NEW st, AR!CanInsert(r), AR!Inserted(r, st),
                             UNCHANGED <<asked, uuid, next>>
                      PROVE BoundApart'
<1>1. CASE open[r]
  <2>1. uuid[r] # 0 /\ sessions[asked[r].name] = None
    BY <1>1 DEF RunLife, AR!CanInsert
  <2> QED BY <1>1, <2>1, BoundInserted DEF AR!Inserted
<1>2. CASE ~open[r]
  BY <1>2, BoundInserted DEF AR!Inserted
<1> QED BY <1>1, <1>2

\* Every step leaves runs bound to sessions of their own callers.
LEMMA BoundStep == ASSUME AR!RunsAssumption, RunTypes, \A r \in Runs : RunLife(r), BoundApart, [AR!Next]_(AR!vars) PROVE BoundApart'
<1>1. ASSUME UNCHANGED <<asked, uuid, open, sessions, next>> PROVE BoundApart'
  BY <1>1 DEF BoundApart
<1>2. ASSUME NEW owner \in AR!Owners, AR!CreateSession(owner) PROVE BoundApart'
  <2>1. \A n \in AR!Names : sessions'[n] = IF n = AR!Shared THEN [id |-> 1, owner |-> owner] ELSE sessions[n]
    BY <1>2 DEF AR!CreateSession, RunTypes
  <2>2. next = 1 /\ next' = 2 /\ UNCHANGED <<asked, uuid, open>>
    BY <1>2 DEF AR!CreateSession, AR!flow
  <2>3. \A n \in AR!Names : sessions[n] = None
    BY <2>2 DEF BoundApart
  <2>4. \A r \in Runs : uuid[r] = 0
    BY <2>2 DEF BoundApart, RunTypes
  <2>5. \A n \in AR!Names : sessions'[n] # None => sessions'[n].id = 1
    BY <2>1, <2>3
  <2> QED BY <2>1, <2>2, <2>3, <2>4, <2>5 DEF BoundApart, RunLife
<1>3. ASSUME NEW r \in Runs, NEW k \in KindsOf[r], NEW c \in Callers[r], NEW n \in AR!Names, NEW p \in Servers, AR!Ask(r, k, c, n, p) PROVE BoundApart'
  <2>1. uuid[r] = 0
    BY <1>3 DEF AR!Ask, RunLife
  <2>2. \A s \in Runs : s # r => asked'[s] = asked[s]
    BY <1>3 DEF AR!Ask, RunTypes
  <2> QED BY <1>3, <2>1, <2>2 DEF AR!Ask, BoundApart
<1>4. ASSUME NEW r \in Runs, AR!Bind(r) PROVE BoundApart'
  <2>1. asked[r] \in AR!Requests /\ ~open[r] /\ UNCHANGED asked
    BY <1>4 DEF AR!Bind, RunLife
  <2>2. CASE AR!Found(r) = "refused"
    BY <1>1, <1>4, <2>2 DEF AR!Bind
  <2>3. CASE AR!Found(r) = "mine"
    <3>1. uuid' = [uuid EXCEPT ![r] = sessions[asked[r].name].id] /\ UNCHANGED <<open, sessions, next>>
      BY <1>4, <2>3 DEF AR!Bind
    <3>2. open' \in {open, [open EXCEPT ![r] = FALSE]} /\ ~open'[r]
      BY <2>1, <3>1
    <3> QED BY <2>1, <2>3, <3>1, <3>2, FoundIs, BoundTo
  <2>4. CASE AR!Found(r) = "new"
    <3>1. uuid' = [uuid EXCEPT ![r] = next] /\ next' = next + 1 /\ \A s \in Runs : s # r => open'[s] = open[s]
      BY <1>4, <2>4 DEF AR!Bind, RunTypes
    <3>2. \/ sessions' = sessions
          \/ ~open'[r] /\ sessions' = [sessions EXCEPT ![asked[r].name] = [id |-> next, owner |-> asked[r].caller]]
      BY <1>4, <2>4 DEF AR!Bind, RunTypes
    <3> QED BY <2>1, <2>4, <3>1, <3>2, FoundIs, BoundAnew
  <2> QED BY <2>1, <2>2, <2>3, <2>4, FoundIs
<1>5. ASSUME NEW r \in Runs, AR!RetrievalFails(r) PROVE BoundApart'
  <2>1. \A s \in Runs : open'[s] => open[s]
    BY <1>5 DEF AR!RetrievalFails, RunTypes
  <2> QED BY <1>5, <2>1 DEF AR!RetrievalFails, BoundApart
<1>6. ASSUME NEW r \in Runs, AR!PersistTools(r) \/ AR!PersistPlain(r) \/ AR!PersistOrchestration(r) PROVE BoundApart'
  <2>1. AR!Persisted(r) /\ asked[r] \in AR!Requests /\ RunLife(r)
    BY <1>6 DEF AR!PersistTools, AR!PersistPlain, AR!PersistOrchestration, AR!Persisted, RunLife
  <2> QED BY <2>1, BoundInserts, BoundFails DEF AR!Persisted
<1>7. ASSUME NEW r \in Runs, AR!AnswerTools(r) \/ AR!AnswerPlain(r) \/ AR!AnswerOrchestration(r) PROVE BoundApart'
  <2>1. AR!Sent(r) /\ asked[r] \in AR!Requests /\ RunLife(r)
    BY <1>7 DEF AR!AnswerTools, AR!AnswerPlain, AR!AnswerOrchestration, AR!Sent, RunLife
  <2> QED BY <1>1, <2>1, BoundFails DEF AR!Sent
<1>8. ASSUME NEW r \in Runs, NEW o \in AR!Outputs, AR!Respond(r, o) PROVE BoundApart'
  <2>1. asked[r] \in AR!Requests /\ RunLife(r)
    BY <1>8 DEF AR!Respond, RunLife
  <2> QED BY <1>8, <2>1, BoundInserts, BoundFails DEF AR!Respond
<1>9. ASSUME NEW r \in Runs, AR!RecordTools(r) \/ AR!RecordPlain(r) \/ AR!RecordOrchestration(r) PROVE BoundApart'
  BY <1>1, <1>9 DEF AR!RecordTools, AR!RecordPlain, AR!RecordOrchestration, AR!Recorded
<1>10. ASSUME NEW r \in Runs, AR!LeaveTools(r) \/ AR!LeavePlain(r) \/ AR!LeaveOrchestration(r) PROVE BoundApart'
  BY <1>1, <1>10 DEF AR!LeaveTools, AR!LeavePlain, AR!LeaveOrchestration, AR!Leaves
<1>11. ASSUME NEW r \in Runs, AR!StartTools(r) \/ AR!StartPlain(r) \/ AR!StartOrchestration(r) PROVE BoundApart'
  BY <1>1, <1>11 DEF AR!StartTools, AR!StartPlain, AR!StartOrchestration, AR!Started
<1>12. ASSUME NEW r \in Runs, \/ AR!AskApproval(r) \/ AR!Charge(r) \/ AR!Complete(r) \/ AR!Abort(r) \/ AR!ChargeBehind(r) \/ AR!Cleanup(r) PROVE BoundApart'
  BY <1>1, <1>12 DEF AR!AskApproval, AR!Charge, AR!Complete, AR!Abort, AR!ChargeBehind, AR!Cleanup
<1>13. ASSUME NEW r \in Runs, NEW p \in Servers, AR!Approve(r, p) PROVE BoundApart'
  BY <1>1, <1>13 DEF AR!Approve
<1>14. ASSUME NEW r \in Runs, NEW o \in AR!Outputs, AR!EngineEnds(r, o) \/ AR!FinishBehind(r, o) PROVE BoundApart'
  BY <1>1, <1>14 DEF AR!EngineEnds, AR!FinishBehind
<1>15. ASSUME NEW n \in AR!Names, AR!DeleteSession(n) PROVE BoundApart'
  <2>1. \A m \in AR!Names : sessions'[m] # None => sessions'[m] = sessions[m]
    BY <1>15 DEF AR!DeleteSession, RunTypes
  <2> QED BY <1>15, <2>1 DEF AR!DeleteSession, BoundApart
<1>16. ASSUME NEW p \in Servers, AR!Crash(p) PROVE BoundApart'
  <2>1. \A s \in Runs : open'[s] => open[s]
    BY <1>16 DEF AR!Crash
  <2> QED BY <1>16, <2>1 DEF AR!Crash, BoundApart
<1>17. CASE UNCHANGED AR!vars
  BY <1>1, <1>17 DEF AR!vars
<1> QED BY <1>2, <1>3, <1>4, <1>5, <1>6, <1>7, <1>8, <1>9, <1>10, <1>11, <1>12, <1>13, <1>14, <1>15, <1>16, <1>17 DEF AR!Next, AR!RunStep

\* The invariant the properties follow from.
THEOREM RunsAreKept == ASSUME AR!RunsAssumption PROVE AR!Spec => []RunsInv
<1>1. AR!Init => RunsInv
  <2> SUFFICES ASSUME AR!Init PROVE RunsInv
    OBVIOUS
  <2>1. RunTypes
    BY DEF AR!Init, RunTypes, RunPlaces, AR!Kept
  <2>2. \A r \in Runs : RunLife(r)
    BY DEF AR!Init, RunLife
  <2>3. AR!Approvable
    BY DEF AR!Init, AR!Approvable
  <2>4. BoundApart
    BY DEF AR!Init, BoundApart
  <2> QED BY <2>1, <2>2, <2>3, <2>4 DEF RunsInv
<1>2. RunsInv /\ [AR!Next]_(AR!vars) => RunsInv'
  BY RunTypesStep, RunLifeStep, ApprovableStep, BoundStep DEF RunsInv
<1> QED BY <1>1, <1>2, PTL DEF AR!Spec

(* Every variable keeps its type, and no run is charged twice. *)
THEOREM RunsTypeCorrect == ASSUME AR!RunsAssumption PROVE AR!Spec => []AR!TypeOK
<1>1. RunsInv => AR!TypeOK
  BY DEF RunsInv, RunTypes, AR!TypeOK, RunPlaces
<1> QED BY <1>1, RunsAreKept, PTL

(* Whoever is told that a run completed finds it recorded and paid for, and the
   thread that takes over from a request never shares the run with it, whatever
   leaves, fails, restarts or is cleaned up. *)
THEOREM RunsFinishOnce == ASSUME AR!RunsAssumption PROVE AR!Spec => [](AR!ToldCompleted /\ AR!OneFinisher)
<1>1. RunsInv => AR!ToldCompleted /\ AR!OneFinisher
  BY DEF RunsInv, RunLife, AR!ToldCompleted, AR!OneFinisher
<1> QED BY <1>1, RunsAreKept, PTL

(* An approval finds exactly the runs whose engine lives, and a user's run is kept
   in that user's session, though sessions are deleted and made again under it. *)
THEOREM RunsArePlaced == ASSUME AR!RunsAssumption PROVE AR!Spec => [](AR!Approvable /\ AR!OwnSession)
<1>1. RunsInv => AR!Approvable /\ AR!OwnSession
  <2> SUFFICES ASSUME RunsInv, NEW r \in Runs, NEW n \in AR!Names, row[r] \in AR!Kept, asked[r].caller = "user",
                      sessions[n] # None, sessions[n].id = uuid[r]
               PROVE sessions[n].owner = "user"
    BY DEF RunsInv, AR!OwnSession
  <2>1. sessions[n].id # 0
    BY DEF RunsInv, BoundApart
  <2>2. pc[r] # "none"
    BY <2>1 DEF RunsInv, RunLife
  <2> QED BY <2>2 DEF RunsInv, RunLife, BoundApart, AR!RunsAssumption
<1> QED BY <1>1, RunsAreKept, PTL

-----------------------------------------------------------------------------
(* Turns of the copilots. *)

TurnPlaces == CT!Working \union {"none", "found", "refused", "done", "dead"}
\* A lock is a turn's, and a turn that works and was not excused has it.
LockInv == turn \in [Turns -> TurnPlaces] /\ CT!LockHeld

\* Times are numbers, and a transaction began before now.
TurnsTimed == clock \in Nat /\ begun \in [Turns -> Nat] /\ reply \in [Turns -> {"none", "saving", "placing", "apologizing"}]
         /\ turn \in [Turns -> TurnPlaces]
TurnTypes == TurnsTimed /\ CT!TypeOK

(* Every variable keeps its type, and a turn's transaction began before now. *)
THEOREM TurnsTypeCorrect == CT!Spec => []CT!TypeOK
<1> USE DEF TurnTypes, TurnsTimed, CT!TypeOK, TurnPlaces, CT!Working
<1>1. CT!Init => TurnTypes
  BY DEF CT!Init
<1>2. TurnTypes /\ [CT!Next]_(CT!vars) => TurnTypes'
  <2> SUFFICES ASSUME TurnTypes, [CT!Next]_(CT!vars) PROVE TurnTypes'
    OBVIOUS
  \* Where a turn goes, with the time it began.
  <2>1. ASSUME NEW t \in Turns, NEW to \in TurnPlaces, turn' = [turn EXCEPT ![t] = to], lock' \in {lock, t, None},
               exists' = exists, UNCHANGED <<begun, clock>> \/ (begun' = [begun EXCEPT ![t] = clock] /\ clock' = clock + 1),
               UNCHANGED reply \/ (turn[t] \in {"saving", "placing", "apologizing"} /\ reply' = [reply EXCEPT ![t] = turn[t]])
        PROVE TurnTypes'
    BY <2>1
  <2>2. ASSUME NEW t \in Turns, CT!Ask(t) \/ CT!Acquire(t) \/ CT!FailOpen(t) \/ CT!Gated(t) \/ CT!Message(t) \/ CT!Read(t) PROVE TurnTypes'
    BY <2>1, <2>2 DEF CT!Ask, CT!Acquire, CT!FailOpen, CT!Gated, CT!Message, CT!Read, CT!Freed
  <2>3. ASSUME NEW t \in Turns, CT!Answer(t) \/ CT!Answered(t) \/ CT!Raises(t) \/ CT!Save(t) PROVE TurnTypes'
    BY <2>1, <2>3 DEF CT!Answer, CT!Answered, CT!Raises, CT!Save
  <2>4. ASSUME NEW t \in Turns, CT!SaveFails(t) \/ CT!Release(t) \/ CT!Close(t) \/ CT!Crash(t) PROVE TurnTypes'
    BY <2>1, <2>4 DEF CT!SaveFails, CT!AfterFailure, CT!Release, CT!Close, CT!Crash, CT!Freed
  <2>5. CASE CT!Lapse \/ CT!Delete \/ UNCHANGED CT!vars
    BY <2>5 DEF CT!Lapse, CT!Delete, CT!vars
  <2> QED BY <2>2, <2>3, <2>4, <2>5 DEF CT!Next, CT!TurnStep
<1> QED BY <1>1, <1>2, PTL DEF CT!Spec

(* A turn that works holds its session's lock, and no two turns of one session
   work at a time, whatever fails, lapses or leaves, but for the turns whose lock
   lapsed or was given up under them. *)
THEOREM LockKeepsTurnsApart == ASSUME None \notin Turns PROVE CT!Spec => []CT!TurnsAreApart
<1> USE DEF TurnPlaces, CT!Working
<1>1. CT!Init => LockInv
  BY DEF CT!Init, LockInv, CT!LockHeld
<1>2. LockInv /\ [CT!Next]_(CT!vars) => LockInv'
  <2> SUFFICES ASSUME LockInv, [CT!Next]_(CT!vars) PROVE LockInv'
    OBVIOUS
  <2> USE DEF LockInv, CT!LockHeld
  \* A step of one turn that leaves the lock alone and does not begin to work.
  <2>1. ASSUME NEW t \in Turns, NEW to \in TurnPlaces, turn' = [turn EXCEPT ![t] = to], to \in CT!Working => turn[t] \in CT!Working,
               UNCHANGED lock, excused \subseteq excused'
        PROVE LockInv'
    BY <2>1
  \* A step after which the turn does not work, and whatever lock it had is freed.
  <2>2. ASSUME NEW t \in Turns, NEW to \in TurnPlaces, turn' = [turn EXCEPT ![t] = to], to \notin CT!Working \/ t \in excused',
               lock' = CT!Freed(t), excused \subseteq excused'
        PROVE LockInv'
    BY <2>2 DEF CT!Freed
  <2>3. ASSUME NEW t \in Turns, CT!Acquire(t) PROVE LockInv'
    BY <2>3 DEF CT!Acquire, CT!Free
  <2>4. ASSUME NEW t \in Turns, CT!FailOpen(t) PROVE LockInv'
    BY <2>4 DEF CT!FailOpen
  <2>5. ASSUME NEW t \in Turns, CT!Gated(t) \/ CT!Release(t) PROVE LockInv'
    BY <2>2, <2>5 DEF CT!Gated, CT!Release
  <2>6. ASSUME NEW t \in Turns, CT!Close(t) PROVE LockInv'
    BY <2>2, <2>6 DEF CT!Close
  <2>7. ASSUME NEW t \in Turns, CT!Ask(t) \/ CT!Message(t) \/ CT!Read(t) \/ CT!Answer(t) \/ CT!Answered(t) PROVE LockInv'
    BY <2>1, <2>7 DEF CT!Ask, CT!Message, CT!Read, CT!Answer, CT!Answered
  <2>8. ASSUME NEW t \in Turns, CT!Raises(t) \/ CT!Save(t) \/ CT!Crash(t) PROVE LockInv'
    BY <2>1, <2>8 DEF CT!Raises, CT!Save, CT!Crash
  <2>9. ASSUME NEW t \in Turns, CT!SaveFails(t) PROVE LockInv'
    BY <2>1, <2>9 DEF CT!SaveFails, CT!AfterFailure
  <2>10. CASE CT!Lapse
    BY <2>10 DEF CT!Lapse
  <2>11. CASE CT!Delete \/ UNCHANGED CT!vars
    BY <2>11 DEF CT!Delete, CT!vars
  <2> QED BY <2>3, <2>4, <2>5, <2>6, <2>7, <2>8, <2>9, <2>10, <2>11 DEF CT!Next, CT!TurnStep
<1>3. LockInv => CT!TurnsAreApart
  BY DEF LockInv, CT!LockHeld, CT!TurnsApart, CT!TurnsAreApart
<1> QED BY <1>1, <1>2, <1>3, PTL DEF CT!Spec

-----------------------------------------------------------------------------
(* What a turn is given, and what it leaves. The order of the messages and the repair
   of a history are written by counting, with no recursion. *)

\* The turns count as the theorems about finite sets do.
LEMMA TurnsCount == \A S : CT!Cardinality(S) = Cardinality(S)
  BY DEF CT!Cardinality, Cardinality

\* A function on 1..m is a sequence of m.
LEMMA Listed == ASSUME NEW X, NEW m \in Nat, NEW s \in [1..m -> X] PROVE s \in Seq(X) /\ Len(s) = m /\ DOMAIN s = 1..m
<1>1. s \in Seq(X) BY IsASeq
<1>2. DOMAIN s = 1..m /\ DOMAIN s = 1..Len(s) /\ Len(s) \in Nat BY <1>1, LenProperties
<1>3. Len(s) = m
  <2>1. \A a, b \in Nat : 1..a = 1..b => a = b
    <3> SUFFICES ASSUME NEW a \in Nat, NEW b \in Nat, 1..a = 1..b, a # b PROVE FALSE OBVIOUS
    <3>1. CASE a < b
      <4>1. b \in 1..b /\ b \notin 1..a BY <3>1
      <4> QED BY <4>1
    <3>2. CASE b < a
      <4>1. a \in 1..a /\ a \notin 1..b BY <3>2
      <4> QED BY <4>1
    <3> QED BY <3>1, <3>2
  <2> QED BY <1>2, <2>1
<1> QED BY <1>1, <1>2, <1>3

\* The numbers up to one are finitely many, that many.
LEMMA Numbers == ASSUME NEW c \in Nat PROVE IsFiniteSet(1..c) /\ Cardinality(1..c) = c
<1>1. IsFiniteSet(1..c) /\ Cardinality(1..c) = IF 1 > c THEN 0 ELSE c - 1 + 1 BY FS_Interval
<1> QED BY <1>1

\* Of numbers there are, one is the first.
LEMMA FirstOne == ASSUME NEW S \in SUBSET Nat, S # {} PROVE \E i \in S : \A j \in S : i <= j
<1>1. PICK i \in S : \A j \in S : ~(<<j, i>> \in OpToRel(<, Nat))
  <2>1. IsWellFoundedOn(OpToRel(<, Nat), Nat) BY NatLessThanWellFounded
  <2> QED BY <2>1, WFMin
<1>2. \A j \in S : ~(j < i) BY <1>1 DEF OpToRel
<1> QED BY <1>2

\* Messages in order are a sequence.
LEMMA OrderedIs == ASSUME NEW set, IsFiniteSet(set), NEW q, q = CT!InOrder(set) PROVE \E V : q \in Seq(V)
<1>1. PICK c : c = Cardinality(set) OBVIOUS
<1>2. c \in Nat BY <1>1, FS_CardinalityType
<1>3. CT!Cardinality(set) = c BY <1>1, TurnsCount
<1>4. q \in [1..c -> {q[k] : k \in 1..c}] BY <1>3 DEF CT!InOrder
<1> QED BY <1>2, <1>4, Listed

\* The last of them are no more than the window.
LEMMA LastIs == ASSUME Window \in Nat, NEW V, NEW s \in Seq(V), NEW q, q = CT!LastOf(s) PROVE q \in Seq(V) /\ Len(q) \in Nat /\ Len(q) <= Window
<1>1. Len(s) \in Nat BY LenProperties
<1>2. CASE Len(s) <= Window BY <1>1, <1>2 DEF CT!LastOf
<1>3. CASE Len(s) > Window
  <2> DEFINE first == Len(s) - Window + 1
  <2>1. q = SubSeq(s, first, Len(s)) BY <1>3 DEF CT!LastOf
  <2>2. first \in 1..Len(s) + 1 BY <1>1, <1>3
  <2>3. q \in Seq(V) /\ Len(q) = (IF first <= Len(s) THEN Len(s) - first + 1 ELSE 0) BY <1>1, <2>1, <2>2, SubSeqProperties
  <2> QED BY <1>1, <1>3, <2>3
<1> QED BY <1>1, <1>2, <1>3

\* What is trimmed begins with the user, if there is any of it.
LEMMA TrimmedIs ==
  ASSUME NEW V, NEW s \in Seq(V), NEW q, q = CT!Trimmed(s)
  PROVE  q \in Seq(V) /\ Len(q) \in Nat /\ Len(q) <= Len(s) /\ (Len(q) # 0 => q[1].role = "user")
<1> DEFINE users == {i \in DOMAIN s : s[i].role = "user"}
<1>1. Len(s) \in Nat /\ DOMAIN s = 1..Len(s) BY LenProperties
<1>2. CASE users = {}
  <2>1. q = <<>> BY <1>2 DEF CT!Trimmed
  <2> QED BY <1>1, <2>1
<1>3. CASE users # {}
  <2>1. users \in SUBSET Nat BY <1>1
  <2>2. \E i \in users : \A j \in users : i <= j
    <3> HIDE DEF users
    <3> QED BY <1>3, <2>1, FirstOne
  <2>3. PICK i : i = CHOOSE x \in users : \A j \in users : x <= j OBVIOUS
  <2>4. i \in users BY <2>2, <2>3
  <2>5. q = SubSeq(s, i, Len(s)) BY <1>3, <2>3 DEF CT!Trimmed
  <2>6. i \in 1..Len(s) /\ s[i].role = "user" BY <1>1, <2>4
  <2> HIDE DEF users
  <2>7. q \in Seq(V) /\ Len(q) = Len(s) - i + 1 /\ \A k \in 1..(Len(s) - i + 1) : q[k] = s[i + k - 1] BY <1>1, <2>5, <2>6, SubSeqProperties
  <2>8. q[1] = s[i] BY <1>1, <2>6, <2>7
  <2> QED BY <1>1, <2>6, <2>7, <2>8
<1> QED BY <1>2, <1>3

(* What is repaired begins as it did, is at most twice as long, and has, for a
   workflow, no message of the user after another: where two followed each other
   the second has moved one place further than the first. *)
LEMMA RepairedIs ==
  ASSUME NEW V, NEW s \in Seq(V), Len(s) # 0 => s[1].role = "user", NEW r, r = CT!Repaired(s)
  PROVE  \E m \in Nat : /\ m <= 2 * Len(s) /\ DOMAIN r = 1..m /\ (m # 0 => r[1].role = "user")
                        /\ copilot = "workflow" => \A k \in 1..(m - 1) : ~(r[k].role = "user" /\ r[k + 1].role = "user")
<1>1. Len(s) \in Nat /\ DOMAIN s = 1..Len(s) BY LenProperties
<1>2. CASE copilot = "project"
  <2>1. r = s BY <1>2 DEF CT!Repaired
  <2>2. Len(s) <= 2 * Len(s) BY <1>1
  <2> QED BY <1>1, <1>2, <2>1, <2>2
<1>3. CASE copilot # "project"
  <2>1. PICK G : G = CT!Gaps(s) OBVIOUS
  <2>2. G = {i \in 2..Len(s) : s[i - 1].role = "user" /\ s[i].role = "user"} BY <2>1 DEF CT!Gaps
  <2>3. IsFiniteSet(1..Len(s)) /\ Cardinality(1..Len(s)) = Len(s) BY <1>1, Numbers
  <2>4. G \subseteq 1..Len(s) BY <1>1, <2>2
  <2>5. IsFiniteSet(G) /\ Cardinality(G) \in Nat /\ Cardinality(G) <= Len(s)
    <3>1. IsFiniteSet(G) /\ Cardinality(G) <= Cardinality(1..Len(s)) BY <2>3, <2>4, FS_Subset
    <3> QED BY <2>3, <3>1, FS_CardinalityType
  <2> DEFINE upto == [i \in 1..Len(s) |-> {g \in G : g <= i}]
             moved == [i \in 1..Len(s) |-> i + Cardinality(upto[i])]
             m == Len(s) + Cardinality(G)
  <2>6. ASSUME NEW i \in 1..Len(s) PROVE upto[i] = {g \in G : g <= i} /\ IsFiniteSet(upto[i]) /\ Cardinality(upto[i]) \in Nat
    <3>1. upto[i] \subseteq G OBVIOUS
    <3> QED BY <2>5, <3>1, FS_Subset, FS_CardinalityType
  <2>7. \A i \in 1..Len(s) : CT!Moved(s, i) = moved[i] BY <2>1, TurnsCount DEF CT!Moved
  <2>8. r = [k \in 1..m |-> IF \E i \in 1..Len(s) : CT!Moved(s, i) = k THEN s[CHOOSE i \in 1..Len(s) : CT!Moved(s, i) = k] ELSE CT!Said]
    BY <1>1, <1>3, <2>1, TurnsCount DEF CT!Repaired
  <2>9. \A i \in 1..Len(s) : moved[i] = i + Cardinality(upto[i]) OBVIOUS
  <2>10. m \in Nat /\ m <= 2 * Len(s) BY <1>1, <2>5
  <2> HIDE DEF upto, moved, m
  <2>11. ASSUME NEW k \in 1..m, r[k].role = "user" PROVE \E i \in 1..Len(s) : moved[i] = k /\ r[k] = s[i]
    <3>1. CASE \E i \in 1..Len(s) : CT!Moved(s, i) = k
      <4>1. PICK i : i = CHOOSE x \in 1..Len(s) : CT!Moved(s, x) = k OBVIOUS
      <4>2. i \in 1..Len(s) /\ CT!Moved(s, i) = k BY <3>1, <4>1
      <4>3. r[k] = s[i] BY <2>8, <3>1, <4>1
      <4> QED BY <2>7, <4>2, <4>3
    <3>2. CASE ~ \E i \in 1..Len(s) : CT!Moved(s, i) = k
      <4>1. r[k] = CT!Said BY <2>8, <3>2
      <4> QED BY <2>11, <4>1 DEF CT!Said
    <3> QED BY <3>1, <3>2
  \* What lies before a place lies before the next, and a gap is one more.
  <2>12. ASSUME NEW i \in 1..Len(s), NEW j \in 1..Len(s), i <= j
         PROVE  /\ Cardinality(upto[i]) <= Cardinality(upto[j])
                /\ (i < j /\ j \in G) => Cardinality(upto[i]) + 1 <= Cardinality(upto[j])
    <3>1. upto[i] \subseteq upto[j]
      <4> SUFFICES ASSUME NEW g \in upto[i] PROVE g \in upto[j] OBVIOUS
      <4>1. g \in G /\ g <= i BY <2>6
      <4>2. g \in Int /\ i \in Int /\ j \in Int BY <1>1, <2>4, <4>1
      <4>3. g <= j BY <2>12, <4>1, <4>2
      <4> QED BY <2>6, <4>1, <4>3
    <3>2. Cardinality(upto[i]) <= Cardinality(upto[j]) BY <2>6, <3>1, FS_Subset
    <3>3. ASSUME i < j, j \in G PROVE Cardinality(upto[i]) + 1 <= Cardinality(upto[j])
      <4>1. i \in Int /\ j \in Int BY <1>1
      <4>2. j \notin upto[i] /\ j \in upto[j] BY <2>6, <3>3, <4>1
      <4>3. upto[i] # upto[j] BY <4>2
      <4>4. Cardinality(upto[i]) # Cardinality(upto[j]) BY <2>6, <3>1, <4>3, FS_Subset
      <4>5. Cardinality(upto[i]) \in Nat /\ Cardinality(upto[j]) \in Nat BY <2>6
      <4> QED BY <3>2, <4>4, <4>5
    <3> QED BY <3>2, <3>3
  <2>13. m # 0 => r[1].role = "user"
    <3> SUFFICES ASSUME m # 0 PROVE r[1].role = "user" OBVIOUS
    <3>1. Len(s) # 0 BY <1>1, <2>5, <2>10 DEF m
    <3>2. 1 \in 1..Len(s) BY <1>1, <3>1
    <3>3. upto[1] = {}
      <4>1. \A g \in G : g \in Int /\ g >= 2 BY <1>1, <2>2
      <4>2. ASSUME NEW g \in upto[1] PROVE FALSE
        <5>1. g \in G /\ g <= 1 BY <2>6, <3>2
        <5> QED BY <4>1, <5>1
      <4> QED BY <4>2
    <3>4. moved[1] = 1
      <4>1. Cardinality(upto[1]) = 0 BY <3>3, FS_EmptySet
      <4> QED BY <2>9, <3>2, <4>1
    <3>5. CT!Moved(s, 1) = 1 BY <2>7, <3>2, <3>4
    <3>6. PICK i : i = CHOOSE x \in 1..Len(s) : CT!Moved(s, x) = 1 OBVIOUS
    <3>7. i \in 1..Len(s) /\ CT!Moved(s, i) = 1 BY <3>2, <3>5, <3>6
    <3>8. i = 1
      <4>1. i + Cardinality(upto[i]) = 1 BY <2>7, <2>9, <3>7
      <4>2. Cardinality(upto[i]) \in Nat /\ i \in Nat /\ i >= 1 BY <1>1, <2>6, <3>7
      <4> QED BY <4>1, <4>2
    <3>9. 1 \in 1..m BY <2>10
    <3>10. \E x \in 1..Len(s) : CT!Moved(s, x) = 1 BY <3>7
    <3>11. r[1] = s[i] BY <2>8, <3>6, <3>9, <3>10
    <3> QED BY <3>1, <3>8, <3>11
  <2>14. ASSUME NEW k \in 1..(m - 1), r[k].role = "user", r[k + 1].role = "user" PROVE FALSE
    <3>1. k \in 1..m /\ k + 1 \in 1..m /\ k \in Int BY <2>10
    <3>2. PICK i \in 1..Len(s) : moved[i] = k /\ r[k] = s[i] BY <2>11, <2>14, <3>1
    <3>3. PICK j \in 1..Len(s) : moved[j] = k + 1 /\ r[k + 1] = s[j] BY <2>11, <2>14, <3>1
    <3>4. PICK a, b \in Nat : a = Cardinality(upto[i]) /\ b = Cardinality(upto[j]) BY <2>6
    <3>5. i + a = k /\ j + b = k + 1 /\ i \in Int /\ j \in Int BY <1>1, <2>9, <3>2, <3>3, <3>4
    <3>6. i < j
      <4>1. j <= i => b <= a BY <2>12, <3>4
      <4> QED BY <3>4, <3>5, <4>1
    <3>7. a <= b BY <2>12, <3>4, <3>5, <3>6
    <3>8. j = i + 1 /\ a = b BY <3>4, <3>5, <3>6, <3>7
    <3>9. j \in G
      <4>1. j \in 2..Len(s) /\ j - 1 = i BY <1>1, <3>5, <3>8
      <4> QED BY <2>2, <2>14, <3>2, <3>3, <4>1
    <3>10. a + 1 <= b BY <2>12, <3>4, <3>5, <3>6, <3>9
    <3> QED BY <3>4, <3>8, <3>10
  <2>15. DOMAIN r = 1..m BY <2>8
  <2> QED BY <2>10, <2>13, <2>14, <2>15
<1> QED BY <1>2, <1>3

\* A history the engine accepts.
Accepted(h) == /\ h[1][1] = "user" /\ Len(h) <= 2 * Window
               /\ copilot = "workflow" => \A i \in 1..(Len(h) - 1) : ~(h[i][1] = "user" /\ h[i + 1][1] = "user")
\* Whatever messages there are, what is read of them is accepted.
LEMMA ReadIsAccepted ==
  ASSUME Window \in Nat, IsFiniteSet(rows), NEW r, r = CT!Repaired(CT!Trimmed(CT!LastOf(CT!InOrder(rows)))),
         NEW h, h = [i \in DOMAIN r |-> <<r[i].role, r[i].turn>>], h # <<>>
  PROVE  Accepted(h)
<1>1. PICK q : q = CT!InOrder(rows) OBVIOUS
<1>2. PICK V : q \in Seq(V) BY <1>1, OrderedIs
<1>3. PICK l : l = CT!LastOf(q) OBVIOUS
<1>4. l \in Seq(V) /\ Len(l) \in Nat /\ Len(l) <= Window BY <1>2, <1>3, LastIs
<1>5. PICK s : s = CT!Trimmed(l) OBVIOUS
<1>6. s \in Seq(V) /\ Len(s) \in Nat /\ Len(s) <= Len(l) /\ (Len(s) # 0 => s[1].role = "user") BY <1>4, <1>5, TrimmedIs
<1>7. r = CT!Repaired(s) BY <1>1, <1>3, <1>5
<1>8. PICK m \in Nat : /\ m <= 2 * Len(s) /\ DOMAIN r = 1..m /\ (m # 0 => r[1].role = "user")
                       /\ copilot = "workflow" => \A k \in 1..(m - 1) : ~(r[k].role = "user" /\ r[k + 1].role = "user")
  BY <1>6, <1>7, RepairedIs
<1>9. h \in [1..m -> {h[k] : k \in 1..m}] /\ \A k \in 1..m : h[k] = <<r[k].role, r[k].turn>> BY <1>8
<1>10. \A k \in 1..m : h[k][1] = r[k].role BY <1>9
<1>11. Len(h) = m BY <1>9, Listed
<1>12. m # 0
  <2>1. ASSUME m = 0 PROVE FALSE
    <3>1. h \in Seq({h[k] : k \in 1..m}) /\ Len(h) = 0 BY <1>9, <2>1, Listed
    <3> QED BY <3>1, EmptySeq
  <2> QED BY <2>1
<1>13. 1 \in 1..m /\ \A k \in 1..(m - 1) : k \in 1..m /\ k + 1 \in 1..m BY <1>12
<1>14. m <= 2 * Window BY <1>4, <1>6, <1>8
<1> QED BY <1>8, <1>10, <1>11, <1>12, <1>13, <1>14 DEF Accepted

\* What an answer is due by, where the session is there: nothing but one failure stands between a turn and its reply or words for it.
AnswerDue(t) == exists => /\ turn[t] \in {"placing", "apologizing"} => trouble[t] >= 1
                          /\ turn[t] = "releasing" => reply[t] # "none" \/ trouble[t] >= 2
                          /\ turn[t] = "done" /\ t \notin excused => reply[t] # "none" \/ trouble[t] >= 2
\* What is known of all turns: finitely many messages, answers as they are due, histories that are accepted.
AllDue == \A t \in Turns : AnswerDue(t)
AllAccepted == \A t \in Turns : seen[t] # <<>> => Accepted(seen[t])
HistoryInv == /\ turn \in [Turns -> TurnPlaces] /\ IsFiniteSet(rows) /\ DOMAIN seen = Turns /\ trouble \in [Turns -> Nat]
              /\ DOMAIN reply = Turns /\ exists \in BOOLEAN
              /\ AllDue /\ AllAccepted

\* What another turn does leaves an answer as due as it was.
LEMMA StillDue ==
  ASSUME NEW t, AnswerDue(t), turn'[t] = turn[t], trouble'[t] = trouble[t], reply'[t] = reply[t], excused \subseteq excused', exists' => exists
  PROVE  AnswerDue(t)'
  BY DEF AnswerDue

\* Every step keeps the histories.
LEMMA HistoryStep == ASSUME Window \in Nat, HistoryInv, [CT!Next]_(CT!vars) PROVE HistoryInv'
<1> USE DEF HistoryInv, AllDue
<1>1. copilot' = copilot
  BY DEF CT!Next, CT!TurnStep, CT!vars, CT!Ask, CT!Acquire, CT!FailOpen, CT!Gated, CT!Message, CT!Read, CT!Answer, CT!Answered, CT!Raises, CT!Save,
         CT!SaveFails, CT!Release, CT!Close, CT!Crash, CT!Lapse, CT!Delete
\* The messages are finitely many.
<1>2. IsFiniteSet(rows')
  <2>1. CASE UNCHANGED rows BY <2>1
  <2>2. CASE rows' = {} BY <2>2, FS_EmptySet
  <2>3. CASE \E m : rows' = rows \union {m} BY <2>3, FS_AddElement
  <2>4. UNCHANGED rows \/ rows' = {} \/ \E m : rows' = rows \union {m}
    BY DEF CT!Next, CT!TurnStep, CT!vars, CT!Ask, CT!Acquire, CT!FailOpen, CT!Gated, CT!Message, CT!Read, CT!Answer, CT!Answered, CT!Raises, CT!Save,
           CT!SaveFails, CT!Release, CT!Close, CT!Crash, CT!Lapse, CT!Delete
  <2> QED BY <2>1, <2>2, <2>3, <2>4
\* A history changes when it is read, and is then accepted.
<1>3. DOMAIN seen' = Turns /\ AllAccepted'
  <2>1. CASE UNCHANGED seen BY <1>1, <2>1 DEF AllAccepted, Accepted
  <2>2. CASE \E t \in Turns : CT!Read(t)
    <3>1. PICK t \in Turns : CT!Read(t) BY <2>2
    <3>2. PICK r : r = CT!Repaired(CT!Trimmed(CT!LastOf(CT!InOrder(rows)))) OBVIOUS
    <3>3. PICK h : h = [i \in DOMAIN r |-> <<r[i].role, r[i].turn>>] OBVIOUS
    <3>4. seen' = [seen EXCEPT ![t] = h] BY <3>1, <3>2, <3>3 DEF CT!Read
    <3>5. h # <<>> => Accepted(h) BY <3>2, <3>3, ReadIsAccepted
    <3>6. DOMAIN seen' = Turns /\ seen'[t] = h /\ \A u \in Turns : u # t => seen'[u] = seen[u] BY <3>4
    <3>7. \A u \in Turns : seen'[u] = h \/ seen'[u] = seen[u] BY <3>6
    <3> HIDE DEF HistoryInv
    <3>8. AllAccepted BY DEF HistoryInv
    <3> QED BY <1>1, <3>5, <3>6, <3>7, <3>8 DEF AllAccepted, Accepted
  <2>3. UNCHANGED seen \/ \E t \in Turns : CT!Read(t)
    BY DEF CT!Next, CT!TurnStep, CT!vars, CT!Ask, CT!Acquire, CT!FailOpen, CT!Gated, CT!Message, CT!Answer, CT!Answered, CT!Raises, CT!Save,
           CT!SaveFails, CT!Release, CT!Close, CT!Crash, CT!Lapse, CT!Delete
  <2> QED BY <2>1, <2>2, <2>3
\* Where a turn goes, and what it owes there.
<1> DEFINE Due == /\ turn' \in [Turns -> TurnPlaces] /\ trouble' \in [Turns -> Nat] /\ DOMAIN reply' = Turns /\ exists' \in BOOLEAN
                  /\ AllDue'
<1>4. ASSUME NEW t \in Turns, NEW to \in TurnPlaces, turn' = [turn EXCEPT ![t] = to], excused \subseteq excused', exists' = exists,
             trouble' \in {trouble, [trouble EXCEPT ![t] = @ + 1]}, reply' \in {reply, [reply EXCEPT ![t] = turn[t]]}, AnswerDue(t)'
      PROVE Due
  <2>1. ASSUME NEW u \in Turns, u # t PROVE AnswerDue(u)'
    <3>1. turn'[u] = turn[u] /\ trouble'[u] = trouble[u] /\ reply'[u] = reply[u] BY <1>4, <2>1
    <3>2. AnswerDue(u) OBVIOUS
    <3> QED BY <1>4, <3>1, <3>2, StillDue
  <2>2. turn' \in [Turns -> TurnPlaces] /\ DOMAIN reply' = Turns /\ exists' \in BOOLEAN BY <1>4
  <2>3. trouble' \in [Turns -> Nat] BY <1>4
  <2> QED BY <1>4, <2>1, <2>2, <2>3
<1> USE DEF TurnPlaces, CT!Working
<1> HIDE DEF Due
<1>5. ASSUME NEW t \in Turns, CT!Ask(t) \/ CT!Acquire(t) \/ CT!FailOpen(t) \/ CT!Gated(t) \/ CT!Message(t) \/ CT!Read(t) PROVE Due
  <2>1. PICK to \in TurnPlaces : turn' = [turn EXCEPT ![t] = to] /\ to \notin {"placing", "apologizing", "releasing", "done"}
    BY <1>5 DEF CT!Ask, CT!Acquire, CT!FailOpen, CT!Gated, CT!Message, CT!Read
  <2>2. UNCHANGED <<trouble, reply, exists>> /\ excused \subseteq excused'
    BY <1>5 DEF CT!Ask, CT!Acquire, CT!FailOpen, CT!Gated, CT!Message, CT!Read
  <2>3. AnswerDue(t)' BY <2>1 DEF AnswerDue
  <2> QED BY <1>4, <2>1, <2>2, <2>3
<1>6. ASSUME NEW t \in Turns, CT!Answer(t) \/ CT!Answered(t) \/ CT!Crash(t) PROVE Due
  <2>1. PICK to \in TurnPlaces : turn' = [turn EXCEPT ![t] = to] /\ to \notin {"placing", "apologizing", "releasing", "done"}
    BY <1>6 DEF CT!Answer, CT!Answered, CT!Crash
  <2>2. UNCHANGED <<trouble, reply, exists>> /\ excused \subseteq excused' BY <1>6 DEF CT!Answer, CT!Answered, CT!Crash
  <2>3. AnswerDue(t)' BY <2>1 DEF AnswerDue
  <2> QED BY <1>4, <2>1, <2>2, <2>3
<1>7. ASSUME NEW t \in Turns, CT!Raises(t) PROVE Due
  <2>1. turn' = [turn EXCEPT ![t] = "apologizing"] /\ trouble' = [trouble EXCEPT ![t] = @ + 1] /\ UNCHANGED <<reply, exists, excused>> BY <1>7 DEF CT!Raises
  <2>2. turn'[t] = "apologizing" /\ trouble'[t] >= 1 BY <2>1
  <2>3. AnswerDue(t)' BY <2>2 DEF AnswerDue
  <2> QED BY <1>4, <2>1, <2>3
<1>8. ASSUME NEW t \in Turns, CT!Save(t) PROVE Due
  <2>1. /\ turn[t] \in {"saving", "placing", "apologizing"} /\ turn' = [turn EXCEPT ![t] = "releasing"] /\ reply' = [reply EXCEPT ![t] = turn[t]]
        /\ UNCHANGED <<trouble, exists, excused>>
    BY <1>8 DEF CT!Save
  <2>2. turn'[t] = "releasing" /\ reply'[t] # "none" BY <2>1
  <2>3. AnswerDue(t)' BY <2>2 DEF AnswerDue
  <2> QED BY <1>4, <2>1, <2>3
<1>9. ASSUME NEW t \in Turns, CT!SaveFails(t) PROVE Due
  <2>1. /\ turn[t] \in {"saving", "placing", "apologizing"} /\ turn' = [turn EXCEPT ![t] = CT!AfterFailure(t)] /\ UNCHANGED <<reply, exists, excused>>
        /\ trouble' = [trouble EXCEPT ![t] = @ + 1] \/ (~exists /\ trouble' = trouble)
    BY <1>9 DEF CT!SaveFails
  <2>2. AnswerDue(t)'
    <3>1. SUFFICES ASSUME exists PROVE AnswerDue(t)' BY <2>1 DEF AnswerDue
    <3>2. trouble'[t] = trouble[t] + 1 /\ trouble[t] \in Nat BY <2>1, <3>1
    <3>3. AnswerDue(t) OBVIOUS
    <3>4. CASE turn[t] = "saving"
      <4>1. turn'[t] = "placing" BY <2>1, <3>4 DEF CT!AfterFailure
      <4> QED BY <3>2, <4>1 DEF AnswerDue
    <3>5. CASE turn[t] # "saving"
      <4>1. turn'[t] = "releasing" BY <2>1, <3>5 DEF CT!AfterFailure
      <4>2. trouble[t] >= 1 BY <2>1, <3>1, <3>3, <3>5 DEF AnswerDue
      <4>3. trouble'[t] >= 2 BY <3>2, <4>2
      <4> QED BY <4>1, <4>3 DEF AnswerDue
    <3> QED BY <3>4, <3>5
  <2>3. CT!AfterFailure(t) \in TurnPlaces BY DEF CT!AfterFailure
  <2> QED BY <1>4, <2>1, <2>2, <2>3
<1>10. ASSUME NEW t \in Turns, CT!Release(t) PROVE Due
  <2>1. turn[t] = "releasing" /\ turn' = [turn EXCEPT ![t] = "done"] /\ UNCHANGED <<trouble, reply, exists, excused>> BY <1>10 DEF CT!Release
  <2>2. AnswerDue(t) /\ turn'[t] = "done" BY <2>1
  <2>3. AnswerDue(t)' BY <2>1, <2>2 DEF AnswerDue
  <2> QED BY <1>4, <2>1, <2>3
<1>11. ASSUME NEW t \in Turns, CT!Close(t) PROVE Due
  <2>1. PICK to : turn' = [turn EXCEPT ![t] = to] /\ to = IF turn[t] = "read" THEN "done" ELSE turn[t] BY <1>11 DEF CT!Close
  <2>2. excused' = excused \union {t} /\ UNCHANGED <<trouble, reply, exists>> BY <1>11 DEF CT!Close
  <2>3. to \in TurnPlaces /\ turn'[t] = to /\ AnswerDue(t) BY <2>1
  <2>4. AnswerDue(t)' BY <2>1, <2>2, <2>3 DEF AnswerDue
  <2> QED BY <1>4, <2>1, <2>2, <2>3, <2>4
<1>12. ASSUME CT!Lapse \/ CT!Delete \/ UNCHANGED CT!vars PROVE Due
  <2>1. UNCHANGED <<turn, trouble, reply>> /\ excused \subseteq excused' /\ exists' \in BOOLEAN /\ (exists' => exists)
    <3>1. CASE CT!Lapse BY <3>1 DEF CT!Lapse
    <3>2. CASE CT!Delete BY <3>2 DEF CT!Delete
    <3>3. CASE UNCHANGED CT!vars BY <3>3 DEF CT!vars
    <3> QED BY <1>12, <3>1, <3>2, <3>3
  <2>2. ASSUME NEW u \in Turns PROVE AnswerDue(u)'
    <3>1. AnswerDue(u) /\ turn'[u] = turn[u] /\ trouble'[u] = trouble[u] /\ reply'[u] = reply[u] BY <2>1
    <3> QED BY <2>1, <3>1, StillDue
  <2>3. turn' \in [Turns -> TurnPlaces] /\ trouble' \in [Turns -> Nat] /\ DOMAIN reply' = Turns BY <2>1
  <2> QED BY <2>1, <2>2, <2>3 DEF Due
<1>13. Due
  <2> HIDE DEF HistoryInv
  <2>1. ASSUME NEW t \in Turns, CT!TurnStep(t) PROVE Due BY <1>5, <1>6, <1>7, <1>8, <1>9, <1>10, <1>11, <2>1 DEF CT!TurnStep
  <2> QED BY <1>12, <2>1 DEF CT!Next
<1>14. turn' \in [Turns -> TurnPlaces] /\ trouble' \in [Turns -> Nat] /\ DOMAIN reply' = Turns /\ exists' \in BOOLEAN /\ AllDue'
  <2> HIDE DEF AllDue
  <2> QED BY <1>13 DEF Due
<1> HIDE DEF AllDue, TurnPlaces
<1> QED BY <1>2, <1>3, <1>14

(* What a turn's engine is given begins with the user, is no longer than the window and
   the words put in, and has no two messages of a workflow's user in a row; and a turn
   that is over is answered: whatever rows earlier turns left, for any window. *)
THEOREM HistoriesAreWhole == ASSUME Window \in Nat PROVE CT!Spec => [](CT!SeenWellFormed /\ CT!EndsAnswered)
<1>1. CT!Init => HistoryInv
  <2> SUFFICES ASSUME CT!Init PROVE HistoryInv OBVIOUS
  <2>1. IsFiniteSet(rows) BY FS_EmptySet DEF CT!Init
  <2> QED BY <2>1 DEF CT!Init, HistoryInv, AllDue, AllAccepted, AnswerDue, TurnPlaces, CT!Working
<1>2. HistoryInv /\ [CT!Next]_(CT!vars) => HistoryInv'
  BY HistoryStep
<1>3. HistoryInv => CT!SeenWellFormed /\ CT!EndsAnswered
  <2> SUFFICES ASSUME HistoryInv PROVE CT!SeenWellFormed /\ CT!EndsAnswered OBVIOUS
  <2>1. CT!SeenWellFormed BY DEF HistoryInv, AllAccepted, Accepted, CT!SeenWellFormed
  <2>2. CT!EndsAnswered
    <3> SUFFICES ASSUME NEW t \in Turns, turn[t] = "done", t \notin excused, trouble[t] < 2, exists PROVE reply[t] # "none" BY DEF CT!EndsAnswered
    <3>1. AnswerDue(t) /\ trouble[t] \in Nat BY DEF HistoryInv, AllDue
    <3> QED BY <3>1 DEF AnswerDue
  <2> QED BY <2>1, <2>2
<1> QED BY <1>1, <1>2, <1>3, PTL DEF CT!Spec

-----------------------------------------------------------------------------
(* The login of an agent. *)

\* What a configuration asks for is a set of privileges on each table.
LEMMA TargetType == ASSUME NEW c \in RO!Configs PROVE RO!Target(c) \in [Actors -> SUBSET RO!Privileges]
  BY DEF RO!Target, RO!Desired, RO!Privileges

\* The values every process starts from are configurations, grants and states.
LEMMA LoginConstants == /\ RO!Nothing \in RO!Configs /\ RO!NoGrants \in [Actors -> SUBSET RO!Privileges] /\ RO!Idle \in RO!States
                        /\ RO!Idle.step = "idle" /\ ~RO!Idle.error /\ ~RO!Configured(RO!Nothing)
<1>1. RO!Nothing \in RO!Configs /\ RO!NoGrants \in [Actors -> SUBSET RO!Privileges] /\ ~RO!Configured(RO!Nothing)
  BY DEF RO!Nothing, RO!NoGrants, RO!Configs, RO!Configured
<1> QED BY <1>1 DEF RO!Idle, RO!States, RO!Steps

\* What the steps make of a process.
LEMMA LoginMoves == ASSUME NEW r \in RO!States, NEW s \in RO!Steps
               PROVE /\ [r EXCEPT !.step = s] \in RO!States
                     /\ [r EXCEPT !.step = s, !.tries = @ + 1] \in RO!States
                     /\ [r EXCEPT !.step = s, !.error = TRUE] \in RO!States
                     /\ \A c \in RO!Configs : [r EXCEPT !.step = s, !.config = c] \in RO!States
<1>1. /\ [r EXCEPT !.step = s] \in RO!States
      /\ [r EXCEPT !.step = s, !.error = TRUE] \in RO!States
  BY DEF RO!States
<1>2. [r EXCEPT !.step = s, !.tries = @ + 1] \in RO!States
  <2>1. r.tries + 1 \in Nat
    BY DEF RO!States
  <2> QED BY <2>1 DEF RO!States
<1>3. \A c \in RO!Configs : [r EXCEPT !.step = s, !.config = c] \in RO!States
  BY DEF RO!States
<1> QED BY <1>1, <1>2, <1>3

\* What After makes of a process is a process.
LEMMA AfterType == ASSUME proc \in [RO!Procs -> RO!States], NEW p \in RO!Procs, RO!After(p) PROVE proc' \in [RO!Procs -> RO!States]
<1>1. [proc[p] EXCEPT !.step = "calls"] \in RO!States /\ [proc[p] EXCEPT !.step = "synced"] \in RO!States
  BY LoginMoves DEF RO!Steps
<1> QED BY <1>1 DEF RO!After, RO!Put

\* Every variable keeps its type.
THEOREM RolesTypeCorrect == RO!Spec => []RO!TypeOK
<1>1. RO!Init => RO!TypeOK
  <2> SUFFICES ASSUME RO!Init PROVE RO!TypeOK
    OBVIOUS
  <2>1. /\ tools \in RO!Configs /\ held \in [Actors -> SUBSET RO!Privileges] /\ proc \in [RO!Procs -> RO!States]
        /\ relation \in [Actors -> RO!Kinds] /\ alone \in [RO!Procs -> BOOLEAN]
    BY LoginConstants DEF RO!Init, RO!Kinds
  <2>2. sweep \in [step : {"none", "found"}, drop : BOOLEAN]
    BY DEF RO!Init
  <2> QED BY <2>1, <2>2 DEF RO!Init, RO!TypeOK
<1>2. RO!TypeOK /\ [RO!Next]_(RO!vars) => RO!TypeOK'
  <2> SUFFICES ASSUME RO!TypeOK, [RO!Next]_(RO!vars) PROVE RO!TypeOK'
    OBVIOUS
  <2> USE LoginConstants
  <2>1. ASSUME NEW p \in RO!Procs, RO!AssignTool(p) \/ RO!UpdateTool(p) \/ RO!RemoveTool(p) PROVE RO!TypeOK'
    <3>1. [RO!Idle EXCEPT !.step = "read"] \in RO!States
      BY LoginMoves DEF RO!Steps
    <3>2. proc' \in [RO!Procs -> RO!States]
      BY <2>1, <3>1 DEF RO!AssignTool, RO!UpdateTool, RO!RemoveTool, RO!Changes_, RO!Put, RO!TypeOK
    <3>4. alone' \in [RO!Procs -> BOOLEAN] /\ changes' \in Nat
      <4>1. RO!Changes_(p)
        BY <2>1 DEF RO!AssignTool, RO!UpdateTool, RO!RemoveTool
      <4> QED BY <4>1 DEF RO!Changes_, RO!DisturbAll, RO!TypeOK
    <3>3. tools' \in RO!Configs
      BY <2>1 DEF RO!AssignTool, RO!UpdateTool, RO!RemoveTool, RO!TypeOK, RO!Configs
    <3> QED BY <2>1, <3>2, <3>3, <3>4 DEF RO!AssignTool, RO!UpdateTool, RO!RemoveTool, RO!Changes_, RO!TypeOK, RO!login, RO!boot
  <2>2. ASSUME NEW p \in RO!Procs, RO!ReadTables(p) \/ RO!EndRequest(p) \/ RO!LoadAllTools(p) \/ RO!EndRun(p) PROVE RO!TypeOK'
    <3>1. [proc[p] EXCEPT !.step = "revoke", !.config = tools] \in RO!States
      BY LoginMoves DEF RO!Steps, RO!TypeOK
    <3>2. \A c \in {"service", "user"} :
            [RO!Idle EXCEPT !.run = TRUE, !.caller = c, !.config = tools,
                         !.step = IF c = "service" /\ RO!Configured(tools) THEN "revoke" ELSE "calls"] \in RO!States
      BY DEF RO!States, RO!Steps, RO!TypeOK
    <3>3. proc' \in [RO!Procs -> RO!States] /\ alone' \in [RO!Procs -> BOOLEAN]
      BY <2>2, <3>1, <3>2 DEF RO!ReadTables, RO!EndRequest, RO!LoadAllTools, RO!EndRun, RO!Put, RO!TypeOK
    <3> QED BY <2>2, <3>3 DEF RO!ReadTables, RO!EndRequest, RO!LoadAllTools, RO!EndRun, RO!TypeOK, RO!login, RO!boot, RO!rows
  <2>3. ASSUME NEW p \in RO!Procs, RO!DeleteAgent(p) PROVE RO!TypeOK'
    BY <2>3 DEF RO!DeleteAgent, RO!DropInTransaction, RO!Drop, RO!DisturbAll, RO!TypeOK, RO!boot
  <2>4. ASSUME NEW p \in RO!Procs, RO!SyncFails(p) PROVE RO!TypeOK'
    <3>1. /\ [proc[p] EXCEPT !.step = "revoke", !.tries = @ + 1] \in RO!States
          /\ [proc[p] EXCEPT !.step = "calls", !.error = TRUE] \in RO!States
          /\ [proc[p] EXCEPT !.step = "failed"] \in RO!States
      BY LoginMoves DEF RO!Steps, RO!TypeOK
    <3> QED BY <2>4, <3>1 DEF RO!SyncFails, RO!Put, RO!Disturb, RO!TypeOK, RO!login, RO!boot, RO!rows
  <2>5. ASSUME NEW p \in RO!Procs, RO!DropUnconfigured(p) \/ RO!GrantDeleted(p) PROVE RO!TypeOK'
    <3>1. proc' \in [RO!Procs -> RO!States]
      BY <2>5, AfterType DEF RO!DropUnconfigured, RO!GrantDeleted, RO!TypeOK
    <3> QED BY <2>5, <3>1 DEF RO!DropUnconfigured, RO!GrantDeleted, RO!Drop, RO!Disturb, RO!TypeOK, RO!boot, RO!rows
  <2>6. ASSUME NEW p \in RO!Procs, RO!SyncRevoke(p) PROVE RO!TypeOK'
    <3>1. [proc[p] EXCEPT !.step = "grant"] \in RO!States
      BY LoginMoves DEF RO!Steps, RO!TypeOK
    <3>2. held' \in [Actors -> SUBSET RO!Privileges]
      BY <2>6 DEF RO!SyncRevoke, RO!RevokeExtra, RO!TypeOK
    <3> QED BY <2>6, <3>1, <3>2 DEF RO!SyncRevoke, RO!Put, RO!Disturb, RO!TypeOK, RO!boot, RO!rows
  <2>7. ASSUME NEW p \in RO!Procs, RO!SyncGrant(p) PROVE RO!TypeOK'
    <3>1. RO!Target(proc[p].config) \in [Actors -> SUBSET RO!Privileges]
      BY TargetType DEF RO!TypeOK, RO!States
    <3>2. proc' \in [RO!Procs -> RO!States]
      BY <2>7, AfterType DEF RO!SyncGrant, RO!TypeOK
    <3>3. held' \in [Actors -> SUBSET RO!Privileges]
      BY <2>7, <3>1 DEF RO!SyncGrant, RO!TypeOK
    <3> QED BY <2>7, <3>2, <3>3 DEF RO!SyncGrant, RO!Disturb, RO!TypeOK, RO!boot, RO!rows
  <2>8. ASSUME NEW p \in RO!Procs, RO!DatabaseQuery(p) \/ RO!DatabaseWrite(p) PROVE RO!TypeOK'
    BY <2>8 DEF RO!DatabaseQuery, RO!DatabaseWrite, RO!Answered, RO!TypeOK, RO!login, RO!boot, RO!rows, RO!DbTools
  <2>9. CASE RO!EnsureLogins \/ RO!FindRoles \/ RO!ReconcileRole
    <3>1. sweep' \in [step : {"none", "found"}, drop : BOOLEAN]
      <4>1. (~RO!Configured(tools)) \in BOOLEAN
        BY Zenon DEF RO!Configured
      <4>2. CASE RO!EnsureLogins
        BY <4>2 DEF RO!EnsureLogins, RO!TypeOK
      <4>3. CASE RO!FindRoles
        BY <4>1, <4>3 DEF RO!FindRoles
      <4>4. CASE RO!ReconcileRole
        BY <4>4 DEF RO!ReconcileRole, RO!TypeOK
      <4> QED BY <2>9, <4>2, <4>3, <4>4
    <3>2. CASE RO!EnsureLogins
      BY <3>1, <3>2 DEF RO!EnsureLogins, RO!TypeOK, RO!login, RO!rows
    <3>3. CASE RO!FindRoles
      BY <3>1, <3>3 DEF RO!FindRoles, RO!TypeOK, RO!login, RO!rows
    <3>4. CASE RO!ReconcileRole
      BY <3>1, <3>4 DEF RO!ReconcileRole, RO!Drop, RO!DisturbAll, RO!TypeOK, RO!rows
    <3> QED BY <2>9, <3>2, <3>3, <3>4
  <2>10. CASE RO!AlterRelation
    BY <2>10 DEF RO!AlterRelation, RO!DisturbAll, RO!TypeOK, RO!boot
  <2>11. CASE UNCHANGED RO!vars
    BY <2>11 DEF RO!vars, RO!TypeOK
  <2> QED BY <2>1, <2>2, <2>3, <2>4, <2>5, <2>6, <2>7, <2>8, <2>9, <2>10, <2>11 DEF RO!Next, RO!Proc
<1> QED BY <1>1, <1>2, PTL DEF RO!Spec

-----------------------------------------------------------------------------
\* What goes with an agent that is deleted.
GoneWithAgent == ~agent => ~role /\ held = RO!NoGrants /\ tools = RO!Nothing

\* A deleted agent has no login, no grants and no tool: what keeps NoLoginAfterDelete inductive.
LEMMA DeletedKeepsNothing == RO!Spec => []GoneWithAgent
<1>1. RO!Init => GoneWithAgent
  BY DEF RO!Init, GoneWithAgent
<1>2. RO!TypeOK /\ GoneWithAgent /\ [RO!Next]_(RO!vars) => GoneWithAgent'
  <2> SUFFICES ASSUME RO!TypeOK, GoneWithAgent, [RO!Next]_(RO!vars) PROVE GoneWithAgent'
    OBVIOUS
  <2>1. ASSUME NEW p \in RO!Procs, RO!AssignTool(p) \/ RO!UpdateTool(p) \/ RO!RemoveTool(p) PROVE GoneWithAgent'
    BY <2>1 DEF RO!AssignTool, RO!UpdateTool, RO!RemoveTool, RO!Changes_, GoneWithAgent
  <2>2. ASSUME NEW p \in RO!Procs, RO!ReadTables(p) \/ RO!EndRequest(p) \/ RO!LoadAllTools(p) \/ RO!EndRun(p) \/ RO!SyncFails(p) PROVE GoneWithAgent'
    BY <2>2 DEF RO!ReadTables, RO!EndRequest, RO!LoadAllTools, RO!EndRun, RO!SyncFails, GoneWithAgent, RO!login, RO!rows
  <2>3. ASSUME NEW p \in RO!Procs, RO!DeleteAgent(p) PROVE GoneWithAgent'
    BY <2>3 DEF RO!DeleteAgent, RO!DropInTransaction, RO!Drop, GoneWithAgent
  <2>4. ASSUME NEW p \in RO!Procs, RO!DropUnconfigured(p) \/ RO!GrantDeleted(p) PROVE GoneWithAgent'
    BY <2>4 DEF RO!DropUnconfigured, RO!GrantDeleted, RO!Drop, GoneWithAgent, RO!rows
  <2>5. ASSUME NEW p \in RO!Procs, RO!SyncRevoke(p) \/ RO!SyncGrant(p) PROVE GoneWithAgent'
    BY <2>5 DEF RO!SyncRevoke, RO!SyncGrant, RO!AgentExists, GoneWithAgent, RO!rows
  <2>6. ASSUME NEW p \in RO!Procs, RO!DatabaseQuery(p) \/ RO!DatabaseWrite(p) PROVE GoneWithAgent'
    BY <2>6 DEF RO!DatabaseQuery, RO!DatabaseWrite, RO!Answered, GoneWithAgent, RO!login, RO!rows
  <2>7. CASE RO!EnsureLogins \/ RO!FindRoles \/ RO!ReconcileRole
    BY <2>7 DEF RO!EnsureLogins, RO!FindRoles, RO!ReconcileRole, RO!Drop, GoneWithAgent, RO!login, RO!rows
  <2>8. CASE RO!AlterRelation
    <3>1. RO!NoGrants = held => held' = RO!NoGrants
      BY <2>8 DEF RO!AlterRelation, RO!NoGrants
    <3> QED BY <2>8, <3>1 DEF RO!AlterRelation, GoneWithAgent
  <2>9. CASE UNCHANGED RO!vars
    BY <2>9 DEF RO!vars, GoneWithAgent
  <2> QED BY <2>1, <2>2, <2>3, <2>4, <2>5, <2>6, <2>7, <2>8, <2>9 DEF RO!Next, RO!Proc
<1> QED BY <1>1, <1>2, RolesTypeCorrect, PTL DEF RO!Spec

(* A deleted agent has no login, whatever sync was between its transactions. *)
THEOREM NoLoginAfterDelete == RO!Spec => []RO!DeletedHasNoLogin
<1>1. GoneWithAgent => RO!DeletedHasNoLogin
  BY DEF GoneWithAgent, RO!DeletedHasNoLogin
<1> QED BY <1>1, DeletedKeepsNothing, PTL

-----------------------------------------------------------------------------
\* A call was answered for a run that is still calling.
AnswersInv == \A a \in answers : /\ a.by \in RO!Procs /\ proc[a.by].step = "calls"
                                 /\ a.table \in proc[a.by].config[a.tool] /\ ~proc[a.by].error

(* Calls are answered within the configuration their run has read, and only
   where its permissions could be prepared. *)
THEOREM CallsWithinTools == RO!Spec => []RO!AnswersWithin
<1>1. RO!Init => AnswersInv
  BY DEF RO!Init, AnswersInv
<1>2. RO!TypeOK /\ AnswersInv /\ [RO!Next]_(RO!vars) => AnswersInv'
  <2> SUFFICES ASSUME RO!TypeOK, AnswersInv, [RO!Next]_(RO!vars) PROVE AnswersInv'
    OBVIOUS
  \* A step of a process that is not calling, or of none, takes no answer's run away.
  <2>1. ASSUME NEW p \in RO!Procs, proc[p].step # "calls", \E r : RO!Put(p, r), answers' = answers PROVE AnswersInv'
    BY <2>1 DEF AnswersInv, RO!Put, RO!TypeOK
  <2>2. ASSUME proc' = proc, answers' = answers PROVE AnswersInv'
    BY <2>2 DEF AnswersInv
  <2>3. ASSUME NEW p \in RO!Procs, RO!AssignTool(p) \/ RO!UpdateTool(p) \/ RO!RemoveTool(p) PROVE AnswersInv'
    BY <2>1, <2>3 DEF RO!AssignTool, RO!UpdateTool, RO!RemoveTool, RO!Changes_
  <2>4. ASSUME NEW p \in RO!Procs, RO!ReadTables(p) \/ RO!EndRequest(p) \/ RO!LoadAllTools(p) PROVE AnswersInv'
    BY <2>1, <2>4 DEF RO!ReadTables, RO!EndRequest, RO!LoadAllTools
  <2>5. ASSUME NEW p \in RO!Procs, RO!SyncFails(p) \/ RO!SyncRevoke(p) PROVE AnswersInv'
    BY <2>1, <2>5 DEF RO!SyncFails, RO!SyncRevoke
  <2>6. ASSUME NEW p \in RO!Procs, RO!DropUnconfigured(p) \/ RO!GrantDeleted(p) \/ RO!SyncGrant(p) PROVE AnswersInv'
    BY <2>1, <2>6 DEF RO!DropUnconfigured, RO!GrantDeleted, RO!SyncGrant, RO!After
  <2>7. ASSUME NEW p \in RO!Procs, RO!EndRun(p) PROVE AnswersInv'
    BY <2>7 DEF RO!EndRun, RO!Put, AnswersInv, RO!TypeOK
  <2>8. ASSUME NEW p \in RO!Procs, RO!DatabaseQuery(p) PROVE AnswersInv'
    <3> PICK t \in Actors : RO!RunQuery(p, t) /\ RO!Answered(p, "query", t)
      BY <2>8 DEF RO!DatabaseQuery
    <3> QED BY DEF RO!RunQuery, RO!CheckReferences, RO!Answered, RO!Restricted, AnswersInv
  <2>9. ASSUME NEW p \in RO!Procs, RO!DatabaseWrite(p) PROVE AnswersInv'
    <3> PICK t \in Actors : RO!ResolveTable(p, t) /\ RO!RunWrite(p, t) /\ RO!Answered(p, "write", t)
      BY <2>9 DEF RO!DatabaseWrite
    <3> QED BY DEF RO!ResolveTable, RO!Answered, RO!Restricted, AnswersInv
  <2>10. ASSUME NEW p \in RO!Procs, RO!DeleteAgent(p) PROVE AnswersInv'
    BY <2>2, <2>10 DEF RO!DeleteAgent
  <2>11. CASE RO!EnsureLogins \/ RO!FindRoles \/ RO!ReconcileRole \/ RO!AlterRelation \/ UNCHANGED RO!vars
    BY <2>2, <2>11 DEF RO!EnsureLogins, RO!FindRoles, RO!ReconcileRole, RO!AlterRelation, RO!vars
  <2> QED BY <2>3, <2>4, <2>5, <2>6, <2>7, <2>8, <2>9, <2>10, <2>11 DEF RO!Next, RO!Proc
<1>3. AnswersInv => RO!AnswersWithin
  BY DEF AnswersInv, RO!AnswersWithin
<1> QED BY <1>1, <1>2, <1>3, RolesTypeCorrect, PTL DEF RO!Spec

-----------------------------------------------------------------------------
(* What a sync that nothing stepped between knows at each of its steps: before
   the first transaction, that an agent that is gone has nothing configured;
   before the second, that the login is there and holds no more than it should. *)
SyncKnows(p) == alone[p] =>
  /\ proc[p].step = "revoke" => agent \/ ~RO!Configured(proc[p].config)
  /\ proc[p].step = "grant" => /\ role /\ agent /\ RO!Configured(proc[p].config)
                               /\ \A t \in Actors : held[t] \subseteq RO!Target(proc[p].config)[t]
  /\ RO!Synced(p) => (role <=> RO!Configured(proc[p].config)) /\ held = RO!Target(proc[p].config)
SyncInv == \A p \in RO!Procs : SyncKnows(p)

\* Without tables for any tool, nothing is granted.
LEMMA NothingIsAsked == ASSUME NEW c \in RO!Configs, ~RO!Configured(c) PROVE RO!Target(c) = RO!NoGrants
<1>1. c["query"] = {} /\ c["write"] = {}
  BY DEF RO!Configured, RO!DbTools
<1>2. \A t \in Actors : RO!Desired(c)[t] = {}
  BY <1>1 DEF RO!Desired
<1> QED BY <1>2 DEF RO!Target, RO!NoGrants

\* What a process knows is about its own state, the login and the rows.
LEMMA KnowsOn == ASSUME NEW q \in RO!Procs, SyncKnows(q), alone'[q] = alone[q], proc'[q] = proc[q],
                        UNCHANGED RO!login, UNCHANGED RO!rows
                 PROVE SyncKnows(q)'
  BY ZenonT(60) DEF SyncKnows, RO!Synced, RO!login, RO!rows, RO!Target, RO!Readable, RO!Desired, RO!Configured
\* Of a sync that something stepped into, nothing is claimed.
LEMMA NotAlone == ASSUME NEW q \in RO!Procs, ~alone'[q] PROVE SyncKnows(q)'
  BY DEF SyncKnows

(* The two guarantees of a sync nothing stepped between: it ends exact, and
   between its transactions the login holds no more than it should. *)
THEOREM SyncIsExact == RO!Spec => [](RO!SyncedExact /\ RO!FailsWithLess)
<1>1. RO!Init => SyncInv
  BY DEF RO!Init, SyncInv, SyncKnows
<1>2. RO!TypeOK /\ GoneWithAgent /\ SyncInv /\ [RO!Next]_(RO!vars) => SyncInv'
  <2> SUFFICES ASSUME RO!TypeOK, GoneWithAgent, SyncInv, [RO!Next]_(RO!vars), NEW q \in RO!Procs PROVE SyncKnows(q)'
    BY DEF SyncInv
  <2>0. SyncKnows(q)
    BY DEF SyncInv
  <2>1. CASE RO!DisturbAll
    BY <2>1, NotAlone DEF RO!DisturbAll
  <2>2. ASSUME NEW p \in RO!Procs, RO!Disturb(p), p # q PROVE SyncKnows(q)'
    BY <2>2, NotAlone DEF RO!Disturb
  <2>3. ASSUME NEW p \in RO!Procs, p # q, \E r : RO!Put(p, r), \/ UNCHANGED alone \/ \E b : alone' = [alone EXCEPT ![p] = b],
               UNCHANGED RO!login, UNCHANGED RO!rows
        PROVE SyncKnows(q)'
    <3>1. proc'[q] = proc[q] /\ alone'[q] = alone[q]
      BY <2>3 DEF RO!Put, RO!TypeOK
    <3> QED BY <2>0, <2>3, <3>1, KnowsOn
  <2>4. ASSUME UNCHANGED <<alone, proc>>, UNCHANGED RO!login, UNCHANGED RO!rows PROVE SyncKnows(q)'
    BY <2>0, <2>4, KnowsOn
  <2>5. ASSUME NEW p \in RO!Procs, RO!AssignTool(p) \/ RO!UpdateTool(p) \/ RO!RemoveTool(p) \/ RO!DeleteAgent(p) PROVE SyncKnows(q)'
    BY <2>1, <2>5 DEF RO!AssignTool, RO!UpdateTool, RO!RemoveTool, RO!Changes_, RO!DeleteAgent
  <2>6. ASSUME NEW p \in RO!Procs, RO!ReadTables(p) PROVE SyncKnows(q)'
    <3>1. CASE p # q
      BY <2>3, <2>6, <3>1 DEF RO!ReadTables
    <3>2. CASE p = q
      <4>1. CASE proc' = [proc EXCEPT ![p] = [proc[p] EXCEPT !.step = "revoke", !.config = tools]]
        <5>1. proc'[q].step = "revoke" /\ proc'[q].config = tools
          BY <3>2, <4>1 DEF RO!TypeOK, RO!States
        <5>2. agent \/ ~RO!Configured(tools)
          BY LoginConstants DEF GoneWithAgent
        <5>3. agent' \/ ~RO!Configured(proc'[q].config)
          BY <2>6, <5>1, <5>2 DEF RO!ReadTables, RO!rows
        <5> QED BY <5>1, <5>3 DEF SyncKnows, RO!Synced
      <4>2. CASE proc' = [proc EXCEPT ![p] = RO!Idle]
        <5>1. proc'[q].step = "idle"
          BY <3>2, <4>2, LoginConstants DEF RO!TypeOK
        <5> QED BY <5>1 DEF SyncKnows, RO!Synced
      <4> QED BY <2>6, <4>1, <4>2 DEF RO!ReadTables, RO!Put
    <3> QED BY <3>1, <3>2
  <2>7. ASSUME NEW p \in RO!Procs, RO!EndRequest(p) \/ RO!EndRun(p) PROVE SyncKnows(q)'
    <3>1. CASE p # q
      BY <2>3, <2>7, <3>1 DEF RO!EndRequest, RO!EndRun
    <3>2. CASE p = q
      BY <2>7, <3>2, NotAlone DEF RO!EndRequest, RO!EndRun, RO!TypeOK
    <3> QED BY <3>1, <3>2
  <2>8. ASSUME NEW p \in RO!Procs, RO!LoadAllTools(p) PROVE SyncKnows(q)'
    <3>1. CASE p # q
      BY <2>3, <2>8, <3>1 DEF RO!LoadAllTools
    <3>2. CASE p = q
      <4> PICK c \in {"service", "user"} :
             proc' = [proc EXCEPT ![p] = [RO!Idle EXCEPT !.run = TRUE, !.caller = c, !.config = tools,
                        !.step = IF c = "service" /\ RO!Configured(tools) THEN "revoke" ELSE "calls"]]
        BY <2>8 DEF RO!LoadAllTools, RO!Put
      <4>1. /\ proc'[q].caller = c /\ proc'[q].config = tools
            /\ proc'[q].step = IF c = "service" /\ RO!Configured(tools) THEN "revoke" ELSE "calls"
        BY <3>2 DEF RO!TypeOK, RO!Idle
      <4>2. agent'
        BY <2>8 DEF RO!LoadAllTools, RO!rows
      <4> QED BY <4>1, <4>2 DEF SyncKnows, RO!Synced
    <3> QED BY <3>1, <3>2
  <2>9. ASSUME NEW p \in RO!Procs, RO!SyncFails(p) PROVE SyncKnows(q)'
    <3>1. CASE p # q
      BY <2>2, <2>9, <3>1 DEF RO!SyncFails
    <3>2. CASE p = q
      <4>0. alone'[q] = alone[q] /\ proc[q].step \in {"revoke", "grant"} /\ proc[q] \in RO!States
        BY <2>9, <3>2 DEF RO!SyncFails, RO!Disturb, RO!TypeOK
      <4>1. CASE proc' = [proc EXCEPT ![p] = [proc[p] EXCEPT !.step = "revoke", !.tries = @ + 1]]
        <5>1. proc'[q].step = "revoke" /\ proc'[q].config = proc[q].config
          BY <3>2, <4>1, <4>0 DEF RO!TypeOK, RO!States
        <5>2. alone[q] => agent \/ ~RO!Configured(proc[q].config)
          BY <2>0, <4>0 DEF SyncKnows
        <5>3. alone'[q] => agent' \/ ~RO!Configured(proc'[q].config)
          BY <2>9, <4>0, <5>1, <5>2 DEF RO!SyncFails, RO!rows
        <5> QED BY <5>1, <5>3 DEF SyncKnows, RO!Synced
      <4>2. CASE proc' = [proc EXCEPT ![p] = [proc[p] EXCEPT !.step = "calls", !.error = TRUE]]
        <5>1. proc'[q].step = "calls" /\ proc'[q].error
          BY <3>2, <4>2, <4>0 DEF RO!TypeOK, RO!States
        <5> QED BY <5>1 DEF SyncKnows, RO!Synced
      <4>3. CASE proc' = [proc EXCEPT ![p] = [proc[p] EXCEPT !.step = "failed"]]
        <5>1. proc'[q].step = "failed"
          BY <3>2, <4>3, <4>0 DEF RO!TypeOK, RO!States
        <5> QED BY <5>1 DEF SyncKnows, RO!Synced
      <4> QED BY <2>9, <4>1, <4>2, <4>3 DEF RO!SyncFails, RO!Put
    <3> QED BY <3>1, <3>2
  <2>10. ASSUME NEW p \in RO!Procs, RO!After(p), RO!Disturb(p), UNCHANGED RO!rows,
                alone[p] => (role' <=> RO!Configured(proc[p].config)) /\ held' = RO!Target(proc[p].config)
         PROVE SyncKnows(q)'
    <3>1. CASE p # q
      BY <2>2, <2>10, <3>1
    <3>2. CASE p = q
      <4>1. /\ alone'[q] = alone[q] /\ proc'[q].config = proc[q].config
            /\ proc'[q].step \in {"calls", "synced"}
        BY <2>10, <3>2 DEF RO!After, RO!Put, RO!Disturb, RO!TypeOK, RO!States
      <4>3. RO!Target(proc[q].config)' = RO!Target(proc[q].config)
        BY <2>10, <4>1 DEF RO!Target, RO!Readable, RO!Desired, RO!rows
      <4> QED BY <2>10, <3>2, <4>1, <4>3 DEF SyncKnows, RO!Configured
    <3> QED BY <3>1, <3>2
  <2>11. ASSUME NEW p \in RO!Procs, RO!DropUnconfigured(p) \/ RO!GrantDeleted(p) PROVE SyncKnows(q)'
    <3>1. alone[p] => ~RO!Configured(proc[p].config)
      BY <2>11 DEF RO!DropUnconfigured, RO!GrantDeleted, RO!AgentExists, SyncInv, SyncKnows
    <3>2. ~RO!Configured(proc[p].config) => RO!Target(proc[p].config) = RO!NoGrants
      BY NothingIsAsked DEF RO!TypeOK, RO!States
    <3> QED BY <2>10, <2>11, <3>1, <3>2 DEF RO!DropUnconfigured, RO!GrantDeleted, RO!Drop
  <2>12. ASSUME NEW p \in RO!Procs, RO!SyncRevoke(p) PROVE SyncKnows(q)'
    <3>1. CASE p # q
      BY <2>2, <2>12, <3>1 DEF RO!SyncRevoke
    <3>2. CASE p = q
      <4>1. proc'[q].step = "grant" /\ proc'[q].config = proc[q].config
        BY <2>12, <3>2 DEF RO!SyncRevoke, RO!Put, RO!TypeOK, RO!States
      <4>2. RO!Target(proc[q].config)' = RO!Target(proc[q].config)
        BY <2>12, <4>1 DEF RO!SyncRevoke, RO!Target, RO!Readable, RO!Desired, RO!rows
      <4>3. \A t \in Actors : held'[t] \subseteq RO!Target(proc[q].config)[t]
        BY <2>12, <3>2 DEF RO!SyncRevoke, RO!RevokeExtra
      <4>4. role' /\ agent' /\ RO!Configured(proc[q].config)
        BY <2>12, <3>2 DEF RO!SyncRevoke, RO!AgentExists, RO!rows
      <4> QED BY <4>1, <4>2, <4>3, <4>4 DEF SyncKnows, RO!Synced, RO!Configured
    <3> QED BY <3>1, <3>2
  <2>13. ASSUME NEW p \in RO!Procs, RO!SyncGrant(p) PROVE SyncKnows(q)'
    <3>1. alone[p] => held' = RO!Target(proc[p].config)
      <4> SUFFICES ASSUME alone[p] PROVE held' = RO!Target(proc[p].config)
        OBVIOUS
      <4>1. \A t \in Actors : held[t] \subseteq RO!Target(proc[p].config)[t]
        BY <2>13 DEF RO!SyncGrant, SyncInv, SyncKnows
      <4>2. RO!Target(proc[p].config) \in [Actors -> SUBSET RO!Privileges]
        BY TargetType DEF RO!TypeOK, RO!States
      <4>3. held' = [t \in Actors |-> held[t] \union RO!Target(proc[p].config)[t]]
        BY <2>13 DEF RO!SyncGrant
      <4>4. \A t \in Actors : held[t] \union RO!Target(proc[p].config)[t] = RO!Target(proc[p].config)[t]
        BY <4>1
      <4> QED BY <4>2, <4>3, <4>4
    <3>2. alone[p] => role /\ RO!Configured(proc[p].config)
      BY <2>13 DEF RO!SyncGrant, SyncInv, SyncKnows
    <3> QED BY <2>10, <2>13, <3>1, <3>2 DEF RO!SyncGrant
  <2>14. ASSUME NEW p \in RO!Procs, RO!DatabaseQuery(p) \/ RO!DatabaseWrite(p) PROVE SyncKnows(q)'
    BY <2>4, <2>14 DEF RO!DatabaseQuery, RO!DatabaseWrite, RO!Answered
  <2>15. CASE RO!EnsureLogins \/ RO!FindRoles \/ UNCHANGED RO!vars
    BY <2>4, <2>15 DEF RO!EnsureLogins, RO!FindRoles, RO!vars, RO!login, RO!rows
  <2>16. CASE RO!ReconcileRole
    BY <2>1, <2>4, <2>16 DEF RO!ReconcileRole, RO!login
  <2>17. CASE RO!AlterRelation
    BY <2>1, <2>17 DEF RO!AlterRelation
  <2> QED BY <2>5, <2>6, <2>7, <2>8, <2>9, <2>11, <2>12, <2>13, <2>14, <2>15, <2>16, <2>17 DEF RO!Next, RO!Proc
<1>3. SyncInv => RO!SyncedExact /\ RO!FailsWithLess
  BY DEF SyncInv, SyncKnows, RO!SyncedExact, RO!FailsWithLess
<1>4. RO!Spec => []GoneWithAgent
  BY DeletedKeepsNothing
<1> QED BY <1>1, <1>2, <1>3, <1>4, RolesTypeCorrect, PTL DEF RO!Spec

(* All of it together: the login of an agent is kept within its tools. *)
THEOREM LoginIsWithinTools == RO!Spec => []RO!LoginWithinTools
<1>1. RO!DeletedHasNoLogin /\ (RO!SyncedExact /\ RO!FailsWithLess) /\ RO!AnswersWithin => RO!LoginWithinTools
  BY DEF RO!LoginWithinTools
<1> QED BY <1>1, NoLoginAfterDelete, SyncIsExact, CallsWithinTools, PTL

-----------------------------------------------------------------------------
(* Workflows and their executions. *)

USE DEF WF!UpdatesWorkflow, WF!Before, WF!Ends, WF!workflow, WF!agentRun, WF!result

\* A request goes to a step.
LEMMA GoesType == ASSUME step \in [Actors -> WF!Steps], NEW r \in Actors, NEW to \in WF!Steps, WF!Goes(r, to) PROVE step' \in [Actors -> WF!Steps]
  BY DEF WF!Goes

\* A block gives something.
LEMMA OutsType == ASSUME NEW f \in [Actors -> [Blocks -> {"none", "ok", "error"}]], NEW r \in Actors, NEW b, NEW o \in {"ok", "error"}
                  PROVE [f EXCEPT ![r][b] = o] \in [Actors -> [Blocks -> {"none", "ok", "error"}]]
<1>1. [f[r] EXCEPT ![b] = o] \in [Blocks -> {"none", "ok", "error"}]
  OBVIOUS
<1> QED BY <1>1

(* Every variable keeps its type. *)
THEOREM WorkflowsTypeCorrect == WF!Spec => []WF!TypeOK
<1>1. WF!Init => WF!TypeOK
  <2> SUFFICES ASSUME WF!Init PROVE WF!TypeOK
    OBVIOUS
  <2>1. step \in [Actors -> WF!Steps]
    BY DEF WF!Init, WF!Steps
  <2>2. outs \in [Actors -> [Blocks -> {"none", "ok", "error"}]]
    BY DEF WF!Init
  <2>3. stale \subseteq Actors /\ billed \subseteq Actors \X (Blocks \union {"run"})
    BY DEF WF!Init
  <2>4. /\ txn \in [Actors -> {"open", "aborted"}] /\ execution \in [Actors -> {"none", "running", "completed", "failed", "deleted"}]
        /\ logged \in [Actors -> {"none", "plain", "naming"}] /\ route \in [Actors -> {"execute", "stream", "webhook"}]
    BY DEF WF!Init
  <2>5. /\ searched \in [Actors -> Nat] /\ found \in [Actors -> BOOLEAN] /\ noted \in [Actors -> BOOLEAN] /\ saved \in [Actors -> BOOLEAN]
    BY DEF WF!Init
  <2>6. workflow \in BOOLEAN /\ deployed \in BOOLEAN /\ armed \in {"no", "armed", "lapsed"} /\ arms \in Nat /\ starts \in Nat
    BY DEF WF!Init
  <2> QED BY <2>1, <2>2, <2>3, <2>4, <2>5, <2>6 DEF WF!TypeOK
<1>2. WF!TypeOK /\ [WF!Next]_(WF!vars) => WF!TypeOK'
  <2> SUFFICES ASSUME WF!TypeOK, [WF!Next]_(WF!vars) PROVE WF!TypeOK'
    OBVIOUS
  <2>1. CASE WF!DeleteWorkflow \/ WF!SaveGraph \/ WF!DeployOrNot \/ WF!ArmWebhook \/ WF!ArmLapses
    <3>1. CASE WF!DeleteWorkflow
      BY <3>1 DEF WF!DeleteWorkflow, WF!TypeOK
    <3>2. CASE WF!SaveGraph
      BY <3>2 DEF WF!SaveGraph, WF!TypeOK
    <3>3. CASE WF!DeployOrNot
      BY <3>3 DEF WF!DeployOrNot, WF!TypeOK
    <3>4. CASE WF!ArmWebhook
      BY <3>4 DEF WF!ArmWebhook, WF!TypeOK
    <3>5. CASE WF!ArmLapses
      BY <3>5 DEF WF!ArmLapses, WF!TypeOK
    <3> QED BY <2>1, <3>1, <3>2, <3>3, <3>4, <3>5
  <2>2. ASSUME NEW r \in Actors, WF!Ask(r) PROVE WF!TypeOK'
    <3>1. step' \in [Actors -> WF!Steps] /\ route' \in [Actors -> {"execute", "stream", "webhook"}]
      <4> PICK way \in {"execute", "stream", "webhook"} :
             route' = [route EXCEPT ![r] = way] /\ step' = [step EXCEPT ![r] = IF way = "webhook" THEN "gate" ELSE "check"]
        BY <2>2 DEF WF!Ask
      <4>1. (IF way = "webhook" THEN "gate" ELSE "check") \in WF!Steps
        BY DEF WF!Steps
      <4> QED BY <4>1 DEF WF!TypeOK
    <3> QED BY <2>2, <3>1 DEF WF!Ask, WF!TypeOK
  <2>3. ASSUME NEW r \in Actors, WF!Gate(r) \/ WF!Disarm(r) PROVE WF!TypeOK'
    <3>1. PICK to \in WF!Steps : WF!Goes(r, to)
      BY <2>3 DEF WF!Gate, WF!Disarm, WF!Steps
    <3>2. step' \in [Actors -> WF!Steps] /\ UNCHANGED route
      BY <3>1, GoesType DEF WF!Goes, WF!TypeOK
    <3>3. CASE WF!Gate(r)
      BY <3>2, <3>3 DEF WF!Gate, WF!TypeOK
    <3>4. CASE WF!Disarm(r)
      BY <3>2, <3>4 DEF WF!Disarm, WF!TypeOK
    <3> QED BY <2>3, <3>3, <3>4
  <2>4. ASSUME NEW r \in Actors, WF!PreCheck(r) \/ WF!Build(r) \/ WF!LoadBlocks(r) \/ WF!CheckModels(r) \/ WF!LoadEdges(r) PROVE WF!TypeOK'
    <3>1. step' \in [Actors -> WF!Steps] /\ UNCHANGED route
      <4>1. PICK to \in WF!Steps : WF!Goes(r, to)
        BY <2>4 DEF WF!PreCheck, WF!Build, WF!LoadBlocks, WF!CheckModels, WF!ModelsExecute, WF!ModelsStream, WF!ModelsWebhook, WF!ModelsMissing, WF!LoadEdges, WF!Steps
      <4> QED BY <4>1, GoesType DEF WF!Goes, WF!TypeOK
    <3> QED BY <2>4, <3>1 DEF WF!PreCheck, WF!Build, WF!LoadBlocks, WF!CheckModels, WF!LoadEdges, WF!TypeOK
  <2>5. ASSUME NEW r \in Actors, WF!Insert(r) PROVE WF!TypeOK'
    <3>1. step' \in [Actors -> WF!Steps] /\ UNCHANGED route
      BY <2>5, GoesType DEF WF!Insert, WF!Goes, WF!TypeOK, WF!Steps
    <3> QED BY <2>5, <3>1 DEF WF!Insert, WF!TypeOK
  <2>6. ASSUME NEW r \in Actors, WF!SearchKb(r) PROVE WF!TypeOK'
    <3>1. /\ searched' \in [Actors -> Nat] /\ found' \in [Actors -> BOOLEAN]
          /\ txn' \in [Actors -> {"open", "aborted"}]
      <4>1. searched[r] + 1 \in Nat
        BY DEF WF!TypeOK
      <4>2. searched' \in [Actors -> Nat]
        BY <2>6, <4>1 DEF WF!SearchKb, WF!TypeOK
      <4>3. found' \in [Actors -> BOOLEAN]
        BY <2>6 DEF WF!SearchKb, WF!TypeOK
      <4>4. txn' \in [Actors -> {"open", "aborted"}]
        BY <2>6 DEF WF!SearchKb, WF!TypeOK
      <4> QED BY <4>2, <4>3, <4>4
    <3> QED BY <2>6, <3>1 DEF WF!SearchKb, WF!Runs_, WF!TypeOK
  <2>7. ASSUME NEW r \in Actors, WF!RunAgent(r) PROVE WF!TypeOK'
    <3>1. outs' \in [Actors -> [Blocks -> {"none", "ok", "error"}]]
      <4> PICK o \in {"ok", "error"} : outs' = [outs EXCEPT ![r][Agent] = o]
        BY <2>7 DEF WF!RunAgent
      <4> QED BY OutsType DEF WF!TypeOK
    <3>2. /\ txn' \in [Actors -> {"open", "aborted"}] /\ noted' \in [Actors -> BOOLEAN]
          /\ saved' \in [Actors -> BOOLEAN]
      <4>1. CASE UNCHANGED <<txn, noted, saved>>
        BY <4>1 DEF WF!TypeOK
      <4>2. CASE WF!Recorder(r)
        BY <4>2 DEF WF!Recorder, WF!RecorderFails, WF!TypeOK
      <4> QED BY <2>7, <4>1, <4>2 DEF WF!RunAgent
    <3> QED BY <2>7, <3>1, <3>2 DEF WF!RunAgent, WF!Runs_, WF!TypeOK
  <2>8. ASSUME NEW r \in Actors, WF!RunBlock(r) PROVE WF!TypeOK'
    <3>1. outs' \in [Actors -> [Blocks -> {"none", "ok", "error"}]]
      <4> PICK b \in Blocks \ {Agent}, o \in {"ok", "error"} : outs' = [outs EXCEPT ![r][b] = o]
        BY <2>8 DEF WF!RunBlock
      <4> QED BY OutsType DEF WF!TypeOK
    <3> QED BY <2>8, <3>1 DEF WF!RunBlock, WF!Runs_, WF!TypeOK
  <2>9. ASSUME NEW r \in Actors, WF!Finish(r) \/ WF!Raise(r) \/ WF!TimeOut(r) \/ WF!LeaveStream(r) PROVE WF!TypeOK'
    <3>1. step' \in [Actors -> WF!Steps] /\ UNCHANGED route
      <4>1. PICK to \in {"complete", "fail"} : WF!Goes(r, to)
        BY <2>9 DEF WF!Finish, WF!Raise, WF!TimeOut, WF!LeaveStream, WF!Only
      <4>2. to \in WF!Steps
        BY DEF WF!Steps
      <4> QED BY <4>1, <4>2, GoesType DEF WF!Goes, WF!TypeOK
    <3>2. UNCHANGED <<execution, logged, billed, workflow, deployed, armed, arms, txn, outs, starts, stale, searched, found, noted, saved>>
      BY <2>9 DEF WF!Finish, WF!Raise, WF!TimeOut, WF!LeaveStream
    <3> QED BY <3>1, <3>2 DEF WF!TypeOK
  <2>10. ASSUME NEW r \in Actors, WF!Complete(r) PROVE WF!TypeOK'
    <3>1. WF!CompleteRow(r)
      BY <2>10 DEF WF!Complete, WF!CompleteExecute, WF!CompleteStream, WF!CompleteWebhook
    <3>2. step' \in [Actors -> WF!Steps] /\ UNCHANGED route
      BY <3>1, GoesType DEF WF!CompleteRow, WF!Goes, WF!TypeOK, WF!Steps
    <3>3. execution' \in [Actors -> {"none", "running", "completed", "failed", "deleted"}]
      BY <3>1 DEF WF!CompleteRow, WF!Recorded, WF!TypeOK
    <3> QED BY <2>10, <3>2, <3>3 DEF WF!Complete, WF!TypeOK
  <2>11. ASSUME NEW r \in Actors, WF!Fail(r) PROVE WF!TypeOK'
    <3>1. WF!FailRow(r) /\ \E to \in {"over", "failed logs"} : WF!Goes(r, to)
      BY <2>11 DEF WF!Fail, WF!FailExecute, WF!FailStream, WF!FailWebhook
    <3>2. step' \in [Actors -> WF!Steps] /\ UNCHANGED route
      BY <3>1, GoesType DEF WF!Goes, WF!TypeOK, WF!Steps
    <3>3. execution' \in [Actors -> {"none", "running", "completed", "failed", "deleted"}]
      BY <3>1 DEF WF!FailRow, WF!Recorded, WF!TypeOK
    <3> QED BY <2>11, <3>2, <3>3 DEF WF!Fail, WF!TypeOK
  <2>12. ASSUME NEW r \in Actors, WF!Logs(r) PROVE WF!TypeOK'
    <3>1. step' \in [Actors -> WF!Steps] /\ UNCHANGED route
      BY <2>12, GoesType DEF WF!Logs, WF!Goes, WF!TypeOK, WF!Steps
    <3> QED BY <2>12, <3>1 DEF WF!Logs, WF!PersistBlockLogs, WF!BlockLogs, WF!TypeOK
  <2>13. ASSUME NEW r \in Actors, WF!Charge(r) PROVE WF!TypeOK'
    <3>1. step' \in [Actors -> WF!Steps] /\ UNCHANGED route
      BY <2>13, GoesType DEF WF!Charge, WF!Only, WF!Goes, WF!TypeOK, WF!Steps
    <3>2. WF!ChargeAll(r)
      BY <2>13 DEF WF!Charge, WF!ChargeExecute, WF!ChargeStream, WF!ChargeWebhook
    <3>3. billed' \subseteq Actors \X (Blocks \union {"run"})
      BY <3>2 DEF WF!ChargeAll, WF!ChargedBlocks, WF!TypeOK
    <3> QED BY <2>13, <3>1, <3>3 DEF WF!Charge, WF!TypeOK
  <2>14. CASE UNCHANGED WF!vars
    BY <2>14 DEF WF!vars, WF!TypeOK
  <2> QED BY <2>1, <2>2, <2>3, <2>4, <2>5, <2>6, <2>7, <2>8, <2>9, <2>10, <2>11, <2>12, <2>13, <2>14 DEF WF!Next, WF!Request
<1> QED BY <1>1, <1>2, PTL DEF WF!Spec

-----------------------------------------------------------------------------
\* An arm that is there has not been counted as a start yet.
ArmsInv == starts + (IF armed = "no" THEN 0 ELSE 1) <= arms
\* What is logged and charged is of an execution recorded as completed; what is
\* charged, of one that is over.
ChargesInv == /\ \A r \in Actors : step[r] \in {"logs", "charge"} => execution[r] \in {"completed", "deleted"}
              /\ \A c \in billed : /\ step[c[1]] = "over" /\ execution[c[1]] \in {"completed", "deleted"}
                                   /\ <<c[1], "run">> \in billed
                                   /\ c[2] \in Blocks => outs[c[1]][c[2]] = "ok"
\* A run is noted for the logs where it is saved.
LogsInv == \A r \in Actors : (noted[r] => saved[r]) /\ (logged[r] = "naming" => saved[r])

\* The webhook: an arm starts one execution.
LEMMA ArmsStep == ASSUME WF!TypeOK, ArmsInv, [WF!Next]_(WF!vars) PROVE ArmsInv'
<1> USE DEF ArmsInv, WF!TypeOK
<1>1. ASSUME UNCHANGED <<armed, arms, starts>> PROVE ArmsInv'
  BY <1>1
<1>2. CASE WF!DeleteWorkflow \/ WF!SaveGraph \/ WF!DeployOrNot \/ WF!ArmWebhook \/ WF!ArmLapses
  BY <1>2 DEF WF!DeleteWorkflow, WF!SaveGraph, WF!DeployOrNot, WF!ArmWebhook, WF!ArmLapses
<1>3. ASSUME NEW r \in Actors, WF!Disarm(r) PROVE ArmsInv'
  BY <1>3 DEF WF!Disarm, WF!Taken
<1>4. ASSUME NEW r \in Actors, WF!Ask(r) \/ WF!Gate(r) \/ WF!PreCheck(r) \/ WF!Build(r) \/ WF!LoadBlocks(r) \/ WF!CheckModels(r) \/ WF!Insert(r) \/ WF!LoadEdges(r)
      PROVE ArmsInv'
  BY <1>1, <1>4 DEF WF!Ask, WF!Gate, WF!PreCheck, WF!Build, WF!LoadBlocks, WF!CheckModels, WF!Insert, WF!LoadEdges
<1>5. ASSUME NEW r \in Actors, WF!SearchKb(r) \/ WF!RunAgent(r) \/ WF!RunBlock(r) PROVE ArmsInv'
  BY <1>1, <1>5 DEF WF!SearchKb, WF!RunAgent, WF!RunBlock, WF!Runs_
<1>6. ASSUME NEW r \in Actors, WF!Finish(r) \/ WF!Raise(r) \/ WF!TimeOut(r) \/ WF!LeaveStream(r) \/ WF!Complete(r) \/ WF!Fail(r) \/ WF!Logs(r) \/ WF!Charge(r)
      PROVE ArmsInv'
  BY <1>1, <1>6 DEF WF!Finish, WF!Raise, WF!TimeOut, WF!LeaveStream, WF!Complete, WF!Fail, WF!Logs, WF!Charge
<1>7. CASE UNCHANGED WF!vars
  BY <1>1, <1>7 DEF WF!vars
<1> QED BY <1>2, <1>3, <1>4, <1>5, <1>6, <1>7 DEF WF!Next, WF!Request

\* The logs name what is saved.
LEMMA LogsStep == ASSUME WF!TypeOK, LogsInv, [WF!Next]_(WF!vars) PROVE LogsInv'
<1> USE DEF LogsInv
<1>1. ASSUME UNCHANGED <<noted, saved, logged>> PROVE LogsInv'
  BY <1>1
<1>2. CASE WF!DeleteWorkflow \/ WF!SaveGraph \/ WF!DeployOrNot \/ WF!ArmWebhook \/ WF!ArmLapses
  BY <1>1, <1>2 DEF WF!DeleteWorkflow, WF!SaveGraph, WF!DeployOrNot, WF!ArmWebhook, WF!ArmLapses
<1>3. ASSUME NEW r \in Actors, WF!Ask(r) \/ WF!Gate(r) \/ WF!Disarm(r) \/ WF!PreCheck(r) \/ WF!Build(r) \/ WF!LoadBlocks(r) \/ WF!CheckModels(r) \/ WF!Insert(r) \/ WF!LoadEdges(r)
      PROVE LogsInv'
  BY <1>1, <1>3 DEF WF!Ask, WF!Gate, WF!Disarm, WF!PreCheck, WF!Build, WF!LoadBlocks, WF!CheckModels, WF!Insert, WF!LoadEdges
<1>4. ASSUME NEW r \in Actors, WF!SearchKb(r) \/ WF!RunBlock(r) PROVE LogsInv'
  BY <1>1, <1>4 DEF WF!SearchKb, WF!RunBlock, WF!Runs_
<1>5. ASSUME NEW r \in Actors, WF!RunAgent(r) PROVE LogsInv'
  <2>1. logged' = logged
    BY <1>5 DEF WF!RunAgent, WF!Runs_
  <2>2. \/ UNCHANGED <<noted, saved>>
        \/ noted' = [noted EXCEPT ![r] = TRUE] /\ saved' = [saved EXCEPT ![r] = TRUE]
    BY <1>5 DEF WF!RunAgent, WF!Recorder, WF!RecorderFails
  <2> QED BY <2>1, <2>2 DEF WF!TypeOK
<1>6. ASSUME NEW r \in Actors, WF!Logs(r) PROVE LogsInv'
  <2>1. UNCHANGED <<noted, saved>> /\ (UNCHANGED logged \/ logged' = [logged EXCEPT ![r] = WF!BlockLogs(r)])
    BY <1>6 DEF WF!Logs, WF!PersistBlockLogs
  <2>2. WF!BlockLogs(r) = "naming" => noted[r]
    BY DEF WF!BlockLogs
  <2> QED BY <2>1, <2>2 DEF WF!TypeOK
<1>7. ASSUME NEW r \in Actors, WF!Finish(r) \/ WF!Raise(r) \/ WF!TimeOut(r) \/ WF!LeaveStream(r) \/ WF!Complete(r) \/ WF!Fail(r) \/ WF!Charge(r) PROVE LogsInv'
  BY <1>1, <1>7 DEF WF!Finish, WF!Raise, WF!TimeOut, WF!LeaveStream, WF!Complete, WF!Fail, WF!Charge
<1>8. CASE UNCHANGED WF!vars
  BY <1>1, <1>8 DEF WF!vars
<1> QED BY <1>2, <1>3, <1>4, <1>5, <1>6, <1>7, <1>8 DEF WF!Next, WF!Request

\* What is charged stays true of an execution that is over.
LEMMA ChargesStep == ASSUME WF!TypeOK, ChargesInv, [WF!Next]_(WF!vars), "run" \notin Blocks PROVE ChargesInv'
<1> USE DEF ChargesInv
\* A step of a request that is not over, and stays off the logs and the charges.
<1>1. ASSUME NEW r \in Actors, step[r] # "over", NEW to, to \notin {"logs", "charge"}, step' = [step EXCEPT ![r] = to], UNCHANGED <<outs, billed>>,
             UNCHANGED execution \/ \E s : execution' = [execution EXCEPT ![r] = s]
      PROVE ChargesInv'
  BY <1>1 DEF WF!TypeOK
<1>2. ASSUME UNCHANGED <<step, outs, billed, execution>> PROVE ChargesInv'
  BY <1>2
<1>3. CASE WF!DeleteWorkflow
  <2>1. UNCHANGED <<step, outs, billed>> /\ \A r \in Actors : execution[r] # "none" => execution'[r] = "deleted"
    BY <1>3 DEF WF!DeleteWorkflow
  <2> QED BY <2>1 DEF WF!TypeOK
<1>4. CASE WF!SaveGraph \/ WF!DeployOrNot \/ WF!ArmWebhook \/ WF!ArmLapses
  BY <1>2, <1>4 DEF WF!SaveGraph, WF!DeployOrNot, WF!ArmWebhook, WF!ArmLapses
<1>5. ASSUME NEW r \in Actors, WF!Ask(r) PROVE ChargesInv'
  BY <1>1, <1>5 DEF WF!Ask
<1>6. ASSUME NEW r \in Actors, WF!Gate(r) \/ WF!Disarm(r) \/ WF!PreCheck(r) \/ WF!Build(r) PROVE ChargesInv'
  BY <1>1, <1>6 DEF WF!Gate, WF!Disarm, WF!PreCheck, WF!Build, WF!Goes
<1>7. ASSUME NEW r \in Actors, WF!LoadBlocks(r) \/ WF!CheckModels(r) \/ WF!Insert(r) \/ WF!LoadEdges(r) PROVE ChargesInv'
  BY <1>1, <1>7, SMTT(60) DEF WF!LoadBlocks, WF!CheckModels, WF!ModelsExecute, WF!ModelsStream, WF!ModelsWebhook, WF!ModelsMissing, WF!Insert, WF!LoadEdges, WF!Goes
<1>8. ASSUME NEW r \in Actors, WF!Finish(r) \/ WF!Raise(r) \/ WF!TimeOut(r) \/ WF!LeaveStream(r) PROVE ChargesInv'
  BY <1>1, <1>8 DEF WF!Finish, WF!Raise, WF!TimeOut, WF!LeaveStream, WF!Only, WF!Goes
<1>9. ASSUME NEW r \in Actors, WF!Complete(r) PROVE ChargesInv'
  <2>1. step[r] = "complete" /\ WF!CompleteRow(r) /\ UNCHANGED <<outs, billed>>
    BY <1>9 DEF WF!Complete, WF!CompleteExecute, WF!CompleteStream, WF!CompleteWebhook
  <2>2. CASE txn[r] = "open"
    <3>1. step' = [step EXCEPT ![r] = "logs"] /\ execution' = [execution EXCEPT ![r] = IF @ = "deleted" THEN @ ELSE "completed"]
      BY <2>1, <2>2 DEF WF!CompleteRow, WF!Goes, WF!Recorded
    <3> QED BY <2>1, <3>1 DEF WF!TypeOK
  <2>3. CASE txn[r] # "open"
    <3>1. UNCHANGED execution /\ \E to \in {"over", "fail"} : step' = [step EXCEPT ![r] = to]
      BY <2>1, <2>3 DEF WF!CompleteRow, WF!Goes
    <3> QED BY <1>1, <2>1, <3>1
  <2> QED BY <2>2, <2>3
<1>10. ASSUME NEW r \in Actors, WF!Fail(r) PROVE ChargesInv'
  <2>1. step[r] = "fail" /\ WF!FailRow(r) /\ UNCHANGED <<outs, billed>> /\ \E to \in {"over", "failed logs"} : step' = [step EXCEPT ![r] = to]
    BY <1>10 DEF WF!Fail, WF!FailExecute, WF!FailStream, WF!FailWebhook, WF!Goes
  <2>2. UNCHANGED execution \/ \E s : execution' = [execution EXCEPT ![r] = s]
    BY <2>1 DEF WF!FailRow, WF!Recorded
  <2> QED BY <1>1, <2>1, <2>2, ZenonT(60)
<1>11. ASSUME NEW r \in Actors, WF!Logs(r) PROVE ChargesInv'
  BY <1>11 DEF WF!Logs, WF!Goes, WF!TypeOK
<1>12. ASSUME NEW r \in Actors, WF!SearchKb(r) PROVE ChargesInv'
  BY <1>2, <1>12 DEF WF!SearchKb, WF!Runs_
\* A block gives something to a request that runs, and is not charged yet.
<1>13. ASSUME NEW r \in Actors, WF!RunAgent(r) \/ WF!RunBlock(r) PROVE ChargesInv'
  <2>1. step[r] = "run" /\ UNCHANGED <<step, billed, execution>> /\ \E b, o : outs' = [outs EXCEPT ![r][b] = o]
    BY <1>13, SMTT(60) DEF WF!RunAgent, WF!RunBlock, WF!Runs_
  <2>2. \A q \in Actors : q # r => outs'[q] = outs[q]
    BY <2>1 DEF WF!TypeOK
  <2> QED BY <2>1, <2>2 DEF WF!TypeOK
<1>14. ASSUME NEW r \in Actors, WF!Charge(r) PROVE ChargesInv'
  <2>1. step[r] = "charge" /\ step' = [step EXCEPT ![r] = "over"] /\ UNCHANGED <<outs, execution>> /\ WF!ChargeAll(r)
    BY <1>14 DEF WF!Charge, WF!ChargeExecute, WF!ChargeStream, WF!ChargeWebhook, WF!Only, WF!Goes
  <2>2. execution[r] \in {"completed", "deleted"}
    BY <2>1
  <2>3. step'[r] = "over" /\ \A q \in Actors \ {r} : step'[q] = step[q]
    BY <2>1 DEF WF!TypeOK
  <2>4. \A q \in Actors : step'[q] \in {"logs", "charge"} => execution'[q] \in {"completed", "deleted"}
    BY <2>1, <2>3
  <2>5. ASSUME NEW c \in billed'
        PROVE /\ step'[c[1]] = "over" /\ execution'[c[1]] \in {"completed", "deleted"} /\ <<c[1], "run">> \in billed'
              /\ c[2] \in Blocks => outs'[c[1]][c[2]] = "ok"
    <3>1. CASE c \in billed
      <4>1. c[1] \in Actors /\ step[c[1]] = "over"
        BY <3>1 DEF WF!TypeOK
      <4> QED BY <2>1, <2>3, <3>1, <4>1 DEF WF!ChargeAll
    <3>2. CASE c = <<r, "run">>
      BY <2>1, <2>2, <2>3, <3>2 DEF WF!ChargeAll
    <3>3. CASE c \in {r} \X WF!ChargedBlocks(r)
      BY <2>1, <2>2, <2>3, <3>3 DEF WF!ChargeAll, WF!ChargedBlocks
    <3> QED BY <2>1, <2>5, <3>1, <3>2, <3>3 DEF WF!ChargeAll
  <2> QED BY <2>4, <2>5
<1>15. CASE UNCHANGED WF!vars
  BY <1>2, <1>15 DEF WF!vars
<1> QED BY <1>3, <1>4, <1>5, <1>6, <1>7, <1>8, <1>9, <1>10, <1>11, <1>12, <1>13, <1>14, <1>15 DEF WF!Next, WF!Request

(* An armed webhook starts one execution, only what ran is charged, and the logs
   name no run that was not kept; "run" is the charge of the execution itself. *)
THEOREM OnlyWhatRan == ASSUME "run" \notin Blocks PROVE WF!Spec => []WF!ExecutionsCounted
<1>1. WF!Init => ArmsInv /\ ChargesInv /\ LogsInv
  BY DEF WF!Init, ArmsInv, ChargesInv, LogsInv
<1>2. WF!TypeOK /\ (ArmsInv /\ ChargesInv /\ LogsInv) /\ [WF!Next]_(WF!vars) => (ArmsInv /\ ChargesInv /\ LogsInv)'
  BY ArmsStep, ChargesStep, LogsStep
<1>3. WF!TypeOK /\ ArmsInv /\ ChargesInv /\ LogsInv => WF!ExecutionsCounted
  BY DEF WF!TypeOK, ArmsInv, ChargesInv, LogsInv, WF!ExecutionsCounted, WF!ArmOnce, WF!ChargedRan, WF!LoggedRunKept
<1> QED BY <1>1, <1>2, <1>3, WorkflowsTypeCorrect, PTL DEF WF!Spec

-----------------------------------------------------------------------------
(* The calls of tools. *)

USE DEF TC!money, TC!search, TC!answer, TC!loop

CallPlaces == {"idle", "configs", "query", "search", "metadata", "label", "persist", "key", "balance", "run", "cite", "returned", "failed"}
CallStatuses == {"none", "failed", "completed", "platform error", "items", "raw", "empty"}
\* A call is what the model asked for, or was not asked yet.
Asked == /\ ask \in [Calls -> TC!Asks \union {TC!Idle}] /\ at \in [Calls -> CallPlaces]
         /\ \A c \in Calls : at[c] # "idle" => ask[c] \in TC!Asks
\* The keys of citations are given once each.
Registered == /\ units \in Seq((Calls \union {0}) \X Nat) /\ labels \in [Calls -> Seq(Nat)]
              /\ items \in [Calls -> SUBSET Kbs] /\ TC!KeysOwn

\* Appending to the registry leaves what was in it where it was.
LEMMA Appended == ASSUME NEW S, NEW r \in Seq(S), NEW u \in Seq(S)
                  PROVE /\ r \o u \in Seq(S) /\ Len(r \o u) = Len(r) + Len(u)
                        /\ \A n \in 1..Len(r) : (r \o u)[n] = r[n]
                        /\ \A n \in 1..Len(u) : (r \o u)[Len(r) + n] = u[n]
  OBVIOUS

\* One batch of a call's units.
LEMMA Batch == ASSUME Registered, NEW c \in Calls, NEW u \in Seq((Calls \union {0}) \X Nat),
                      \A n \in 1..Len(u) : u[n] = <<c, n>>, TC!RegisterMany(c, u), items' = items
               PROVE Registered'
<1> DEFINE S == (Calls \union {0}) \X Nat
<1>1. /\ units' \in Seq(S) /\ Len(units') = Len(units) + Len(u)
      /\ \A n \in 1..Len(units) : units'[n] = units[n]
      /\ \A n \in 1..Len(u) : units'[Len(units) + n] = <<c, n>>
  BY Appended DEF Registered, TC!RegisterMany
<1>2. Len(units) \in Nat /\ Len(u) \in Nat
  BY DEF Registered
<1>3. [n \in 1..Len(u) |-> TC!First + n - 1] \in Seq(Nat) /\ Len([n \in 1..Len(u) |-> TC!First + n - 1]) = Len(u)
  BY <1>2 DEF TC!First
<1>4. labels' \in [Calls -> Seq(Nat)]
  BY <1>3 DEF Registered, TC!RegisterMany
<1>5. ASSUME NEW d \in Calls, NEW n \in 1..Len(labels'[d])
      PROVE labels'[d][n] \in 1..Len(units') /\ units'[labels'[d][n]] = <<d, n>>
  <2>1. CASE d = c
    <3>1. labels'[c] = [m \in 1..Len(u) |-> TC!First + m - 1]
      BY DEF Registered, TC!RegisterMany
    <3>2. n \in 1..Len(u) /\ labels'[c][n] = Len(units) + n
      BY <1>2, <1>3, <1>5, <2>1, <3>1 DEF TC!First
    <3> QED BY <1>1, <1>2, <2>1, <3>2
  <2>2. CASE d # c
    <3>1. labels'[d] = labels[d]
      BY <2>2 DEF Registered, TC!RegisterMany
    <3>2. labels[d][n] \in 1..Len(units) /\ units[labels[d][n]] = <<d, n>>
      BY <1>5, <3>1 DEF Registered, TC!KeysOwn
    <3> QED BY <1>1, <1>2, <3>1, <3>2, SMTT(60)
  <2> QED BY <2>1, <2>2
<1> QED BY <1>1, <1>4, <1>5 DEF Registered, TC!KeysOwn

\* Every step leaves the labels of the calls apart in the registry.
LEMMA KeysStep == ASSUME IsFiniteSet(Kbs), Asked, Registered, [TC!Next]_(TC!vars) PROVE Registered'
<1>1. ASSUME UNCHANGED <<units, labels, items>> PROVE Registered'
  BY <1>1 DEF Registered, TC!KeysOwn
<1>2. CASE TC!Seed
  <2>1. \A c \in Calls : Len(labels[c]) = 0
    BY <1>2 DEF TC!Seed, Registered, TC!KeysOwn
  <2>2. units' \in Seq((Calls \union {0}) \X Nat)
    BY <1>2 DEF TC!Seed
  <2> QED BY <1>2, <2>1, <2>2 DEF TC!Seed, Registered, TC!KeysOwn
<1>3. CASE TC!Start \/ TC!KeepRun \/ TC!Resolve
  BY <1>1, <1>3 DEF TC!Start, TC!KeepRun, TC!Resolve
<1>4. ASSUME NEW c \in Calls, TC!LoadConfigs(c) \/ TC!EnrichQuery(c) \/ TC!FetchMetadata(c) \/ TC!Persist(c) PROVE Registered'
  BY <1>1, <1>4 DEF TC!LoadConfigs, TC!EnrichQuery, TC!FetchMetadata, TC!Persist
<1>5. ASSUME NEW c \in Calls, TC!DeriveKey(c) \/ TC!CheckBalance(c) \/ TC!RunBuiltin(c) \/ TC!RunMcp(c) PROVE Registered'
  BY <1>1, <1>5 DEF TC!DeriveKey, TC!CheckBalance, TC!RunBuiltin, TC!RunMcp
<1>6. ASSUME NEW c \in Calls, TC!SearchSingle(c) \/ TC!SearchThread(c) PROVE Registered'
  <2>1. UNCHANGED <<units, labels>>
    BY <1>6 DEF TC!SearchSingle, TC!SearchThread
  <2>2. PICK k \in ask[c].kbs, o \in TC!Outcomes : TC!Collect(c, k, o)
    BY <1>6 DEF TC!SearchSingle, TC!SearchThread
  <2>3. k \in Kbs
    BY <2>2 DEF Asked, TC!Asks, TC!Idle
  <2> QED BY <2>1, <2>2, <2>3 DEF Registered, TC!KeysOwn, TC!Collect
<1>7. ASSUME NEW c \in Calls, TC!Label(c) PROVE Registered'
  <2>1. CASE items[c] = {}
    BY <1>1, <1>7, <2>1 DEF TC!Label
  <2>2. CASE items[c] # {}
    <3>1. Cardinality(items[c]) \in Nat
      BY FS_Subset, FS_CardinalityType DEF Registered
    <3>3. TC!Cardinality(items[c]) = Cardinality(items[c])
      BY DEF TC!Cardinality, Cardinality
    <3>2. /\ TC!Units(c) \in Seq((Calls \union {0}) \X Nat) /\ Len(TC!Units(c)) = Cardinality(items[c])
          /\ \A n \in 1..Len(TC!Units(c)) : TC!Units(c)[n] = <<c, n>>
      BY <3>1, <3>3 DEF TC!Units
    <3> QED BY <1>7, <2>2, <3>2, Batch DEF TC!Label
  <2> QED BY <2>1, <2>2
<1>8. ASSUME NEW c \in Calls, TC!Cite(c) PROVE Registered'
  <2>1. CASE TC!KeyItems(c)
    <3>1. <<<<c, 1>>, <<c, 2>>>> \in Seq((Calls \union {0}) \X Nat) /\ Len(<<<<c, 1>>, <<c, 2>>>>) = 2
      OBVIOUS
    <3>2. \A n \in 1..2 : <<<<c, 1>>, <<c, 2>>>>[n] = <<c, n>>
      OBVIOUS
    <3> QED BY <1>8, <2>1, <3>1, <3>2, Batch DEF TC!Cite, TC!KeyItems
  <2>2. CASE TC!KeyResult(c)
    <3>1. <<<<c, 1>>>> \in Seq((Calls \union {0}) \X Nat) /\ Len(<<<<c, 1>>>>) = 1
      OBVIOUS
    <3>2. \A n \in 1..1 : <<<<c, 1>>>>[n] = <<c, n>>
      OBVIOUS
    <3> QED BY <1>8, <2>2, <3>1, <3>2, Batch DEF TC!Cite, TC!KeyResult
  <2>3. CASE TC!KeyNothing(c)
    BY <1>1, <1>8, <2>3 DEF TC!Cite, TC!KeyNothing
  <2> QED BY <1>8, <2>1, <2>2, <2>3 DEF TC!Cite
<1>9. CASE UNCHANGED TC!vars
  BY <1>1, <1>9 DEF TC!vars
<1> QED BY <1>2, <1>3, <1>4, <1>5, <1>6, <1>7, <1>8, <1>9 DEF TC!Next, TC!Call

-----------------------------------------------------------------------------
\* Every step leaves the request of a call that is under way as it was.
LEMMA AskedStep == ASSUME Asked, [TC!Next]_(TC!vars) PROVE Asked'
<1> USE DEF Asked, TC!Goes, TC!Fails, CallPlaces
<1>1. ASSUME UNCHANGED <<ask, at>> PROVE Asked'
  BY <1>1
<1>2. ASSUME NEW c \in Calls, at[c] # "idle", \E to \in CallPlaces : TC!Goes(c, to) PROVE Asked'
  BY <1>2
<1>3. CASE TC!Seed \/ TC!KeepRun \/ TC!Resolve \/ UNCHANGED TC!vars
  BY <1>1, <1>3 DEF TC!Seed, TC!KeepRun, TC!Resolve, TC!vars
<1>4. CASE TC!Start
  <2>1. at' \in [Calls -> CallPlaces] /\ ask' \in [Calls -> TC!Asks]
    BY <1>4 DEF TC!Start
  <2> QED BY <2>1
<1>5. ASSUME NEW c \in Calls, TC!LoadConfigs(c) \/ TC!EnrichQuery(c) \/ TC!SearchSingle(c) \/ TC!FetchMetadata(c) \/ TC!Label(c) \/ TC!Persist(c) PROVE Asked'
  BY <1>2, <1>5 DEF TC!LoadConfigs, TC!EnrichQuery, TC!SearchSingle, TC!FetchMetadata, TC!Label, TC!Persist
<1>6. ASSUME NEW c \in Calls, TC!SearchThread(c) PROVE Asked'
  BY <1>1, <1>2, <1>6 DEF TC!SearchThread
<1>7. ASSUME NEW c \in Calls, TC!DeriveKey(c) \/ TC!CheckBalance(c) \/ TC!RunBuiltin(c) \/ TC!RunMcp(c) \/ TC!Cite(c) PROVE Asked'
  BY <1>2, <1>7 DEF TC!DeriveKey, TC!CheckBalance, TC!RunBuiltin, TC!RunMcp, TC!Cite
<1> QED BY <1>3, <1>4, <1>5, <1>6, <1>7 DEF TC!Next, TC!Call

(* A call's key names its kind, its arguments and its number among those with the
   same arguments, which the counter has passed; so no two calls have one key.
   What is charged was charged by its key, and is over. *)
Keyed(c) == key[c] # <<>>
Keys == {<<>>} \union (TC!Kinds \X Args \X Nat)
OneKey(c) == /\ at[c] \in {"idle", "key"} => ~Keyed(c)
             /\ at[c] \in {"balance", "run"} => Keyed(c)
             /\ Keyed(c) => key[c][2] = ask[c].args /\ key[c][3] <= seqs[ask[c].args]
OverAndKeyed(p) == /\ p[1] \in Calls /\ p[2] = key[p[1]] /\ Keyed(p[1])
                   /\ at[p[1]] \in {"cite", "returned"} /\ status[p[1]] # "platform error"
MoneyInv == /\ seqs \in [Args -> Nat] /\ key \in [Calls -> Keys] /\ status \in [Calls -> CallStatuses]
            /\ \A c \in Calls : OneKey(c)
            /\ \A c, d \in Calls : Keyed(c) /\ Keyed(d) /\ key[c] = key[d] => c = d
            /\ \A p \in paid : OverAndKeyed(p)

\* A key that was taken, and one that is made.
LEMMA KeyFacts == ASSUME NEW x \in Keys, x # <<>> PROVE x[1] \in TC!Kinds /\ x[2] \in Args /\ x[3] \in Nat
  BY DEF Keys
\* A key of a call is a key, and tells its arguments and its number.
LEMMA NewKey == ASSUME NEW k \in TC!Kinds, NEW a \in Args, NEW n \in Nat
                PROVE <<k, a, n>> \in Keys /\ <<k, a, n>> # <<>> /\ <<k, a, n>>[2] = a /\ <<k, a, n>>[3] = n
  BY DEF Keys

\* A call takes its key.
LEMMA TakesKey == ASSUME Asked, MoneyInv, NEW c \in Calls, TC!DeriveKey(c) PROVE MoneyInv'
<1> DEFINE a == ask[c].args
           n == seqs[a]
<1>1. ask[c] \in TC!Asks
  BY DEF Asked, TC!DeriveKey
<1>2. a \in Args /\ ask[c].kind \in TC!Kinds
  BY <1>1 DEF TC!Asks
<1>3. seqs \in [Args -> Nat] /\ key \in [Calls -> Keys] /\ status \in [Calls -> CallStatuses] /\ at \in [Calls -> CallPlaces]
  BY DEF MoneyInv, Asked
<1>4. n \in Nat /\ n + 1 \in Nat
  BY <1>2, <1>3
<1>5. seqs' = [seqs EXCEPT ![a] = n + 1]
  BY DEF TC!DeriveKey, TC!NextSeq
<1>6. seqs' \in [Args -> Nat] /\ seqs'[a] = n + 1 /\ \A b \in Args : seqs[b] \in Nat /\ seqs'[b] \in Nat /\ seqs[b] <= seqs'[b]
  <2> HIDE DEF a, n
  <2>1. seqs' \in [Args -> Nat] /\ seqs'[a] = n + 1
    BY <1>2, <1>3, <1>4, <1>5
  <2>2. ASSUME NEW b \in Args PROVE seqs[b] \in Nat /\ seqs'[b] \in Nat /\ seqs[b] <= seqs'[b]
    <3>1. CASE b = a
      BY <1>3, <1>4, <1>5, <2>1, <3>1 DEF n
    <3>2. CASE b # a
      BY <1>3, <1>5, <3>2
    <3> QED BY <3>1, <3>2
  <2> QED BY <2>1, <2>2
<1>7. key' = [key EXCEPT ![c] = <<ask[c].kind, a, n + 1>>]
  <2>1. key' = [key EXCEPT ![c] = <<ask[c].kind, a, seqs'[a]>>]
    BY DEF TC!DeriveKey
  <2> QED BY <1>6, <2>1
<1>8. at' = [at EXCEPT ![c] = "balance"] /\ at[c] = "key" /\ UNCHANGED <<ask, paid, status>>
  BY DEF TC!DeriveKey, TC!Goes
<1> HIDE DEF a, n
<1>9. /\ key' \in [Calls -> Keys] /\ key'[c] # <<>> /\ key'[c][2] = a /\ key'[c][3] = n + 1
      /\ \A d \in Calls \ {c} : key'[d] = key[d]
  BY <1>2, <1>3, <1>4, <1>7, NewKey
<1>10. at'[c] = "balance" /\ \A d \in Calls \ {c} : at'[d] = at[d]
  BY <1>3, <1>8
<1>11. ASSUME NEW d \in Calls \ {c}, key[d] # <<>>
       PROVE key[d][2] = ask[d].args /\ ask[d].args \in Args /\ key[d][3] <= seqs'[ask[d].args] /\ key[d] # key'[c]
  <2>1. key[d][2] \in Args /\ key[d][3] \in Nat
    BY <1>3, <1>11, KeyFacts
  <2>2. key[d][2] = ask[d].args /\ key[d][3] <= seqs[ask[d].args]
    BY <1>11 DEF MoneyInv, OneKey, Keyed
  <2>3. seqs[ask[d].args] \in Nat /\ seqs'[ask[d].args] \in Nat /\ seqs[ask[d].args] <= seqs'[ask[d].args]
    BY <1>6, <2>1, <2>2
  <2>4. key[d][3] <= seqs'[ask[d].args]
    BY <2>1, <2>2, <2>3
  <2>5. ask[d].args = a => key[d][3] <= n
    BY <2>2 DEF n
  <2>6. ask[d].args = a => key[d][3] # n + 1
    BY <1>4, <2>1, <2>5
  <2> QED BY <1>9, <2>1, <2>2, <2>4, <2>6
<1>12. ASSUME NEW d \in Calls PROVE OneKey(d)'
  <2>1. CASE d = c
    <3>1. n + 1 <= seqs'[a]
      BY <1>4, <1>6
    <3> QED BY <1>8, <1>9, <1>10, <2>1, <3>1 DEF OneKey, Keyed, a
  <2>2. CASE d # c
    <3>1. key'[d] = key[d] /\ at'[d] = at[d] /\ ask' = ask
      BY <1>8, <1>9, <1>10, <2>2
    <3>2. OneKey(d)
      BY DEF MoneyInv
    <3>3. key[d] # <<>> => key[d][2] = ask[d].args /\ key[d][3] <= seqs'[ask[d].args]
      BY <1>11, <2>2
    <3> QED BY <3>1, <3>2, <3>3 DEF OneKey, Keyed
  <2> QED BY <2>1, <2>2
<1>13. ASSUME NEW d \in Calls, NEW e \in Calls, key'[d] # <<>>, key'[e] # <<>>, key'[d] = key'[e] PROVE d = e
  <2>1. key[d] # <<>> /\ key[e] # <<>> /\ key[d] = key[e] => d = e
    BY DEF MoneyInv, Keyed
  <2> QED BY <1>9, <1>11, <1>13, <2>1
<1>14. ASSUME NEW p \in paid' PROVE OverAndKeyed(p)'
  <2>1. OverAndKeyed(p)
    BY <1>8, <1>14 DEF MoneyInv
  <2> QED BY <1>8, <1>9, <1>10, <2>1 DEF OverAndKeyed, Keyed
<1> QED BY <1>3, <1>6, <1>8, <1>9, <1>12, <1>13, <1>14 DEF MoneyInv, Keyed

\* Every step leaves a call with one key of its own, and with one charge for it.
LEMMA MoneyStep == ASSUME Asked, MoneyInv, [TC!Next]_(TC!vars) PROVE MoneyInv'
<1> USE DEF MoneyInv, OneKey, OverAndKeyed, Asked, TC!Goes, TC!Fails, Keyed, CallPlaces, CallStatuses
\* A step of a call that has no key to take, and is not charged.
<1>1. ASSUME NEW c \in Calls, at[c] \notin {"idle", "cite", "returned"}, at[c] # "key",
             NEW to \in CallPlaces, to \notin {"idle", "key", "balance", "run"}, at' = [at EXCEPT ![c] = to], UNCHANGED <<ask, seqs, key, paid>>,
             UNCHANGED status \/ \E s \in CallStatuses : status' = [status EXCEPT ![c] = s]
      PROVE MoneyInv'
  BY <1>1, ZenonT(60)
<1>2. ASSUME UNCHANGED <<ask, at, status, seqs, key, paid>> PROVE MoneyInv'
  BY <1>2
<1>3. CASE TC!Seed \/ TC!KeepRun \/ TC!Resolve \/ UNCHANGED TC!vars
  BY <1>2, <1>3 DEF TC!Seed, TC!KeepRun, TC!Resolve, TC!vars
<1>4. CASE TC!Start
  <2>1. \A c \in Calls : at[c] = "idle" /\ ~Keyed(c)
    BY <1>4 DEF TC!Start
  <2>2. paid = {}
    BY <2>1
  <2>3. \A c \in Calls : at'[c] \in {"configs", "key"}
    BY <1>4 DEF TC!Start
  <2>4. UNCHANGED <<seqs, key, paid, status>>
    BY <1>4 DEF TC!Start
  <2> QED BY <2>1, <2>2, <2>3, <2>4
<1>5. ASSUME NEW c \in Calls, TC!LoadConfigs(c) \/ TC!EnrichQuery(c) \/ TC!SearchSingle(c) \/ TC!FetchMetadata(c) \/ TC!Persist(c) PROVE MoneyInv'
  BY <1>1, <1>5 DEF TC!LoadConfigs, TC!EnrichQuery, TC!SearchSingle, TC!FetchMetadata, TC!Persist
<1>6. ASSUME NEW c \in Calls, TC!SearchThread(c) PROVE MoneyInv'
  BY <1>1, <1>2, <1>6 DEF TC!SearchThread
<1>7. ASSUME NEW c \in Calls, TC!Label(c) PROVE MoneyInv'
  <2>1. TC!StatusOf(c) \in CallStatuses
    BY DEF TC!StatusOf, CallStatuses
  <2> QED BY <1>1, <1>7, <2>1 DEF TC!Label
<1>8. ASSUME NEW c \in Calls, TC!CheckBalance(c) PROVE MoneyInv'
  BY <1>8, ZenonT(60) DEF TC!CheckBalance
<1>9. ASSUME NEW c \in Calls, TC!DeriveKey(c) PROVE MoneyInv'
  BY <1>9, TakesKey
\* A call that runs is charged by its key, or not.
<1>10. ASSUME NEW c \in Calls, at[c] = "run", NEW to \in {"returned", "cite"}, at' = [at EXCEPT ![c] = to], UNCHANGED <<ask, seqs, key>>,
              NEW s \in CallStatuses, s # "platform error", status' = [status EXCEPT ![c] = s], TC!Charge(c)
       PROVE MoneyInv'
  <2>1. at'[c] = to /\ status'[c] = s /\ \A d \in Calls \ {c} : at'[d] = at[d] /\ status'[d] = status[d]
    BY <1>10
  <2>2. ASSUME NEW p \in paid' PROVE OverAndKeyed(p)'
    <3>1. CASE p \in paid
      BY <1>10, <2>1, <3>1
    <3>2. CASE p = <<c, key[c]>>
      BY <1>10, <2>1, <3>2
    <3> QED BY <1>10, <2>2, <3>1, <3>2 DEF TC!Charge
  <2>3. \A d \in Calls : OneKey(d)'
    BY <1>10, <2>1
  <2> QED BY <1>10, <2>2, <2>3
<1>11. ASSUME NEW c \in Calls, TC!RunBuiltin(c) PROVE MoneyInv'
  BY <1>1, <1>10, <1>11 DEF TC!RunBuiltin, TC!NotCharged
<1>12. ASSUME NEW c \in Calls, TC!RunMcp(c) PROVE MoneyInv'
  BY <1>1, <1>10, <1>12 DEF TC!RunMcp
<1>13. ASSUME NEW c \in Calls, TC!Cite(c) PROVE MoneyInv'
  BY <1>13 DEF TC!Cite
<1> QED BY <1>3, <1>4, <1>5, <1>6, <1>7, <1>8, <1>9, <1>11, <1>12, <1>13 DEF TC!Next, TC!Call

(* Calls that overlap are cited and charged apart: each citation key is of one
   unit, each charge under a key of its own, and none for the platform's failure. *)
THEOREM CallsApart == ASSUME IsFiniteSet(Kbs) PROVE TC!Spec => []TC!CallsAreApart
<1>1. TC!Init => Asked /\ Registered /\ MoneyInv
  <2> SUFFICES ASSUME TC!Init PROVE Asked /\ Registered /\ MoneyInv
    OBVIOUS
  <2>1. Asked
    BY DEF TC!Init, Asked, CallPlaces
  <2>2. Registered
    BY DEF TC!Init, Registered, TC!KeysOwn
  <2>3. MoneyInv
    BY DEF TC!Init, MoneyInv, OneKey, OverAndKeyed, Keyed, Keys, CallStatuses
  <2> QED BY <2>1, <2>2, <2>3
<1>2. (Asked /\ Registered /\ MoneyInv) /\ [TC!Next]_(TC!vars) => (Asked /\ Registered /\ MoneyInv)'
  BY AskedStep, KeysStep, MoneyStep
<1>3. Registered /\ MoneyInv => TC!CallsAreApart
  BY ZenonT(60) DEF Registered, MoneyInv, OverAndKeyed, Keyed, TC!CallsAreApart, TC!ChargedApart
<1> QED BY <1>1, <1>2, <1>3, PTL DEF TC!Spec

-----------------------------------------------------------------------------
(* What a search has of its knowledge bases is what they gave, from its first to
   its last; one that asks several shares its session with none of them. *)
Searches(c) == ask[c].kind = "search"
SomeFailed(c) == \E k \in ask[c].kbs : out[c][k] \in {"error", "database error"}
HasAnswers(c) == \A k \in Kbs : k \in items[c] <=> k \in ask[c].kbs /\ out[c][k] = "items"
Untouched(c) == items[c] = {} /\ \A k \in Kbs : out[c][k] = "none"
Collected(c) ==
    /\ at[c] \in {"idle", "configs", "query"} => Untouched(c)
    /\ at[c] = "idle" => session[c] = "open"
    /\ at[c] \in {"key", "balance", "run", "cite"} => ~Searches(c)
    /\ at[c] # "idle" /\ Searches(c) => \A k \in Kbs \ ask[c].kbs : out[c][k] = "none"
    /\ at[c] # "idle" /\ Searches(c) /\ ~TC!Single(c) => session[c] # "aborted" /\ HasAnswers(c)
    /\ at[c] = "failed" /\ Searches(c) /\ ~TC!Single(c) => items[c] = {}
    /\ at[c] = "returned" /\ Searches(c) => (told[c] <=> SomeFailed(c))
SearchInv == /\ out \in [Calls -> [Kbs -> TC!Outcomes \union {"none"}]] /\ items \in [Calls -> SUBSET Kbs]
             /\ session \in [Calls -> {"open", "aborted", "closed"}] /\ told \in [Calls -> BOOLEAN]
             /\ \A c \in Calls : Collected(c)

\* A call is known by its request and what it collected.
LEMMA CollectedFrame == ASSUME NEW c, Collected(c), ask'[c] = ask[c], at'[c] = at[c], session'[c] = session[c], out'[c] = out[c],
                               items'[c] = items[c], told'[c] = told[c]
                        PROVE Collected(c)'
<1>1. TC!Single(c)' <=> TC!Single(c)
  BY DEF TC!Single
<1> QED BY <1>1 DEF Collected, Untouched, Searches, SomeFailed, HasAnswers

\* A call asks knowledge bases that there are.
LEMMA AskedKbs == ASSUME Asked, NEW c \in Calls PROVE ask[c].kbs \subseteq Kbs
<1>1. CASE ask[c] = TC!Idle
  BY <1>1 DEF TC!Idle
<1>2. CASE ask[c] \in TC!Asks
  BY <1>2 DEF TC!Asks
<1> QED BY <1>1, <1>2 DEF Asked

\* Every step leaves what a search collected what its knowledge bases gave.
LEMMA SearchStep == ASSUME Asked, SearchInv, [TC!Next]_(TC!vars) PROVE SearchInv'
<1> USE DEF SearchInv, Asked
<1>1. ASSUME UNCHANGED <<ask, at, session, out, items, told>> PROVE SearchInv'
  BY <1>1, CollectedFrame
\* A step of one call that collects nothing.
<1>2. ASSUME NEW c \in Calls, NEW to \in CallPlaces, TC!Goes(c, to), UNCHANGED <<session, out, items, told>>,
             at[c] # "idle", to # "idle", at[c] \notin {"configs", "query"} => to \notin {"configs", "query"},
             to \in {"key", "balance", "run", "cite"} => ~Searches(c),
             to = "failed" /\ Searches(c) /\ ~TC!Single(c) => items[c] = {},
             to = "returned" => ~Searches(c)
      PROVE SearchInv'
  <2>1. ASSUME NEW d \in Calls PROVE Collected(d)'
    <3>1. CASE d = c
      <4>1. at'[c] = to /\ UNCHANGED ask
        BY <1>2 DEF TC!Goes
      <4>2. TC!Single(c)' <=> TC!Single(c)
        BY <4>1 DEF TC!Single
      <4>3. Collected(c)
        OBVIOUS
      <4> QED BY <1>2, <3>1, <4>1, <4>2, <4>3 DEF Collected, Untouched, Searches, SomeFailed, HasAnswers
    <3>2. CASE d # c
      BY <1>2, <3>2, CollectedFrame DEF TC!Goes
    <3> QED BY <3>1, <3>2
  <2> QED BY <1>2, <2>1
<1>3. CASE TC!Seed \/ TC!KeepRun \/ TC!Resolve \/ UNCHANGED TC!vars
  BY <1>1, <1>3 DEF TC!Seed, TC!KeepRun, TC!Resolve, TC!vars
<1>4. CASE TC!Start
  <2>1. ASSUME NEW d \in Calls PROVE Collected(d)'
    <3>1. at[d] = "idle" /\ at'[d] = (IF ask'[d].kind = "search" THEN "configs" ELSE "key") /\ UNCHANGED <<session, out, items, told>>
      BY <1>4 DEF TC!Start
    <3>2. Untouched(d) /\ session[d] = "open"
      BY <3>1 DEF Collected
    <3> QED BY <3>1, <3>2 DEF Collected, Untouched, Searches, SomeFailed, HasAnswers
  <2> QED BY <1>4, <2>1 DEF TC!Start
<1>5. ASSUME NEW c \in Calls, TC!LoadConfigs(c) \/ TC!EnrichQuery(c) PROVE SearchInv'
  <2>1. \E to \in {"query", "search", "failed"} : TC!Goes(c, to) /\ at[c] \in {"configs", "query"} /\ (at[c] # "configs" => to # "query")
    BY <1>5 DEF TC!LoadConfigs, TC!EnrichQuery, TC!Fails
  <2>2. items[c] = {} /\ UNCHANGED <<session, out, items, told>>
    BY <1>5, <2>1 DEF TC!LoadConfigs, TC!EnrichQuery, Collected, Untouched
  <2> QED BY <1>2, <2>1, <2>2 DEF CallPlaces
<1>6. ASSUME NEW c \in Calls, TC!FetchMetadata(c) PROVE SearchInv'
  <2>1. (Searches(c) /\ ~TC!Single(c) => session[c] # "aborted") /\ UNCHANGED <<session, out, items, told>> /\ at[c] = "metadata"
    BY <1>6 DEF TC!FetchMetadata, Collected
  <2>2. CASE items[c] # {} /\ session[c] = "aborted"
    BY <1>2, <1>6, <2>1, <2>2 DEF TC!FetchMetadata, TC!Fails, CallPlaces
  <2>3. CASE ~(items[c] # {} /\ session[c] = "aborted")
    BY <1>2, <1>6, <2>1, <2>3 DEF TC!FetchMetadata, CallPlaces
  <2> QED BY <2>2, <2>3
<1>7. ASSUME NEW c \in Calls, TC!Label(c) PROVE SearchInv'
  BY <1>2, <1>7 DEF TC!Label, CallPlaces
<1>8. ASSUME NEW c \in Calls, TC!DeriveKey(c) \/ TC!CheckBalance(c) \/ TC!RunBuiltin(c) \/ TC!RunMcp(c) \/ TC!Cite(c) PROVE SearchInv'
  <2>1. ~Searches(c) /\ at[c] \in {"key", "balance", "run", "cite"} /\ UNCHANGED <<session, out, items, told>>
    BY <1>8 DEF TC!DeriveKey, TC!CheckBalance, TC!RunBuiltin, TC!RunMcp, TC!Cite, Collected
  <2>2. \E to \in {"balance", "run", "cite", "returned", "failed"} : TC!Goes(c, to)
    BY <1>8 DEF TC!DeriveKey, TC!CheckBalance, TC!RunBuiltin, TC!RunMcp, TC!Cite, TC!Fails
  <2> QED BY <1>2, <2>1, <2>2 DEF CallPlaces
<1>9. ASSUME NEW c \in Calls, TC!SearchSingle(c) PROVE SearchInv'
  <2>1. PICK k \in ask[c].kbs, o \in TC!Outcomes : TC!Collect(c, k, o) /\ TC!Aborts(c, o)
    BY <1>9 DEF TC!SearchSingle
  <2>2. k \in Kbs
    BY <2>1 DEF TC!Asks, TC!Idle
  <2>0. /\ out' \in [Calls -> [Kbs -> TC!Outcomes \union {"none"}]] /\ items' \in [Calls -> SUBSET Kbs]
        /\ \A d \in Calls \ {c} : out'[d] = out[d] /\ items'[d] = items[d]
        /\ out'[c] = [out[c] EXCEPT ![k] = o]
    BY <2>1, <2>2 DEF TC!Collect
  <2>3. at[c] = "search" /\ TC!Single(c) /\ at' = [at EXCEPT ![c] = "metadata"] /\ UNCHANGED <<ask, told>>
    BY <1>9 DEF TC!SearchSingle, TC!Goes
  <2>4. session' \in [Calls -> {"open", "aborted", "closed"}] /\ \A d \in Calls \ {c} : session'[d] = session[d]
    BY <2>1 DEF TC!Aborts
  <2>5. ASSUME NEW d \in Calls PROVE Collected(d)'
    <3>1. CASE d = c
      <4>1. out'[c] = [out[c] EXCEPT ![k] = o]
        BY <2>0
      <4>2. \A j \in Kbs \ ask[c].kbs : out'[c][j] = out[c][j]
        BY <2>1, <4>1
      <4>3. Collected(c) /\ (TC!Single(c)' <=> TC!Single(c))
        BY <2>3 DEF TC!Single
      <4> QED BY <2>3, <3>1, <4>2, <4>3 DEF Collected, Searches
    <3>2. CASE d # c
      BY <2>0, <2>3, <2>4, <3>2, CollectedFrame
    <3> QED BY <3>1, <3>2
  <2> QED BY <2>0, <2>3, <2>4, <2>5 DEF CallPlaces
<1>10. ASSUME NEW c \in Calls, TC!SearchThread(c) PROVE SearchInv'
  <2>1. PICK k \in ask[c].kbs, o \in TC!Outcomes : out[c][k] = "none" /\ TC!Collect(c, k, o) /\ TC!OwnSession(c, o)
    BY <1>10 DEF TC!SearchThread
  <2>2. k \in Kbs /\ ask[c].kbs \subseteq Kbs
    BY <2>1 DEF TC!Asks, TC!Idle
  <2>0. /\ out' \in [Calls -> [Kbs -> TC!Outcomes \union {"none"}]] /\ items' \in [Calls -> SUBSET Kbs]
        /\ \A d \in Calls \ {c} : out'[d] = out[d] /\ items'[d] = items[d]
        /\ out'[c] = [out[c] EXCEPT ![k] = o]
        /\ items'[c] = IF o = "items" THEN items[c] \union {k} ELSE items[c]
    BY <2>1, <2>2 DEF TC!Collect
  <2>3. at[c] = "search" /\ ~TC!Single(c) /\ at' \in {at, [at EXCEPT ![c] = "metadata"]} /\ UNCHANGED <<ask, told, session>>
    BY <1>10, <2>1 DEF TC!SearchThread, TC!Goes, TC!OwnSession
  <2>4. ASSUME NEW d \in Calls PROVE Collected(d)'
    <3>1. CASE d = c
      <4>0. out'[c] = [out[c] EXCEPT ![k] = o] /\ items'[c] = IF o = "items" THEN items[c] \union {k} ELSE items[c]
        BY <2>0
      <4>1. \A j \in Kbs : out'[c][j] = IF j = k THEN o ELSE out[c][j]
        BY <2>2, <4>0
      <4>2. Searches(c) => HasAnswers(c)'
        BY <2>1, <2>2, <2>3, <4>0, <4>1 DEF Collected, HasAnswers
      <4>3. Collected(c) /\ (TC!Single(c)' <=> TC!Single(c))
        BY <2>3 DEF TC!Single
      <4> QED BY <2>1, <2>2, <2>3, <3>1, <4>1, <4>2, <4>3 DEF Collected, Searches
    <3>2. CASE d # c
      BY <2>0, <2>3, <3>2, CollectedFrame
    <3> QED BY <3>1, <3>2
  <2> QED BY <2>0, <2>3, <2>4 DEF CallPlaces
<1>11. ASSUME NEW c \in Calls, TC!Persist(c) PROVE SearchInv'
  <2>1. /\ at[c] = "persist" /\ UNCHANGED <<ask, out, items>> /\ session' = [session EXCEPT ![c] = "closed"]
        /\ \/ session[c] = "aborted" /\ at' = [at EXCEPT ![c] = "failed"] /\ told' = told
           \/ session[c] # "aborted" /\ at' = [at EXCEPT ![c] = "returned"] /\ told' = [told EXCEPT ![c] = SomeFailed(c)]
    BY <1>11 DEF TC!Persist, TC!Goes, TC!Fails, TC!Noted, TC!Errors, SomeFailed
  <2>2. ASSUME NEW d \in Calls PROVE Collected(d)'
    <3>1. CASE d = c
      <4>1. Collected(c) /\ (TC!Single(c)' <=> TC!Single(c)) /\ (SomeFailed(c)' <=> SomeFailed(c)) /\ (HasAnswers(c)' <=> HasAnswers(c))
        BY <2>1 DEF TC!Single, SomeFailed, HasAnswers
      <4>2. told'[c] = (IF session[c] = "aborted" THEN told[c] ELSE SomeFailed(c))
        BY <2>1
      <4> QED BY <2>1, <3>1, <4>1, <4>2 DEF Collected, Searches
    <3>2. CASE d # c
      BY <2>1, <3>2, CollectedFrame
    <3> QED BY <3>1, <3>2
  <2>3. told' \in [Calls -> BOOLEAN]
    BY <2>1 DEF SomeFailed
  <2> QED BY <2>1, <2>2, <2>3 DEF CallPlaces
<1> QED BY <1>3, <1>4, <1>5, <1>6, <1>7, <1>8, <1>9, <1>10, <1>11 DEF TC!Next, TC!Call

(* A search over several knowledge bases that was begun returns all that
   answered, whichever of the others failed, and the model is told of those that
   did and of no others. *)
THEOREM PartialSuccessKept == TC!Spec => [](TC!PartialKept /\ TC!FailureTold)
<1>1. TC!Init => Asked /\ SearchInv
  <2> SUFFICES ASSUME TC!Init PROVE Asked /\ SearchInv
    OBVIOUS
  <2>1. Asked
    BY DEF TC!Init, Asked, CallPlaces
  <2>2. SearchInv
    BY DEF TC!Init, SearchInv, Collected, Untouched
  <2> QED BY <2>1, <2>2
<1>2. (Asked /\ SearchInv) /\ [TC!Next]_(TC!vars) => (Asked /\ SearchInv)'
  BY AskedStep, SearchStep
<1>3. Asked /\ SearchInv => TC!PartialKept /\ TC!FailureTold
  <2> HAVE Asked /\ SearchInv
  <2> SUFFICES ASSUME NEW c \in Calls, Searches(c), Collected(c), ask[c].kbs \subseteq Kbs
               PROVE /\ ~TC!Single(c) /\ at[c] \notin {"idle", "configs", "query", "search"} /\ items[c] # {}
                           => at[c] # "failed" /\ items[c] = {k \in ask[c].kbs : out[c][k] = "items"}
                     /\ at[c] = "returned" => (told[c] <=> \E k \in Kbs : out[c][k] \in {"error", "database error"})
    <3>1. \A d \in Calls : ask[d].kbs \subseteq Kbs
      BY AskedKbs
    <3> QED BY <3>1 DEF SearchInv, TC!PartialKept, TC!FailureTold, Searches
  <2>1. at[c] = "returned" => (SomeFailed(c) <=> \E k \in Kbs : out[c][k] \in {"error", "database error"})
    BY DEF Collected, SomeFailed
  <2>2. items[c] \subseteq Kbs
    BY DEF SearchInv
  <2> QED BY <2>1, <2>2 DEF Collected, HasAnswers
<1> QED BY <1>1, <1>2, <1>3, PTL DEF TC!Spec

-----------------------------------------------------------------------------
(* The parts together: one runs, and it is its component. *)

\* The part that runs from the start is the one that runs.
LEMMA PartStays == ASSUME [Next]_vars PROVE part' = part
  BY DEF Next, RunsStep, TurnsStep, CallsStep, LoginsStep, WorkflowsStep, ScheduleStep, vars

\* The schedule is kept, where anything may fail and no tick outlives its lock.
LEMMA ScheduleIsKept == SC!Spec => [](SC!TypeOK /\ SC!ScheduleKept)
<1>1. SC!Init => SP!Init
  BY DEF SC!Init, SP!Init, SC!NoSnap, SP!NoSnap
<1>2. [SC!Next]_(SC!vars) => [SP!Next]_(SP!vars)
  <2>1. SC!Next => SP!Next
    BY DEF SC!Next, SP!Next, SC!Redeliver, SP!Redeliver, SC!boundVars, SP!boundVars, SC!rowVars, SP!rowVars, SC!Goto, SP!Goto, SC!Die, SP!Die, SC!NoSnap, SP!NoSnap, SC!Active, SP!Active, SC!Step, SP!Step, SC!Resend, SP!Resend, SC!Unlock, SP!Unlock, SC!Record, SP!Record, SC!Finish, SP!Finish, SC!Check, SP!Check, SC!IsDue, SP!IsDue, SC!Select, SP!Select, SC!Begin, SP!Begin, SC!Seed, SP!Seed, SC!Advance, SP!Advance, SC!Older, SP!Older, SC!Less, SP!Less, SC!Undeploy, SP!Undeploy, SC!tickVars, SP!tickVars, SC!Deploy, SP!Deploy
  <2>2. UNCHANGED SC!vars => UNCHANGED SP!vars
    BY DEF SC!vars, SP!vars, SC!boundVars, SP!boundVars, SC!tickVars, SP!tickVars, SC!rowVars, SP!rowVars
  <2> QED BY <2>1, <2>2
<1>3. SP!Spec => []SP!TypeOK
  <2>1. SP!SchedulerAssumption /\ IsFiniteSet(Chains)
    BY ActivitiesAssumption DEF ActivitiesAssumption, SP!SchedulerAssumption, AR!RunsAssumption
  <2>2. IsFiniteSet(Chains) => SP!IsFiniteSet(Chains)
    BY DEF IsFiniteSet, SP!IsFiniteSet
  <2> QED BY <2>1, <2>2, SP!ScheduleTypeOK
<1>4. SP!Spec => []SP!ScheduleKept
  <2>1. SP!SchedulerAssumption
    BY ActivitiesAssumption DEF ActivitiesAssumption, SP!SchedulerAssumption, AR!RunsAssumption
  <2> QED BY <2>1, SP!KeepsSchedule
<1>5. \A S : SC!Cardinality(S) = SP!Cardinality(S)
  BY DEF SC!Cardinality, SP!Cardinality
<1>6. SP!TypeOK => SC!TypeOK
  BY <1>5 DEF SC!TypeOK, SP!TypeOK, SC!Ages, SP!Ages, SC!Positions, SP!Positions
<1>7. SP!ScheduleKept => SC!ScheduleKept
  BY <1>5 DEF SC!ScheduleKept, SP!ScheduleKept, SC!RunsCapped, SP!RunsCapped, SC!Executing, SP!Executing, SC!OneTick, SP!OneTick, SC!Active, SP!Active
<1> QED BY <1>1, <1>2, <1>3, <1>4, <1>6, <1>7, PTL DEF SC!Spec, SP!Spec

(* Whoever is told that a run completed finds it recorded and paid for, and a run
   has one that finishes it, whatever leaves, fails, restarts or is cleaned up. *)
THEOREM RunsDoEndOnce == Spec => []RunsEndOnce
<1>1. Init /\ part = "runs" => AR!Init
  BY DEF Init
<1>2. part = "runs" /\ [Next]_vars => [AR!Next]_(AR!vars)
  BY DEF Next, RunsStep, TurnsStep, CallsStep, LoginsStep, WorkflowsStep, ScheduleStep, vars, arVars, AR!vars
<1>3. part = "runs" /\ [Next]_vars => (part = "runs")'
  BY PartStays
<1>4. ~(part = "runs") /\ [Next]_vars => ~(part = "runs")'
  BY PartStays
<1>5. AR!Spec => [](AR!TypeOK /\ AR!ToldCompleted /\ AR!OneFinisher)
  BY RunsTypeCorrect, RunsFinishOnce, ActivitiesAssumption, PTL DEF ActivitiesAssumption
<1> QED BY <1>1, <1>2, <1>3, <1>4, <1>5, PTL DEF Spec, AR!Spec, RunsEndOnce

(* A run that waits for a decision can be given one, where its engine lives, and a
   user's run is of that user's session, though sessions are deleted and made
   again under it. *)
THEOREM RunsAreInPlace == Spec => []RunsHaveTheirPlace
<1>1. Init /\ part = "runs" => AR!Init
  BY DEF Init
<1>2. part = "runs" /\ [Next]_vars => [AR!Next]_(AR!vars)
  BY DEF Next, RunsStep, TurnsStep, CallsStep, LoginsStep, WorkflowsStep, ScheduleStep, vars, arVars, AR!vars
<1>3. part = "runs" /\ [Next]_vars => (part = "runs")'
  BY PartStays
<1>4. ~(part = "runs") /\ [Next]_vars => ~(part = "runs")'
  BY PartStays
<1>5. AR!Spec => [](AR!Approvable /\ AR!OwnSession)
  BY RunsArePlaced, ActivitiesAssumption, PTL DEF ActivitiesAssumption
<1> QED BY <1>1, <1>2, <1>3, <1>4, <1>5, PTL DEF Spec, AR!Spec, RunsHaveTheirPlace

(* A turn that works holds its session's lock, and no two turns of one session
   work at a time, but for those whose lock lapsed or was given up under them. *)
THEOREM TurnsStayApart == Spec => []TurnsAreApart
<1>1. Init /\ part = "turns" => CT!Init
  BY DEF Init
<1>2. part = "turns" /\ [Next]_vars => [CT!Next]_(CT!vars)
  BY DEF Next, RunsStep, TurnsStep, CallsStep, LoginsStep, WorkflowsStep, ScheduleStep, vars, ctVars, CT!vars
<1>3. part = "turns" /\ [Next]_vars => (part = "turns")'
  BY PartStays
<1>4. ~(part = "turns") /\ [Next]_vars => ~(part = "turns")'
  BY PartStays
<1>5. CT!Spec => [](CT!TypeOK /\ CT!TurnsAreApart)
  <2>1. None \notin Turns
    BY ActivitiesAssumption DEF ActivitiesAssumption
  <2> QED BY <2>1, TurnsTypeCorrect, LockKeepsTurnsApart, PTL
<1> QED BY <1>1, <1>2, <1>3, <1>4, <1>5, PTL DEF Spec, CT!Spec, TurnsAreApart

(* The model is given a history it accepts, whatever the turns before left behind, and a
   turn that is over has its answer in it, for any number of turns and any window. *)
THEOREM HistoryStaysWhole == Spec => []HistoryIsWhole
<1>1. Init /\ part = "turns" => CT!Init
  BY DEF Init
<1>2. part = "turns" /\ [Next]_vars => [CT!Next]_(CT!vars)
  BY DEF Next, RunsStep, TurnsStep, CallsStep, LoginsStep, WorkflowsStep, ScheduleStep, vars, ctVars, CT!vars
<1>3. part = "turns" /\ [Next]_vars => (part = "turns")'
  BY PartStays
<1>4. ~(part = "turns") /\ [Next]_vars => ~(part = "turns")'
  BY PartStays
<1>5. CT!Spec => [](CT!SeenWellFormed /\ CT!EndsAnswered)
  BY HistoriesAreWhole, ActivitiesAssumption DEF ActivitiesAssumption
<1> QED BY <1>1, <1>2, <1>3, <1>4, <1>5, PTL DEF Spec, CT!Spec, HistoryIsWhole

(* Calls that overlap give each unit a citation key of its own and are charged
   under keys of their own, in whatever order they go. *)
THEOREM CallsStayApart == Spec => []CallsAreApart
<1>1. Init /\ part = "calls" => TC!Init
  BY DEF Init
<1>2. part = "calls" /\ [Next]_vars => [TC!Next]_(TC!vars)
  BY DEF Next, RunsStep, TurnsStep, CallsStep, LoginsStep, WorkflowsStep, ScheduleStep, vars, tcVars, TC!vars
<1>3. part = "calls" /\ [Next]_vars => (part = "calls")'
  BY PartStays
<1>4. ~(part = "calls") /\ [Next]_vars => ~(part = "calls")'
  BY PartStays
<1>5. TC!Spec => [](TC!CallsAreApart)
  BY CallsApart, ActivitiesAssumption DEF ActivitiesAssumption
<1> QED BY <1>1, <1>2, <1>3, <1>4, <1>5, PTL DEF Spec, TC!Spec, CallsAreApart

(* A search keeps what the knowledge bases that answered gave, and the model is
   told of those that did not. *)
THEOREM PartialStays == Spec => []PartialIsKept
<1>1. Init /\ part = "calls" => TC!Init
  BY DEF Init
<1>2. part = "calls" /\ [Next]_vars => [TC!Next]_(TC!vars)
  BY DEF Next, RunsStep, TurnsStep, CallsStep, LoginsStep, WorkflowsStep, ScheduleStep, vars, tcVars, TC!vars
<1>3. part = "calls" /\ [Next]_vars => (part = "calls")'
  BY PartStays
<1>4. ~(part = "calls") /\ [Next]_vars => ~(part = "calls")'
  BY PartStays
<1>5. TC!Spec => [](TC!PartialKept /\ TC!FailureTold)
  BY PartialSuccessKept
<1> QED BY <1>1, <1>2, <1>3, <1>4, <1>5, PTL DEF Spec, TC!Spec, PartialIsKept

(* The login of an agent is kept within the agent's tools, whatever changes, syncs,
   deletions and sweeps overlap. *)
THEOREM LoginStaysWithin == Spec => []LoginWithinTools
<1>1. Init /\ part = "logins" => RO!Init
  BY DEF Init
<1>2. part = "logins" /\ [Next]_vars => [RO!Next]_(RO!vars)
  BY DEF Next, RunsStep, TurnsStep, CallsStep, LoginsStep, WorkflowsStep, ScheduleStep, vars, roVars, RO!vars
<1>3. part = "logins" /\ [Next]_vars => (part = "logins")'
  BY PartStays
<1>4. ~(part = "logins") /\ [Next]_vars => ~(part = "logins")'
  BY PartStays
<1>5. RO!Spec => [](RO!TypeOK /\ RO!LoginWithinTools)
  BY RolesTypeCorrect, LoginIsWithinTools, ActivitiesAssumption, PTL DEF ActivitiesAssumption
<1> QED BY <1>1, <1>2, <1>3, <1>4, <1>5, PTL DEF Spec, RO!Spec, LoginWithinTools

(* An armed webhook starts one execution, only what ran is charged, the logs name
   no run that was not kept; and one tick at a time looks at the workflows, none of
   which runs more often than its schedule says. *)
THEOREM ExecutionsAreCounted == Spec => []ExecutionsCounted
<1>11. Init /\ part = "workflows" => WF!Init
  BY DEF Init
<1>12. part = "workflows" /\ [Next]_vars => [WF!Next]_(WF!vars)
  BY DEF Next, RunsStep, TurnsStep, CallsStep, LoginsStep, WorkflowsStep, ScheduleStep, vars, wfVars, WF!vars
<1>13. part = "workflows" /\ [Next]_vars => (part = "workflows")'
  BY PartStays
<1>14. ~(part = "workflows") /\ [Next]_vars => ~(part = "workflows")'
  BY PartStays
<1>15. WF!Spec => [](WF!TypeOK /\ WF!ExecutionsCounted)
  BY WorkflowsTypeCorrect, OnlyWhatRan, ActivitiesAssumption, PTL DEF ActivitiesAssumption
<1>21. Init /\ part = "schedule" => SC!Init
  BY DEF Init
<1>22. part = "schedule" /\ [Next]_vars => [SC!Next]_(SC!vars)
  <2>1. part = "schedule" /\ Next => SC!Next
    BY DEF Next, RunsStep, TurnsStep, CallsStep, LoginsStep, WorkflowsStep, ScheduleStep
  <2>2. UNCHANGED vars => UNCHANGED SC!vars
    BY DEF vars, scVars, SC!vars, SC!rowVars, SC!tickVars, SC!boundVars
  <2> QED BY <2>1, <2>2
<1>23. part = "schedule" /\ [Next]_vars => (part = "schedule")'
  BY PartStays
<1>24. ~(part = "schedule") /\ [Next]_vars => ~(part = "schedule")'
  BY PartStays
<1>25. SC!Spec => [](SC!TypeOK /\ SC!ScheduleKept)
  BY ScheduleIsKept
<1> QED BY <1>11, <1>12, <1>13, <1>14, <1>15, <1>21, <1>22, <1>23, <1>24, <1>25, PTL DEF Spec, WF!Spec, SC!Spec, ExecutionsCounted
=============================================================================
