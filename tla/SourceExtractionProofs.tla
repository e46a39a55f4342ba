----------------------- MODULE SourceExtractionProofs -----------------------
(* Theorems about SourceExtraction, for any tasks, workers, slots, caps, retries
   and mishaps, with live redeliveries, late waits and failing publishes. *)
EXTENDS SourceExtraction, TLAPS

\* The bounds are numbers.
LEMMA Bounds == MaxRetries \in Nat /\ MaxMishaps \in Nat
  BY SourcesAssumption DEF SourcesAssumption

(* The types, and that a death is a mishap, which bounds the deaths of a task. *)
Types == TypeOK /\ \A t \in Tasks : deaths[t] <= mishaps

\* The steps that touch the row, the broker and the workers' positions only.
RowTypes == SourcesTypeOK /\ pc \in [Workers -> Positions]

\* What a run's step can do to its position keeps the types of all positions.
LEMMA GotoTypes ==
  ASSUME RowTypes, NEW w \in Workers, pc[w] # "idle", NEW to \in Positions, Goto(w, to),
         status' \in Statuses, owner' \in Tasks \cup {None}, result' \in Tasks \cup {None},
         queue' \in [Messages -> 0..MaxCopies]
  PROVE  RowTypes'
<1>1. pc' \in [Workers -> Positions] /\ job' = job
  BY DEF Goto, RowTypes
<1>2. \A v \in Workers : pc'[v] # "idle" => job'[v] \in Messages
  BY DEF Goto, RowTypes, SourcesTypeOK
<1> QED BY <1>1, <1>2 DEF Goto, RowTypes, SourcesTypeOK, userVars

\* Sending a message keeps the counts of the messages within their bound.
LEMMA EnqueueTypes ==
  ASSUME queue \in [Messages -> 0..MaxCopies], NEW m \in Messages, Enqueue(m)
  PROVE  queue' \in [Messages -> 0..MaxCopies]
  BY DEF Enqueue, OneMore, MaxCopies

\* The run of a busy worker is of a task, with a retry count within the bound.
LEMMA JobTypes ==
  ASSUME RowTypes, NEW w \in Workers, pc[w] # "idle"
  PROVE  Task(w) \in Tasks /\ Retries(w) \in 0..MaxRetries /\ job[w] = <<Task(w), Retries(w)>>
  BY DEF RowTypes, SourcesTypeOK, Messages, Task, Retries

\* The fenced update of the status keeps the types of the row.
LEMMA StatusTypes ==
  ASSUME RowTypes, NEW t \in Tasks, NEW s \in Statuses, SetStatus(t, s)
  PROVE  status' \in Statuses /\ owner' \in Tasks \cup {None}
  BY DEF RowTypes, SourcesTypeOK, SetStatus

\* The requests of users keep the types of the row and the broker.
LEMMA RequestTypes ==
  ASSUME RowTypes,
         \/ \E t \in Tasks : Upload(t) \/ Reextract(t) \/ Send(t) \/ SendFails(t, TRUE)
         \/ CancelBegin \/ CancelEnd
  PROVE  RowTypes'
<1> USE DEF RowTypes, SourcesTypeOK, WorkersAlone, rowVars, brokerVars
<1>1. ASSUME NEW t \in Tasks, Upload(t) \/ Reextract(t) PROVE RowTypes'
  BY <1>1 DEF Upload, Reextract, Requests, Statuses
<1>2. ASSUME NEW t \in Tasks, Send(t) PROVE RowTypes'
  <2>1. <<t, 0>> \in Messages
    BY Bounds DEF Messages
  <2>2. queue' \in [Messages -> 0..MaxCopies] /\ request' \in [Tasks -> Requests]
    BY <1>2, <2>1 DEF Send, MaxCopies, Requests
  <2> QED BY <1>2, <2>2 DEF Send
<1>3. ASSUME NEW t \in Tasks, SendFails(t, TRUE) PROVE RowTypes'
  BY <1>3 DEF SendFails, Requests, Statuses
<1>4. CASE CancelBegin
  BY <1>4 DEF CancelBegin
<1>5. CASE CancelEnd
  BY <1>5 DEF CancelEnd, Statuses
<1> QED BY <1>1, <1>2, <1>3, <1>4, <1>5

\* So do the broker's steps.
LEMMA BrokerTypes ==
  ASSUME RowTypes,
         \/ \E w \in Workers : Kill(w)
         \/ \E m \in Messages : Redeliver(m) \/ \E w \in Workers : Fetch(w, m)
  PROVE  RowTypes'
<1>1. ASSUME NEW w \in Workers, Kill(w) PROVE RowTypes'
  <2>1. job[w] \in Messages
    BY <1>1 DEF Kill, RowTypes, SourcesTypeOK
  <2>2. lost' \in [Messages -> 0..MaxCopies] /\ mishaps' \in 0..MaxMishaps
    BY <1>1, <2>1, Bounds DEF Kill, RowTypes, SourcesTypeOK, OneMore, MaxCopies
  <2>3. pc' \in [Workers -> Positions] /\ job' \in [Workers -> Messages \cup {None}]
    BY <1>1 DEF Kill, RowTypes, SourcesTypeOK, Positions
  <2>4. \A v \in Workers : pc'[v] # "idle" => job'[v] \in Messages
    BY <1>1 DEF Kill, RowTypes, SourcesTypeOK
  <2> QED BY <1>1, <2>2, <2>3, <2>4 DEF Kill, RowTypes, SourcesTypeOK, rowVars, userVars
<1>2. ASSUME NEW m \in Messages, Redeliver(m) PROVE RowTypes'
  <2>1. queue' \in [Messages -> 0..MaxCopies]
    BY <1>2, EnqueueTypes DEF Redeliver, RowTypes, SourcesTypeOK
  <2>2. lost' \in [Messages -> 0..MaxCopies]
    BY <1>2 DEF Redeliver, RowTypes, SourcesTypeOK, MaxCopies
  <2> QED BY <1>2, <2>1, <2>2 DEF Redeliver, RowTypes, SourcesTypeOK, rowVars, userVars
<1>3. ASSUME NEW m \in Messages, NEW w \in Workers, Fetch(w, m) PROVE RowTypes'
  <2>1. queue' \in [Messages -> 0..MaxCopies]
    BY <1>3 DEF Fetch, RowTypes, SourcesTypeOK, MaxCopies
  <2>2. pc' \in [Workers -> Positions] /\ job' \in [Workers -> Messages \cup {None}]
    BY <1>3 DEF Fetch, RowTypes, SourcesTypeOK, Positions
  <2>3. \A v \in Workers : pc'[v] # "idle" => job'[v] \in Messages
    BY <1>3 DEF Fetch, RowTypes, SourcesTypeOK
  <2> QED BY <1>3, <2>1, <2>2, <2>3 DEF Fetch, RowTypes, SourcesTypeOK, rowVars, userVars
<1> QED BY <1>1, <1>2, <1>3

-----------------------------------------------------------------------------
\* The variables of the extraction beside the row, with the bound on deaths.
RunTypes == /\ listed \subseteq Files /\ content \in [Files -> Tasks \cup {None}]
            /\ marker \in Tasks \cup {None} /\ charged \in Nat /\ spared \in Nat
            /\ attempt \in [Tasks -> {"none", "no slot"} \cup Workers] /\ leases \subseteq Workers
            /\ waiting \in [Tasks -> 0..MaxRetries \cup {None}]
            /\ seen \in [Workers -> Snapshot] /\ made \in [Workers -> SUBSET Files]
            /\ deaths \in [Tasks -> 0..MaxMishaps] /\ \A t \in Tasks : deaths[t] <= mishaps

LEMMA TypesParts == Types <=> RowTypes /\ RunTypes
  BY DEF Types, TypeOK, RowTypes, RunTypes

\* Each step of a run that has its task keeps the types.
LEMMA RunStepTypes ==
  ASSUME RowTypes, RunTypes, NEW w \in Workers, pc[w] # "idle", Run(w)
  PROVE  RowTypes' /\ RunTypes'
<1> USE Bounds
<1>1. Task(w) \in Tasks /\ Retries(w) \in 0..MaxRetries /\ job[w] = <<Task(w), Retries(w)>> /\ job[w] \in Messages
  BY JobTypes DEF RowTypes, SourcesTypeOK
<1>2. /\ status \in Statuses /\ owner \in Tasks \cup {None} /\ result \in Tasks \cup {None}
      /\ queue \in [Messages -> 0..MaxCopies]
  BY DEF RowTypes, SourcesTypeOK
<1> USE <1>1, <1>2
<1>3. NoSnapshot \in Snapshot
  BY DEF NoSnapshot, Snapshot
\* A step that changes the position, and of the row and the queue what is given.
<1>4. ASSUME NEW to \in Positions, Goto(w, to), status' \in Statuses, owner' \in Tasks \cup {None},
             result' \in Tasks \cup {None}, queue' \in [Messages -> 0..MaxCopies]
      PROVE  RowTypes' /\ mishaps' = mishaps
  BY <1>4, GotoTypes DEF Goto
<1>5. CASE Start(w)
  <2>1. seen' \in [Workers -> Snapshot]
    BY <1>5 DEF Start, RunTypes, Snapshot
  <2>2. waiting' \in [Tasks -> 0..MaxRetries \cup {None}]
    BY <1>5 DEF Start, RunTypes
  <2>3. RowTypes' /\ mishaps' = mishaps
    BY <1>4, <1>5 DEF Start, rowVars, Positions
  <2> QED BY <1>5, <2>1, <2>2, <2>3 DEF Start, RunTypes, recordVars, fileVars
<1>6. CASE Defer(w)
  <2>1. queue' \in [Messages -> 0..MaxCopies]
    BY <1>6, EnqueueTypes DEF Defer
  <2>2. waiting' \in [Tasks -> 0..MaxRetries \cup {None}]
    BY <1>6 DEF Defer, RunTypes
  <2>3. RowTypes' /\ mishaps' = mishaps
    BY <1>4, <1>6, <2>1 DEF Defer, rowVars, Positions
  <2> QED BY <1>6, <2>2, <2>3 DEF Defer, RunTypes, recordVars, fileVars, localVars
<1>7. CASE Admit(w)
  <2>1. RowTypes' /\ mishaps' = mishaps
    BY <1>4, <1>7 DEF Admit, rowVars, Positions
  <2> QED BY <1>7, <2>1 DEF Admit, RunTypes, recordVars, fileVars, localVars
<1>8. CASE Count(w)
  <2> DEFINE known == seen[w].marker = Task(w)
             c(plausible) == (IF known THEN seen[w].charged ELSE 0) + (IF plausible THEN 1 ELSE 0)
             s(plausible) == (IF known THEN seen[w].spared ELSE 0) + (IF plausible THEN 0 ELSE 1)
  <2>3. seen[w].charged \in Nat /\ seen[w].spared \in Nat
    BY DEF RunTypes, Snapshot
  <2>4. \A plausible \in BOOLEAN : c(plausible) \in Nat /\ s(plausible) \in Nat
    BY <2>3
  <2> HIDE DEF known, c, s
  <2>5. \/ UNCHANGED recordVars
        \/ \E plausible \in BOOLEAN : marker' = Task(w) /\ charged' = c(plausible) /\ spared' = s(plausible)
    BY <1>8 DEF Count, known, c, s
  <2>1. marker' \in Tasks \cup {None} /\ charged' \in Nat /\ spared' \in Nat
    BY <2>4, <2>5 DEF RunTypes, recordVars
  <2>2. RowTypes' /\ mishaps' = mishaps
    BY <1>4, <1>8 DEF Count, rowVars, Positions
  <2> QED BY <1>8, <2>1, <2>2 DEF Count, RunTypes, redisVars, fileVars, localVars
<1>9. CASE Claim(w)
  <2>1. [NoSnapshot EXCEPT !.listed = seen[w].listed] \in Snapshot
    BY DEF NoSnapshot, Snapshot, RunTypes
  <2>2. seen' \in [Workers -> Snapshot]
    BY <1>9, <2>1 DEF Claim, RunTypes
  <2>3. status' \in Statuses /\ owner' \in Tasks \cup {None}
    BY <1>9, StatusTypes DEF Claim, Statuses
  <2>4. RowTypes' /\ mishaps' = mishaps
    BY <1>4, <1>9, <2>3 DEF Claim, Positions, Body
  <2> QED BY <1>9, <2>2, <2>4 DEF Claim, RunTypes, recordVars, redisVars, fileVars
<1>10. CASE Begin(w)
  <2>1. attempt' \in [Tasks -> {"none", "no slot"} \cup Workers]
    BY <1>10 DEF Begin, RunTypes
  <2>2. RowTypes' /\ mishaps' = mishaps
    BY <1>4, <1>10 DEF Begin, rowVars, Positions, Body
  <2> QED BY <1>10, <2>1, <2>2 DEF Begin, RunTypes, recordVars, fileVars, localVars
<1>11. CASE Extract(w)
  <2>3. PICK output \in Outputs : /\ made' = [made EXCEPT ![w] = output \ {"text"}]
                                  /\ content' = [f \in Files |-> IF f \in output \ {"text"} THEN Task(w) ELSE content[f]]
    BY <1>11 DEF Extract
  <2>4. output \ {"text"} \subseteq Files
    BY DEF Outputs, Files
  <2>1. content' \in [Files -> Tasks \cup {None}] /\ made' \in [Workers -> SUBSET Files]
    BY <2>3, <2>4 DEF RunTypes
  <2>2. RowTypes' /\ mishaps' = mishaps
    BY <1>4, <1>11 DEF Extract, rowVars, Positions, Body
  <2> QED BY <1>11, <2>1, <2>2 DEF Extract, RunTypes, recordVars, redisVars
<1>12. CASE ExtractFails(w)
  <2>1. content' \in [Files -> Tasks \cup {None}]
    BY <1>12 DEF ExtractFails, RunTypes
  <2>2. RowTypes' /\ mishaps' = mishaps
    BY <1>4, <1>12 DEF ExtractFails, rowVars, Positions
  <2> QED BY <1>12, <2>1, <2>2 DEF ExtractFails, RunTypes, recordVars, redisVars, localVars
<1>13. CASE CheckOwned(w)
  <2>1. RowTypes' /\ mishaps' = mishaps
    BY <1>4, <1>13 DEF CheckOwned, rowVars, Positions, Body
  <2> QED BY <1>13, <2>1 DEF CheckOwned, RunTypes, recordVars, redisVars, fileVars, localVars
<1>14. CASE Store(w)
  <2>3. made[w] \cup {"text"} \subseteq Files
    BY DEF RunTypes, Files
  <2>4. made' \in [Workers -> SUBSET Files]
    <3>1. made' = [made EXCEPT ![w] = made[w] \cup {"text"}] \/ made' = made
      BY <1>14 DEF Store
    <3>2. made \in [Workers -> SUBSET Files]
      BY DEF RunTypes
    <3> QED BY <2>3, <3>1, <3>2
  <2>5. content' \in [Files -> Tasks \cup {None}]
    <3>1. content' = [content EXCEPT !["text"] = Task(w)] \/ content' = content
      BY <1>14 DEF Store
    <3> QED BY <3>1 DEF RunTypes
  <2>1. content' \in [Files -> Tasks \cup {None}] /\ made' \in [Workers -> SUBSET Files]
    BY <2>4, <2>5
  <2>2. RowTypes' /\ mishaps' = mishaps
    BY <1>4, <1>14 DEF Store, rowVars, Positions, Body
  <2> QED BY <1>14, <2>1, <2>2 DEF Store, RunTypes, recordVars, redisVars
<1>15. CASE Write(w)
  <2>1. /\ status' \in Statuses /\ result' \in Tasks \cup {None} /\ listed' \subseteq Files
        /\ marker' \in Tasks \cup {None} /\ charged' \in Nat /\ spared' \in Nat
    <3>1. CASE Exists /\ status # "cancelled" /\ owner = Task(w)
      <4>1. /\ status' \in {"extracted", "attention_required"} /\ result' = Task(w) /\ listed' = made[w]
            /\ marker' = None /\ charged' = 0 /\ spared' = 0
        BY <1>15, <3>1 DEF Write
      <4> QED BY <4>1 DEF RunTypes, Statuses
    <3>2. CASE ~(Exists /\ status # "cancelled" /\ owner = Task(w))
      BY <1>15, <3>2 DEF Write, RunTypes, recordVars
    <3> QED BY <3>1, <3>2
  <2>2. RowTypes' /\ mishaps' = mishaps
    BY <1>4, <1>15, <2>1 DEF Write, Positions
  <2> QED BY <1>15, <2>1, <2>2 DEF Write, RunTypes, redisVars, localVars
<1>16. CASE Prune(w)
  <2>1. content' \in [Files -> Tasks \cup {None}]
    BY <1>16 DEF Prune, RunTypes
  <2>2. RowTypes' /\ mishaps' = mishaps
    BY <1>4, <1>16 DEF Prune, rowVars, Positions
  <2> QED BY <1>16, <2>1, <2>2 DEF Prune, RunTypes, recordVars, redisVars, localVars
<1>17. CASE Retry(w)
  <2>1. status' \in Statuses /\ owner' \in Tasks \cup {None}
    BY <1>17, StatusTypes DEF Retry, Statuses
  <2>2. queue' \in [Messages -> 0..MaxCopies] /\ waiting' \in [Tasks -> 0..MaxRetries \cup {None}]
    <3>1. CASE MayWrite(Task(w)) /\ Retries(w) < MaxRetries
      <4>1. <<Task(w), Retries(w) + 1>> \in Messages /\ Retries(w) + 1 \in 0..MaxRetries
        BY <3>1 DEF Messages
      <4>2. waiting' = [waiting EXCEPT ![Task(w)] = Retries(w) + 1]
        BY <1>17, <3>1 DEF Retry
      <4>3. Enqueue(<<Task(w), Retries(w) + 1>>) \/ queue' = queue
        BY <1>17, <3>1 DEF Retry
      <4>4. queue' \in [Messages -> 0..MaxCopies]
        BY <4>1, <4>3, EnqueueTypes
      <4> QED BY <4>1, <4>2, <4>4 DEF RunTypes
    <3>2. CASE ~(MayWrite(Task(w)) /\ Retries(w) < MaxRetries)
      BY <1>17, <3>2 DEF Retry, RunTypes
    <3> QED BY <3>1, <3>2
  <2>3. Goto(w, "forget") \/ Goto(w, "return")
    BY <1>17 DEF Retry
  <2>4. RowTypes' /\ mishaps' = mishaps
    BY <1>4, <1>17, <2>1, <2>2, <2>3 DEF Retry, Positions
  <2> QED BY <1>17, <2>2, <2>4 DEF Retry, RunTypes, recordVars, fileVars, localVars
<1>18. CASE Fail(w)
  <2>1. status' \in Statuses /\ owner' \in Tasks \cup {None}
    BY <1>18, StatusTypes DEF Fail, Statuses
  <2>2. Goto(w, "forget") \/ Goto(w, "return")
    BY <1>18 DEF Fail
  <2>3. RowTypes' /\ mishaps' = mishaps
    BY <1>4, <1>18, <2>1, <2>2 DEF Fail, Positions
  <2> QED BY <1>18, <2>3 DEF Fail, RunTypes, recordVars, redisVars, fileVars, localVars
<1>19. CASE Finally(w)
  <2>1. attempt' \in [Tasks -> {"none", "no slot"} \cup Workers] /\ leases' \subseteq Workers
    BY <1>19 DEF Finally, RunTypes
  <2>2. seen' \in [Workers -> Snapshot] /\ made' \in [Workers -> SUBSET Files]
    BY <1>3, <1>19 DEF Finally, Vanish, RunTypes
  <2>3. RowTypes'
    BY <1>19 DEF Finally, Return, RowTypes, SourcesTypeOK, Positions, rowVars, userVars, brokerVars
  <2> QED BY <1>19, <2>1, <2>2, <2>3 DEF Finally, Return, RunTypes, recordVars, fileVars
<1> QED BY <1>5, <1>6, <1>7, <1>8, <1>9, <1>10, <1>11, <1>12, <1>13, <1>14, <1>15, <1>16, <1>17, <1>18, <1>19 DEF Run

\* What is not a run's own step: users, the broker, deaths, leases, recovery.
LEMMA OtherStepTypes ==
  ASSUME RowTypes, RunTypes, Next, ~\E w \in Workers : Run(w)
  PROVE  RowTypes' /\ RunTypes'
<1>0. mishaps \in Nat /\ mishaps <= MaxMishaps /\ MaxMishaps \in Nat /\ MaxRetries \in Nat
  BY Bounds DEF RowTypes, SourcesTypeOK
<1>14. deaths \in [Tasks -> 0..MaxMishaps] /\ \A t \in Tasks : deaths[t] <= mishaps
  BY DEF RunTypes
<1>15. \A t \in Tasks : deaths[t] \in Nat
  BY <1>0, <1>14
<1>1. ASSUME NEW t \in Tasks, Request(t) PROVE RowTypes' /\ RunTypes'
  <2>1. Upload(t) \/ Reextract(t) \/ Send(t) \/ SendFails(t, TRUE)
    BY <1>1 DEF Request
  <2>2. RowTypes'
    BY <2>1, RequestTypes
  <2>3. mishaps' = mishaps
    BY <2>1 DEF Upload, Reextract, Send, SendFails, WorkersAlone
  <2> QED BY <1>1, <2>2, <2>3 DEF Request, ExtractionAlone, RunTypes, recordVars, redisVars, fileVars, localVars
<1>2. CASE Cancel
  <2>1. CancelBegin \/ CancelEnd
    BY <1>2 DEF Cancel
  <2>2. RowTypes'
    BY <2>1, RequestTypes
  <2>3. mishaps' = mishaps
    BY <2>1 DEF CancelBegin, CancelEnd, WorkersAlone
  <2> QED BY <1>2, <2>2, <2>3 DEF Cancel, ExtractionAlone, RunTypes, recordVars, redisVars, fileVars, localVars
<1>3. CASE Delete
  <2>1. listed' \subseteq Files /\ content' \in [Files -> Tasks \cup {None}]
    BY <1>3 DEF Delete, RunTypes
  <2>2. RowTypes'
    BY <1>3 DEF Delete, RowTypes, SourcesTypeOK, Statuses, userVars, brokerVars
  <2> QED BY <1>3, <2>1, <2>2 DEF Delete, RunTypes, recordVars, redisVars, localVars
<1>4. ASSUME NEW w \in Workers, NEW m \in Messages, Take(w, m) PROVE RowTypes' /\ RunTypes'
  <2>1. Fetch(w, m) /\ ExtractionAlone
    BY <1>4 DEF Take
  <2>2. RowTypes' /\ mishaps' = mishaps
    BY <2>1, BrokerTypes DEF Fetch
  <2> QED BY <2>1, <2>2 DEF ExtractionAlone, RunTypes, recordVars, redisVars, fileVars, localVars
<1>5. ASSUME NEW m \in Messages, Deliver(m) PROVE RowTypes' /\ RunTypes'
  <2>1. Redeliver(m) /\ ExtractionAlone
    BY <1>5 DEF Deliver
  <2>2. RowTypes' /\ mishaps' = mishaps
    BY <2>1, BrokerTypes DEF Redeliver
  <2> QED BY <2>1, <2>2 DEF ExtractionAlone, RunTypes, recordVars, redisVars, fileVars, localVars
<1>6. ASSUME NEW w \in Workers, Die(w) PROVE RowTypes' /\ RunTypes'
  <2>1. Kill(w) /\ Vanish(w)
    BY <1>6 DEF Die
  <2>0. RowTypes'
    BY <2>1, BrokerTypes
  <2>2. mishaps' = mishaps + 1 /\ mishaps < MaxMishaps /\ pc[w] # "idle"
    BY <2>1 DEF Kill
  <2>3. Task(w) \in Tasks
    BY <2>2, JobTypes
  <2>4. seen' \in [Workers -> Snapshot] /\ made' \in [Workers -> SUBSET Files]
    BY <2>1 DEF Vanish, RunTypes, NoSnapshot, Snapshot
  <2>5. deaths' = deaths \/ deaths' = [deaths EXCEPT ![Task(w)] = deaths[Task(w)] + 1]
    BY <1>6, <2>3 DEF Die, RunTypes
  <2>6. deaths' \in [Tasks -> 0..MaxMishaps] /\ \A t \in Tasks : deaths'[t] <= mishaps'
    BY <1>0, <1>14, <1>15, <2>2, <2>3, <2>5
  <2> QED BY <1>6, <2>0, <2>4, <2>6 DEF Die, RunTypes, recordVars, redisVars, fileVars
\* What the broker and Redis do to messages and leases.
<1>7. ASSUME RunsAlone, queue' \in [Messages -> 0..MaxCopies], lost' \in [Messages -> 0..MaxCopies],
             mishaps' \in 0..MaxMishaps, mishaps' >= mishaps, attempt' = attempt, leases' \subseteq Workers,
             waiting' \in [Tasks -> 0..MaxRetries \cup {None}]
      PROVE  RowTypes' /\ RunTypes'
  <2>1. RowTypes'
    BY <1>7 DEF RunsAlone, RowTypes, SourcesTypeOK, rowVars, userVars
  <2>2. \A t \in Tasks : deaths[t] <= mishaps'
    <3>1. mishaps' \in Nat /\ mishaps' >= mishaps
      BY <1>0, <1>7
    <3> QED BY <1>0, <1>14, <1>15, <3>1
  <2> QED BY <1>7, <2>1, <2>2 DEF RunsAlone, RunTypes, recordVars, fileVars, localVars
<1>12. lost \in [Messages -> 0..MaxCopies] /\ queue \in [Messages -> 0..MaxCopies]
  BY DEF RowTypes, SourcesTypeOK
<1>13. leases \subseteq Workers /\ waiting \in [Tasks -> 0..MaxRetries \cup {None}]
  BY DEF RunTypes
<1>8. ASSUME NEW m \in Messages, LoseWaiting(m) PROVE RowTypes' /\ RunTypes'
  <2>1. queue' \in [Messages -> 0..MaxCopies] /\ lost' \in [Messages -> 0..MaxCopies]
    BY <1>12, <1>8 DEF LoseWaiting, OneMore, MaxCopies
  <2>2. mishaps' \in 0..MaxMishaps /\ mishaps' >= mishaps
    BY <1>0, <1>8 DEF LoseWaiting
  <2> QED BY <1>7, <1>8, <1>13, <2>1, <2>2 DEF LoseWaiting, redisVars
<1>9. ASSUME NEW w \in Workers, Lapse(w) PROVE RowTypes' /\ RunTypes'
  <2>1. /\ leases' \subseteq Workers /\ mishaps' = mishaps /\ RunsAlone
        /\ queue' = queue /\ lost' = lost /\ attempt' = attempt /\ waiting' = waiting
    BY <1>9, <1>13 DEF Lapse
  <2>2. mishaps' \in 0..MaxMishaps /\ mishaps' >= mishaps
    BY <1>0, <2>1
  <2> QED BY <1>7, <1>12, <1>13, <2>1, <2>2
<1>10. ASSUME NEW w \in Workers, RedeliverLive(w) PROVE RowTypes' /\ RunTypes'
  <2>1. job[w] \in Messages
    BY <1>10 DEF RedeliverLive, Body, RowTypes, SourcesTypeOK
  <2>2. queue' \in [Messages -> 0..MaxCopies]
    BY <1>10, <1>12, <2>1, EnqueueTypes DEF RedeliverLive
  <2>3. mishaps' \in 0..MaxMishaps /\ mishaps' >= mishaps
    BY <1>0, <1>10 DEF RedeliverLive
  <2> QED BY <1>7, <1>12, <1>13, <1>10, <2>2, <2>3 DEF RedeliverLive, redisVars
<1>11. ASSUME NEW t \in Tasks, Recover(t) PROVE RowTypes' /\ RunTypes'
  <2>1. <<t, waiting[t]>> \in Messages
    BY <1>11, <1>13 DEF Recover, Messages
  <2>2. Enqueue(<<t, waiting[t]>>) \/ queue' = queue
    BY <1>11 DEF Recover
  <2>3. queue' \in [Messages -> 0..MaxCopies]
    BY <1>12, <2>1, <2>2, EnqueueTypes
  <2>4. mishaps' \in 0..MaxMishaps /\ mishaps' >= mishaps
    BY <1>0, <1>11 DEF Recover
  <2>5. waiting' = waiting \/ waiting' = [waiting EXCEPT ![t] = None]
    BY <1>11 DEF Recover
  <2> QED BY <1>7, <1>12, <1>13, <1>11, <2>3, <2>4, <2>5 DEF Recover
<1> QED BY <1>1, <1>2, <1>3, <1>4, <1>5, <1>6, <1>8, <1>9, <1>10, <1>11 DEF Next

\* The invariant: every variable keeps its type, and no task dies more often than mishaps happen.
LEMMA TypesInvariant == Spec => [](RowTypes /\ RunTypes)
<1>1. Init => RowTypes /\ RunTypes
  <2> SUFFICES ASSUME Init PROVE RowTypes /\ RunTypes
    OBVIOUS
  <2>1. RowTypes
    BY Bounds DEF Init, SourcesInit, RowTypes, SourcesTypeOK, Statuses, Requests, Positions, MaxCopies
  <2>2. NoSnapshot \in Snapshot
    BY DEF NoSnapshot, Snapshot
  <2> QED BY <2>1, <2>2, Bounds DEF Init, SourcesInit, RunTypes
<1>2. RowTypes /\ RunTypes /\ [Next]_vars => (RowTypes /\ RunTypes)'
  <2> SUFFICES ASSUME RowTypes, RunTypes, [Next]_vars PROVE RowTypes' /\ RunTypes'
    OBVIOUS
  <2>1. ASSUME NEW w \in Workers, Run(w) PROVE RowTypes' /\ RunTypes'
    <3>1. pc[w] # "idle"
      BY <2>1 DEF Run, Start, Defer, Admit, Count, Claim, Begin, Extract, ExtractFails, CheckOwned, Store, Write, Prune, Retry, Fail, Finally
    <3> QED BY <2>1, <3>1, RunStepTypes
  <2>2. CASE UNCHANGED vars
    BY <2>2 DEF vars, sourceVars, rowVars, brokerVars, userVars, recordVars, redisVars, fileVars, localVars, RowTypes, SourcesTypeOK, RunTypes
  <2> QED BY <2>1, <2>2, OtherStepTypes
<1> QED BY <1>1, <1>2, PTL DEF Spec

\* Every variable keeps its type, whatever is killed, redelivered, cancelled or deleted.
THEOREM ExtractionTypes == Spec => []TypeOK
<1>1. RowTypes /\ RunTypes => TypeOK
  BY TypesParts DEF Types
<1> QED BY <1>1, TypesInvariant, PTL

-----------------------------------------------------------------------------
(* What a step may do to the row: nothing; a fenced status that is not a result;
   a new request; the result of the owner; a cancellation or the end of the row. *)
Fenced == \E t \in Tasks, s \in {"pending", "extracting", "failed"} : SetStatus(t, s) /\ result' = result
Requested == \E t \in Tasks : /\ request[t] = "unused" /\ status # "deleted"
                              /\ owner' = t /\ status' = "pending" /\ result' = result
Written == \E w \in Workers : /\ Write(w) /\ Exists /\ status # "cancelled" /\ owner = Task(w)
                              /\ status' \in {"extracted", "attention_required"} /\ owner' = owner /\ result' = Task(w)
Ended == status' = "deleted" /\ UNCHANGED <<owner, result>>
Cancelled == Exists /\ status' = "cancelled" /\ UNCHANGED <<owner, result>>

\* Every step does one of these to the row.
LEMMA RowStep ==
  ASSUME RowTypes, [Next]_vars
  PROVE  UNCHANGED rowVars \/ Fenced \/ Requested \/ Written \/ Ended \/ Cancelled
<1>1. ASSUME NEW t \in Tasks, Request(t) PROVE UNCHANGED rowVars \/ Requested \/ Ended
  BY <1>1 DEF Request, Upload, Reextract, Send, SendFails, Requested, Ended, rowVars, Exists, RowTypes, SourcesTypeOK
<1>2. ASSUME Cancel \/ Delete PROVE UNCHANGED rowVars \/ Cancelled \/ Ended
  BY <1>2 DEF Cancel, CancelBegin, CancelEnd, Delete, Cancelled, Ended, rowVars
<1>3. ASSUME NEW w \in Workers, Run(w) PROVE UNCHANGED rowVars \/ Fenced \/ Written
  <2>1. CASE Claim(w)
    <3>1. Task(w) \in Tasks
      BY <2>1, JobTypes DEF Claim
    <3> QED BY <2>1, <3>1 DEF Claim, Fenced
  <2>2. CASE Retry(w)
    <3>1. Task(w) \in Tasks
      BY <2>2, JobTypes DEF Retry
    <3> QED BY <2>2, <3>1 DEF Retry, Fenced
  <2>3. CASE Fail(w)
    <3>1. Task(w) \in Tasks
      BY <2>3, JobTypes DEF Fail
    <3> QED BY <2>3, <3>1 DEF Fail, Fenced
  <2>4. CASE Write(w)
    <3>2. CASE Exists /\ status # "cancelled" /\ owner = Task(w)
      <4>1. status' \in {"extracted", "attention_required"} /\ owner' = owner /\ result' = Task(w)
        BY <2>4, <3>2 DEF Write
      <4> QED BY <2>4, <3>2, <4>1 DEF Written
    <3>3. CASE ~(Exists /\ status # "cancelled" /\ owner = Task(w))
      BY <2>4, <3>3 DEF Write, rowVars
    <3> QED BY <3>2, <3>3
  <2>5. ASSUME \/ Start(w) \/ Defer(w) \/ Admit(w) \/ Count(w) \/ Begin(w) \/ Extract(w) \/ ExtractFails(w)
               \/ CheckOwned(w) \/ Store(w) \/ Prune(w) \/ Finally(w)
        PROVE  UNCHANGED rowVars
    BY <2>5 DEF Start, Defer, Admit, Count, Begin, Extract, ExtractFails, CheckOwned, Store, Prune, Finally, Return
  <2> QED BY <1>3, <2>1, <2>2, <2>3, <2>4, <2>5 DEF Run
<1>4. ASSUME NEW w \in Workers, Die(w) \/ Lapse(w) \/ RedeliverLive(w) \/ \E m \in Messages : Take(w, m)
      PROVE  UNCHANGED rowVars
  BY <1>4 DEF Die, Kill, Lapse, RedeliverLive, Take, Fetch, RunsAlone
<1>5. ASSUME (\E m \in Messages : Deliver(m) \/ LoseWaiting(m)) \/ (\E t \in Tasks : Recover(t))
      PROVE  UNCHANGED rowVars
  BY <1>5 DEF Deliver, Redeliver, LoseWaiting, Recover, RunsAlone
<1>6. ASSUME UNCHANGED vars PROVE UNCHANGED rowVars
  BY <1>6 DEF vars, sourceVars
<1> QED BY <1>1, <1>2, <1>3, <1>4, <1>5, <1>6 DEF Next

\* The row of an extracted source names the result of the task that owns it.
THEOREM LatestResult == Spec => []LatestWins
<1>1. Init => LatestWins
  BY DEF Init, SourcesInit, LatestWins
<1>2. TypeOK /\ LatestWins /\ [Next]_vars => LatestWins'
  <2> SUFFICES ASSUME TypeOK, LatestWins, [Next]_vars PROVE LatestWins'
    OBVIOUS
  <2>1. UNCHANGED rowVars \/ Fenced \/ Requested \/ Written \/ Ended \/ Cancelled
    BY RowStep DEF TypeOK, RowTypes
  <2> QED BY <2>1 DEF LatestWins, rowVars, Fenced, SetStatus, Requested, Written, Ended, Cancelled
<1> QED BY <1>1, <1>2, ExtractionTypes, PTL DEF Spec

\* Only a new request or a deletion takes a source out of cancelled.
THEOREM CancelledStays == Spec => CancelSticks
<1> DEFINE Sticks == status = "cancelled" /\ status' # "cancelled" =>
                       status' = "deleted" \/ \E t \in Tasks : owner' = t /\ request[t] = "unused"
<1>1. TypeOK /\ [Next]_vars => [Sticks]_vars
  <2> SUFFICES ASSUME TypeOK, [Next]_vars PROVE Sticks
    OBVIOUS
  <2>1. UNCHANGED rowVars \/ Fenced \/ Requested \/ Written \/ Ended \/ Cancelled
    BY RowStep DEF TypeOK, RowTypes
  <2> QED BY <2>1 DEF rowVars, Fenced, SetStatus, MayWrite, Requested, Written, Ended, Cancelled
<1>2. Spec => [][Sticks]_vars
  BY <1>1, ExtractionTypes, PTL DEF Spec
<1> QED BY <1>2 DEF CancelSticks

-----------------------------------------------------------------------------
(* Why no cleanup takes the text: the text is stored last, after the rendering
   that a failure cleans up after, and is among what the run that prunes has made. *)
HasText == \A w \in Workers :
    /\ pc[w] \in {"rendered", "store"} => "text" \notin made[w]
    /\ pc[w] \in {"write", "prune"} => "text" \in made[w]
    /\ pc[w] = "write" => status = "deleted" \/ content["text"] # None
TextInv == HasText /\ TextStored

\* A deleted row stays deleted.
LEMMA DeletedStays == ASSUME RowTypes, [Next]_vars, status = "deleted" PROVE status' = "deleted"
  BY RowStep DEF rowVars, Fenced, SetStatus, MayWrite, Exists, Requested, Written, Ended, Cancelled

\* A step takes the text only with the row.
LEMMA TextKept ==
  ASSUME RowTypes, RunTypes, HasText, [Next]_vars
  PROVE  content'["text"] = content["text"] \/ content'["text"] # None \/ status' = "deleted"
<1>0. "text" \in Files /\ content \in [Files -> Tasks \cup {None}]
  BY DEF Files, RunTypes
<1>1. ASSUME NEW w \in Workers, ExtractFails(w) PROVE content'["text"] = content["text"]
  BY <1>0, <1>1 DEF ExtractFails, HasText
<1>2. ASSUME NEW w \in Workers, Prune(w) PROVE content'["text"] = content["text"]
  BY <1>0, <1>2 DEF Prune, HasText
<1>3. ASSUME NEW w \in Workers, Extract(w) PROVE content'["text"] = content["text"]
  <2>1. PICK output \in Outputs : content' = [f \in Files |-> IF f \in output \ {"text"} THEN Task(w) ELSE content[f]]
    BY <1>3 DEF Extract
  <2> QED BY <1>0, <2>1
<1>4. ASSUME NEW w \in Workers, Store(w) PROVE content'["text"] = content["text"] \/ content'["text"] # None
  <2>1. Task(w) \in Tasks /\ None \notin Tasks
    BY <1>4, JobTypes, SourcesAssumption DEF Store, SourcesAssumption
  <2>2. content' = [content EXCEPT !["text"] = Task(w)] \/ content' = content
    BY <1>4 DEF Store
  <2> QED BY <1>0, <2>1, <2>2
<1>5. ASSUME Delete PROVE status' = "deleted"
  BY <1>5 DEF Delete
<1>6. ASSUME NEW w \in Workers,
             \/ Start(w) \/ Defer(w) \/ Admit(w) \/ Count(w) \/ Claim(w) \/ Begin(w) \/ CheckOwned(w) \/ Write(w) \/ Retry(w)
             \/ Fail(w) \/ Finally(w) \/ Die(w) \/ Lapse(w) \/ RedeliverLive(w) \/ \E m \in Messages : Take(w, m)
      PROVE  content' = content
  BY <1>6 DEF Start, Defer, Admit, Count, Claim, Begin, CheckOwned, Write, Retry, Fail, Finally, Die, Lapse, RedeliverLive, Take,
              RunsAlone, ExtractionAlone, fileVars
<1>7. ASSUME \/ Cancel \/ UNCHANGED vars \/ \E t \in Tasks : Request(t) \/ Recover(t)
             \/ \E m \in Messages : Deliver(m) \/ LoseWaiting(m)
      PROVE  content' = content
  BY <1>7 DEF Cancel, vars, Request, Recover, Deliver, LoseWaiting, RunsAlone, ExtractionAlone, fileVars
<1> QED BY <1>1, <1>2, <1>3, <1>4, <1>5, <1>6, <1>7 DEF Next, Run

\* Every step keeps what each run has made of the text.
LEMMA HasTextStep ==
  ASSUME RowTypes, RunTypes, HasText, [Next]_vars, NEW v \in Workers
  PROVE  /\ pc'[v] \in {"rendered", "store"} => "text" \notin made'[v]
         /\ pc'[v] \in {"write", "prune"} => "text" \in made'[v]
         /\ pc'[v] = "write" => status' = "deleted" \/ content'["text"] # None
<1> DEFINE Goal == /\ pc'[v] \in {"rendered", "store"} => "text" \notin made'[v]
                   /\ pc'[v] \in {"write", "prune"} => "text" \in made'[v]
                   /\ pc'[v] = "write" => status' = "deleted" \/ content'["text"] # None
<1>0. /\ pc \in [Workers -> Positions] /\ made \in [Workers -> SUBSET Files]
      /\ "text" \in Files /\ content \in [Files -> Tasks \cup {None}]
  BY DEF RowTypes, RunTypes, Files
\* A worker that is where it was, with what it had.
<1>1. ASSUME pc'[v] = pc[v], made'[v] = made[v] PROVE Goal
  BY <1>1, DeletedStays, TextKept DEF HasText
\* One that goes where nothing is asked.
<1>2. ASSUME pc'[v] \notin {"rendered", "store", "write", "prune"} PROVE Goal
  BY <1>2
<1>3. ASSUME NEW w \in Workers, NEW to, Goto(w, to), made'[v] = made[v], to \notin {"rendered", "store", "write", "prune"} PROVE Goal
  BY <1>0, <1>1, <1>2, <1>3 DEF Goto
<1>4. ASSUME NEW w \in Workers, Run(w) PROVE Goal
  <2>1. CASE Start(w) \/ Defer(w) \/ Admit(w) \/ Count(w) \/ Claim(w) \/ Begin(w) \/ ExtractFails(w) \/ Retry(w) \/ Fail(w)
    <3>1. made' = made
      BY <2>1 DEF Start, Defer, Admit, Count, Claim, Begin, ExtractFails, Retry, Fail, localVars
    <3>2. \E to \in Positions \ {"rendered", "store", "write", "prune"} : Goto(w, to)
      BY <2>1 DEF Start, Defer, Admit, Count, Claim, Begin, ExtractFails, Retry, Fail, Positions, Body
    <3> QED BY <1>3, <3>1, <3>2
  <2>2. CASE Prune(w)
    BY <1>3, <2>2 DEF Prune, localVars
  <2>3. CASE Extract(w)
    <3>1. PICK output \in Outputs : made' = [made EXCEPT ![w] = output \ {"text"}]
      BY <2>3 DEF Extract
    <3>2. pc' = [pc EXCEPT ![w] = "rendered"]
      BY <2>3 DEF Extract, Goto
    <3> QED BY <1>0, <1>1, <3>1, <3>2
  <2>4. CASE CheckOwned(w)
    <3>1. made' = made /\ pc[w] = "rendered"
      BY <2>4 DEF CheckOwned, localVars
    <3>2. pc' = [pc EXCEPT ![w] = "store"] \/ pc' = [pc EXCEPT ![w] = "forget"]
      BY <2>4 DEF CheckOwned, Goto
    <3> QED BY <1>0, <1>1, <3>1, <3>2 DEF HasText
  <2>5. CASE Store(w)
    <3>1. CASE content' = [content EXCEPT !["text"] = Task(w)] /\ made' = [made EXCEPT ![w] = @ \cup {"text"}] /\ Goto(w, "write")
      <4>1. Task(w) \in Tasks /\ None \notin Tasks
        BY <2>5, JobTypes, SourcesAssumption DEF Store, SourcesAssumption
      <4> QED BY <1>0, <1>1, <3>1, <4>1 DEF Goto
    <3>2. CASE UNCHANGED <<content, made>> /\ Goto(w, "retry")
      BY <1>3, <3>2
    <3> QED BY <2>5, <3>1, <3>2 DEF Store
  <2>6. CASE Write(w)
    <3>1. made' = made /\ pc[w] = "write"
      BY <2>6 DEF Write, localVars
    <3>2. pc' = [pc EXCEPT ![w] = "prune"] \/ pc' = [pc EXCEPT ![w] = "forget"]
      BY <2>6 DEF Write, Goto
    <3> QED BY <1>0, <1>1, <3>1, <3>2 DEF HasText
  <2>7. CASE Finally(w)
    <3>1. pc' = [pc EXCEPT ![w] = "idle"] /\ made' = [made EXCEPT ![w] = {}]
      BY <2>7 DEF Finally, Return, Vanish
    <3> QED BY <1>0, <1>1, <1>2, <3>1
  <2> QED BY <1>4, <2>1, <2>2, <2>3, <2>4, <2>5, <2>6, <2>7 DEF Run
<1>5. ASSUME NEW w \in Workers, Die(w) PROVE Goal
  <2>1. pc' = [pc EXCEPT ![w] = "idle"] /\ made' = [made EXCEPT ![w] = {}]
    BY <1>5 DEF Die, Kill, Vanish
  <2> QED BY <1>0, <1>1, <1>2, <2>1
<1>6. ASSUME NEW w \in Workers, NEW m \in Messages, Take(w, m) PROVE Goal
  <2>1. made' = made /\ (pc' = pc \/ pc' = [pc EXCEPT ![w] = "start"])
    BY <1>6 DEF Take, Fetch, ExtractionAlone, localVars
  <2> QED BY <1>0, <1>1, <1>2, <2>1
<1>7. ASSUME \/ Cancel \/ Delete \/ UNCHANGED vars \/ \E t \in Tasks : Request(t) \/ Recover(t)
             \/ \E m \in Messages : Deliver(m) \/ LoseWaiting(m)
             \/ \E w \in Workers : Lapse(w) \/ RedeliverLive(w)
      PROVE  made' = made /\ pc' = pc
  BY <1>7 DEF Cancel, CancelBegin, CancelEnd, Delete, vars, sourceVars, Request, Upload, Reextract, Send, SendFails, WorkersAlone, Recover,
              Deliver, Redeliver, LoseWaiting, Lapse, RedeliverLive, RunsAlone, ExtractionAlone, localVars
<1> QED BY <1>1, <1>4, <1>5, <1>6, <1>7 DEF Next

\* The text that an extracted row lists is in the bucket.
THEOREM KeepsText == Spec => []TextStored
<1>1. Init => TextInv
  BY DEF Init, SourcesInit, TextInv, HasText, TextStored
<1>2. RowTypes /\ RunTypes /\ TextInv /\ [Next]_vars => TextInv'
  <2> SUFFICES ASSUME RowTypes, RunTypes, HasText, TextStored, [Next]_vars PROVE HasText' /\ TextStored'
    BY DEF TextInv
  <2>1. HasText'
    BY HasTextStep DEF HasText
  <2>2. TextStored'
    <3>1. UNCHANGED rowVars \/ Fenced \/ Requested \/ Written \/ Ended \/ Cancelled
      BY RowStep
    <3>2. CASE Written
      <4>1. PICK w \in Workers : Write(w) /\ Exists
        BY <3>2 DEF Written
      <4>2. content' = content /\ content["text"] # None
        BY <4>1 DEF Write, HasText, Exists
      <4> QED BY <4>2 DEF TextStored
    <3>3. CASE ~Written
      BY <3>1, <3>3, TextKept DEF TextStored, rowVars, Fenced, SetStatus, Requested, Ended, Cancelled
    <3> QED BY <3>2, <3>3
  <2> QED BY <2>1, <2>2
<1>3. TextInv => TextStored
  BY DEF TextInv
<1> QED BY <1>1, <1>2, <1>3, TypesInvariant, PTL DEF Spec

-----------------------------------------------------------------------------
(* One message at a time.  A task is sent once; it sends itself again to wait for
   a slot and to retry.  A worker that dies between that and its return leaves two
   messages.  So a task has one message where no file is large and nothing is
   retried, and where nothing is lost. *)
Resends == Large \/ MaxRetries > 0
SoloNext == Next /\ (Resends => UNCHANGED lost)

\* A run has its task's message, until it has sent that on.
Holding(w) == pc[w] # "idle" /\ (Resends => pc[w] \notin {"forget", "return"})
Copies(m) == queue[m] + lost[m]

Calm == IF Resends THEN \A m \in Messages : lost[m] = 0
                   ELSE leases = {} /\ \A t \in Tasks : waiting[t] = None
Single == /\ \A m \in Messages : Copies(m) <= 1
          /\ \A m, n \in Messages : m[1] = n[1] /\ m # n => Copies(m) = 0 \/ Copies(n) = 0
          /\ \A w \in Workers, m \in Messages : Holding(w) /\ Task(w) = m[1] => Copies(m) = 0
          /\ \A v, w \in Workers : Holding(v) /\ Holding(w) /\ Task(v) = Task(w) => v = w
          /\ \A m \in Messages : request[m[1]] # "sent" => Copies(m) = 0
          /\ \A w \in Workers : Holding(w) => request[Task(w)] = "sent"

LEMMA CalmStep ==
  ASSUME RowTypes, RunTypes, Calm, ~Overdue, ~LiveRedelivery, SoloNext
  PROVE  Calm'
<1>1. CASE Resends
  BY <1>1 DEF SoloNext, Calm, Resends
<1>2. CASE ~Resends
  <2>1. /\ ~Large /\ MaxRetries = 0 /\ leases = {} /\ \A t \in Tasks : waiting[t] = None
        /\ waiting \in [Tasks -> 0..MaxRetries \cup {None}]
    <3>1. ~Large /\ MaxRetries = 0
      BY <1>2, Bounds DEF Resends
    <3>2. leases = {} /\ \A t \in Tasks : waiting[t] = None
      BY <1>2 DEF Calm
    <3> QED BY <3>1, <3>2 DEF RunTypes
  <2>2. ASSUME NEW w \in Workers, Run(w) PROVE leases' = {} /\ \A t \in Tasks : waiting'[t] = None
    <3>0. pc[w] # "idle"
      BY <2>2 DEF Run, Start, Defer, Admit, Count, Claim, Begin, Extract, ExtractFails, CheckOwned, Store, Write, Prune, Retry, Fail, Finally
    <3>1. Task(w) \in Tasks /\ Retries(w) \in 0..MaxRetries
      BY <3>0, JobTypes
    <3>2. CASE Defer(w)
      BY <2>1, <3>2 DEF Defer, PreviousAlive
    <3>3. CASE Retry(w)
      BY <2>1, <3>1, <3>3 DEF Retry
    <3>4. CASE Start(w)
      BY <2>1, <3>1, <3>4 DEF Start
    <3>5. CASE Admit(w)
      BY <2>1, <3>5 DEF Admit
    <3>6. CASE Finally(w)
      BY <2>1, <3>6 DEF Finally
    <3>7. ASSUME \/ Count(w) \/ Claim(w) \/ Begin(w) \/ Extract(w) \/ ExtractFails(w) \/ CheckOwned(w) \/ Store(w)
                 \/ Write(w) \/ Prune(w) \/ Fail(w)
          PROVE  leases' = leases /\ waiting' = waiting
      BY <3>7 DEF Count, Claim, Begin, Extract, ExtractFails, CheckOwned, Store, Write, Prune, Fail, redisVars
    <3> QED BY <2>1, <2>2, <3>2, <3>3, <3>4, <3>5, <3>6, <3>7 DEF Run
  <2>3. ASSUME NEW t \in Tasks, Request(t) \/ Recover(t) PROVE leases' = {} /\ \A u \in Tasks : waiting'[u] = None
    BY <2>1, <2>3 DEF Request, Recover, ExtractionAlone, redisVars
  <2>4. ASSUME Cancel \/ Delete PROVE leases' = leases /\ waiting' = waiting
    BY <2>4 DEF Cancel, Delete, ExtractionAlone, redisVars
  <2>5. ASSUME NEW w \in Workers, Die(w) \/ Lapse(w) \/ RedeliverLive(w) \/ \E m \in Messages : Take(w, m)
        PROVE  leases' = {} /\ waiting' = waiting
    BY <2>1, <2>5 DEF Die, Lapse, RedeliverLive, Take, ExtractionAlone, redisVars
  <2>6. ASSUME NEW m \in Messages, Deliver(m) \/ LoseWaiting(m) PROVE leases' = leases /\ waiting' = waiting
    BY <2>6 DEF Deliver, LoseWaiting, ExtractionAlone, redisVars
  <2>7. leases' = {} /\ \A t \in Tasks : waiting'[t] = None
    BY <2>1, <2>2, <2>3, <2>4, <2>5, <2>6 DEF SoloNext, Next
  <2> QED BY <1>2, <2>7 DEF Calm, Resends
<1> QED BY <1>1, <1>2

\* What does not move a message and lets no run begin.
LEMMA SingleFrame ==
  ASSUME RowTypes, Single, queue' = queue, lost' = lost,
         \A w \in Workers : Holding(w)' => Holding(w) /\ Task(w)' = Task(w),
         \A t \in Tasks : request'[t] = "sent" <=> request[t] = "sent"
  PROVE  Single'
<1>1. \A w \in Workers : Holding(w) => Task(w) \in Tasks
  BY JobTypes DEF Holding
<1>2. \A m \in Messages : m[1] \in Tasks
  BY DEF Messages
<1> QED BY <1>1, <1>2 DEF Single, Copies

\* A run that goes elsewhere and sends nothing.
LEMMA SingleGoto ==
  ASSUME RowTypes, Single, NEW w \in Workers, NEW to, Goto(w, to), pc[w] # "idle",
         Resends /\ pc[w] \in {"forget", "return"} => to \in {"forget", "return"}, UNCHANGED queue
  PROVE  Single'
<1>1. pc \in [Workers -> Positions]
  BY DEF RowTypes
<1>2. \A v \in Workers : Holding(v)' => Holding(v) /\ Task(v)' = Task(v)
  BY <1>1 DEF Goto, Holding, Task, Resends
<1> QED BY <1>2, SingleFrame DEF Goto, userVars

\* A run that sends its message on.
LEMMA SingleSend ==
  ASSUME RowTypes, Single, Resends, NEW w \in Workers, Holding(w), NEW to \in {"forget", "return"}, Goto(w, to),
         NEW m \in Messages, m[1] = Task(w), Enqueue(m)
  PROVE  Single'
<1>1. pc \in [Workers -> Positions] /\ queue \in [Messages -> 0..2] /\ lost \in [Messages -> 0..2]
  BY DEF RowTypes, SourcesTypeOK, MaxCopies
<1>2. ~Holding(w)' /\ \A v \in Workers : Holding(v)' => v # w /\ Holding(v) /\ Task(v)' = Task(v)
  BY <1>1 DEF Goto, Holding, Task, Resends
<1>3. \A n \in Messages : n[1] = Task(w) => Copies(n) = 0 /\ queue[n] = 0
  BY <1>1 DEF Single, Copies
<1>4. queue' = [queue EXCEPT ![m] = 1] /\ lost' = lost /\ request' = request /\ Copies(m)' = 1
  <2>1. queue[m] = 0 /\ lost[m] = 0
    BY <1>1, <1>3 DEF Copies
  <2>2. queue' = [queue EXCEPT ![m] = 1] /\ lost' = lost /\ request' = request
    BY <2>1 DEF Enqueue, OneMore, MaxCopies, Goto, userVars
  <2> QED BY <1>1, <2>1, <2>2 DEF Copies
<1>5. \A n \in Messages : n # m => Copies(n)' = Copies(n)
  BY <1>1, <1>4 DEF Copies
<1>6. \A v \in Workers : Holding(v)' => Task(v) # Task(w)
  BY <1>2 DEF Single
<1>7. request[Task(w)] = "sent"
  BY DEF Single
<1> QED BY <1>2, <1>3, <1>4, <1>5, <1>6, <1>7 DEF Single

LEMMA SingleRun ==
  ASSUME RowTypes, RunTypes, Single, Calm, NEW w \in Workers, Run(w)
  PROVE  Single'
<1>0. pc[w] # "idle"
  BY DEF Run, Start, Defer, Admit, Count, Claim, Begin, Extract, ExtractFails, CheckOwned, Store, Write, Prune, Retry, Fail, Finally
<1>1. Task(w) \in Tasks /\ Retries(w) \in 0..MaxRetries /\ job[w] = <<Task(w), Retries(w)>> /\ job[w] \in Messages
  BY <1>0, JobTypes DEF RowTypes, SourcesTypeOK
<1>2. CASE Defer(w)
  <2>1. Resends
    BY <1>2 DEF Defer, PreviousAlive, Calm, Resends
  <2>2. CASE Enqueue(job[w]) /\ Goto(w, "return")
    <3>1. Holding(w)
      BY <1>2, <2>1 DEF Defer, Holding
    <3> QED BY <1>1, <2>1, <2>2, <3>1, SingleSend
  <2>3. CASE UNCHANGED queue /\ Goto(w, "abort")
    BY <1>0, <1>2, <2>3, SingleGoto DEF Defer
  <2> QED BY <1>2, <2>2, <2>3 DEF Defer
<1>3. CASE Retry(w)
  <2>1. PICK to \in {"forget", "return"} : Goto(w, to)
    BY <1>3 DEF Retry
  <2>2. CASE UNCHANGED queue
    BY <1>0, <2>1, <2>2, SingleGoto
  <2>3. CASE Retries(w) < MaxRetries /\ Enqueue(<<Task(w), Retries(w) + 1>>)
    <3>1. <<Task(w), Retries(w) + 1>> \in Messages /\ Resends
      BY <1>1, <2>3, Bounds DEF Messages, Resends
    <3>2. Holding(w)
      BY <1>3, <3>1 DEF Retry, Holding
    <3> QED BY <1>1, <2>1, <2>3, <3>1, <3>2, SingleSend
  <2> QED BY <1>3, <2>2, <2>3 DEF Retry
<1>4. CASE Finally(w)
  <2>1. Return(w)
    BY <1>4 DEF Finally
  <2>2. \A v \in Workers : Holding(v)' => Holding(v) /\ Task(v)' = Task(v)
    BY <2>1 DEF Return, Holding, Task, RowTypes, SourcesTypeOK, Resends
  <2> QED BY <2>1, <2>2, SingleFrame DEF Return, userVars, brokerVars
<1>5. ASSUME \/ Start(w) \/ Admit(w) \/ Count(w) \/ Claim(w) \/ Begin(w) \/ Extract(w) \/ ExtractFails(w)
             \/ CheckOwned(w) \/ Store(w) \/ Write(w) \/ Prune(w) \/ Fail(w)
      PROVE  (\E to \in Positions : Goto(w, to)) /\ UNCHANGED queue /\ pc[w] \notin {"forget", "return"}
  <2>1. UNCHANGED queue /\ pc[w] \notin {"forget", "return"}
    BY <1>5 DEF Start, Admit, Count, Claim, Begin, Extract, ExtractFails, CheckOwned, Store, Write, Prune, Fail, Body
  <2>2. \E to \in Positions : Goto(w, to)
    BY <1>5 DEF Start, Admit, Count, Claim, Begin, Extract, ExtractFails, CheckOwned, Store, Write, Prune, Fail, Positions, Body
  <2> QED BY <2>1, <2>2
<1> QED BY <1>0, <1>2, <1>3, <1>4, <1>5, SingleGoto DEF Run

LEMMA SingleStep ==
  ASSUME RowTypes, RunTypes, Single, Calm, ~Overdue, ~LiveRedelivery, SoloNext
  PROVE  Single'
<1>0. /\ pc \in [Workers -> Positions] /\ job \in [Workers -> Messages \cup {None}] /\ request \in [Tasks -> Requests]
      /\ queue \in [Messages -> 0..2] /\ lost \in [Messages -> 0..2] /\ \A w \in Workers : pc[w] # "idle" => job[w] \in Messages
      /\ \A m \in Messages : m[1] \in Tasks
  BY DEF RowTypes, SourcesTypeOK, MaxCopies, Messages
<1>1. ASSUME NEW t \in Tasks, Request(t) PROVE Single'
  <2>1. pc' = pc /\ job' = job /\ lost' = lost
    BY <1>1 DEF Request, Upload, Reextract, Send, SendFails, WorkersAlone, brokerVars
  <2>2. \A w \in Workers : Holding(w)' = Holding(w) /\ Task(w)' = Task(w)
    BY <2>1 DEF Holding, Task, Resends
  <2>3. CASE Upload(t) \/ Reextract(t)
    <3>1. queue' = queue /\ \A u \in Tasks : request'[u] = "sent" <=> request[u] = "sent"
      BY <1>0, <2>3 DEF Upload, Reextract, brokerVars
    <3> QED BY <2>1, <2>2, <3>1, SingleFrame
  <2>4. CASE Send(t)
    <3>1. /\ <<t, 0>> \in Messages /\ request[t] # "sent" /\ queue' = [queue EXCEPT ![<<t, 0>>] = 1]
          /\ request' = [request EXCEPT ![t] = "sent"]
      BY <2>4, Bounds DEF Send, Messages
    <3>2. \A m \in Messages : m[1] = t => Copies(m) = 0 /\ queue[m] = 0 /\ lost[m] = 0
      BY <1>0, <3>1 DEF Single, Copies
    <3>3. /\ Copies(<<t, 0>>)' = 1
          /\ \A m \in Messages : m # <<t, 0>> => Copies(m)' = Copies(m)
      BY <1>0, <2>1, <3>1, <3>2 DEF Copies
    <3>4. \A w \in Workers : Holding(w) => Task(w) \in Tasks /\ Task(w) # t
      BY <3>1, JobTypes DEF Single, Holding
    <3> QED BY <1>0, <2>2, <3>1, <3>2, <3>3, <3>4 DEF Single
  <2>5. CASE SendFails(t, TRUE)
    <3>1. queue' = queue /\ request[t] # "sent" /\ request' = [request EXCEPT ![t] = "sent"]
      BY <2>5 DEF SendFails, brokerVars
    <3>2. \A m \in Messages : Copies(m)' = Copies(m)
      BY <2>1, <3>1 DEF Copies
    <3>3. \A w \in Workers : Holding(w) => Task(w) \in Tasks /\ Task(w) # t
      BY <3>1, JobTypes DEF Single, Holding
    <3> QED BY <1>0, <2>2, <3>1, <3>2, <3>3 DEF Single
  <2> QED BY <1>1, <2>3, <2>4, <2>5 DEF Request
<1>2. ASSUME Cancel \/ Delete PROVE Single'
  <2>1. queue' = queue /\ lost' = lost /\ pc' = pc /\ job' = job /\ request' = request
    BY <1>2 DEF Cancel, CancelBegin, CancelEnd, Delete, WorkersAlone, userVars, brokerVars
  <2> QED BY <2>1, SingleFrame DEF Holding, Task, Resends
<1>3. ASSUME NEW w \in Workers, NEW m \in Messages, Take(w, m) PROVE Single'
  <2>1. /\ pc[w] = "idle" /\ queue[m] > 0 /\ queue' = [queue EXCEPT ![m] = @ - 1] /\ lost' = lost /\ request' = request
        /\ \/ pc' = pc /\ job' = job
           \/ pc' = [pc EXCEPT ![w] = "start"] /\ job' = [job EXCEPT ![w] = m]
    BY <1>3 DEF Take, Fetch, userVars
  <2>2. Copies(m) = 1 /\ Copies(m)' = 0 /\ \A n \in Messages : n # m => Copies(n)' = Copies(n)
    BY <1>0, <2>1 DEF Single, Copies
  <2>3. \A n \in Messages : n[1] = m[1] => Copies(n)' = 0
    BY <2>2 DEF Single
  <2>4. \A v \in Workers : Holding(v) => Task(v) # m[1]
    BY <2>2 DEF Single
  <2>5. request[m[1]] = "sent"
    BY <2>2 DEF Single
  <2>6. \A v \in Workers : Holding(v)' => \/ Holding(v) /\ Task(v)' = Task(v)
                                          \/ v = w /\ Task(v)' = m[1]
    BY <1>0, <2>1 DEF Holding, Task, Resends
  <2> QED BY <2>1, <2>2, <2>3, <2>4, <2>5, <2>6 DEF Single
<1>4. ASSUME NEW m \in Messages, Deliver(m) PROVE Single'
  <2>1. /\ lost[m] > 0 /\ queue' = [queue EXCEPT ![m] = OneMore(@)] /\ lost' = [lost EXCEPT ![m] = @ - 1]
        /\ pc' = pc /\ job' = job /\ request' = request
    BY <1>4 DEF Deliver, Redeliver, Enqueue, userVars
  <2>2. \A n \in Messages : Copies(n)' = Copies(n)
    BY <1>0, <2>1 DEF Single, Copies, OneMore, MaxCopies
  <2> QED BY <2>1, <2>2 DEF Single, Holding, Task, Resends
<1>5. ASSUME NEW w \in Workers, Die(w) PROVE Single'
  <2>1. /\ pc[w] # "idle" /\ lost' = [lost EXCEPT ![job[w]] = OneMore(@)] /\ pc' = [pc EXCEPT ![w] = "idle"]
        /\ job' = [job EXCEPT ![w] = None] /\ request' = request /\ queue' = queue
    BY <1>5 DEF Die, Kill, userVars
  <2>2. PICK m \in Messages : m = job[w] /\ m[1] = Task(w)
    BY <1>0, <2>1 DEF Task
  <2>8. lost' = [lost EXCEPT ![m] = OneMore(@)]
    BY <2>1, <2>2
  <2>3. ~Resends
    BY <1>0, <2>8 DEF SoloNext, Calm, OneMore, MaxCopies
  <2>4. Holding(w)
    BY <2>1, <2>3 DEF Holding
  <2>5. \A n \in Messages : n[1] = m[1] => Copies(n) = 0 /\ queue[n] = 0 /\ lost[n] = 0
    BY <1>0, <2>2, <2>4 DEF Single, Copies
  <2>6. Copies(m)' = 1 /\ \A n \in Messages : n # m => Copies(n)' = Copies(n)
    <3>1. queue'[m] = 0 /\ lost'[m] = 1
      BY <1>0, <2>1, <2>8, <2>5 DEF OneMore, MaxCopies
    <3>2. \A n \in Messages : n # m => lost'[n] = lost[n]
      BY <1>0, <2>8
    <3> QED BY <2>1, <3>1, <3>2 DEF Copies
  <2>7. \A v \in Workers : Holding(v)' => v # w /\ Holding(v) /\ Task(v)' = Task(v)
    BY <1>0, <2>1 DEF Holding, Task, Resends
  <2>9. \A v \in Workers : Holding(v)' => Task(v)' # m[1]
    BY <2>2, <2>4, <2>7 DEF Single
  <2>10. request[m[1]] = "sent"
    BY <2>2, <2>4 DEF Single
  <2> QED BY <1>0, <2>1, <2>5, <2>6, <2>7, <2>9, <2>10 DEF Single
<1>6. ASSUME NEW w \in Workers, Lapse(w) PROVE Single'
  <2>1. queue' = queue /\ lost' = lost /\ pc' = pc /\ job' = job /\ request' = request
    BY <1>6 DEF Lapse, RunsAlone, userVars
  <2> QED BY <2>1, SingleFrame DEF Holding, Task, Resends
<1>7. ASSUME NEW w \in Workers, RedeliverLive(w) PROVE FALSE
  BY <1>7 DEF RedeliverLive
<1>8. ASSUME NEW m \in Messages, LoseWaiting(m) PROVE FALSE
  <2>1. m[2] \in Nat /\ m[1] \in Tasks /\ None \notin Nat
    BY Bounds, SourcesAssumption DEF Messages, SourcesAssumption
  <2>2. waiting[m[1]] # None
    BY <1>8, <2>1 DEF LoseWaiting
  <2>3. Resends /\ lost[m] = 0
    BY <2>1, <2>2 DEF Calm
  <2> QED BY <1>0, <1>8, <2>3 DEF SoloNext, LoseWaiting, OneMore, MaxCopies
<1>9. ASSUME NEW t \in Tasks, Recover(t) PROVE FALSE
  <2>1. <<t, waiting[t]>> \in Messages /\ waiting[t] # None /\ lost[<<t, waiting[t]>>] > 0
    BY <1>9, Bounds DEF Recover, RunTypes, Messages
  <2> QED BY <2>1 DEF Calm
<1> QED BY <1>1, <1>2, <1>3, <1>4, <1>5, <1>6, <1>7, <1>8, <1>9, SingleRun DEF SoloNext, Next

\* One message of a task at most, whoever asks, dies or cancels.
SoloSpec == Init /\ [][SoloNext]_vars

LEMMA SoloTypes == SoloSpec => [](RowTypes /\ RunTypes)
<1>1. [SoloNext]_vars => [Next]_vars
  BY DEF SoloNext
<1>2. SoloSpec => Spec
  BY <1>1, PTL DEF SoloSpec, Spec
<1> QED BY <1>2, TypesInvariant, PTL

LEMMA SoloInvariant ==
  ASSUME ~Overdue, ~LiveRedelivery
  PROVE  SoloSpec => [](Calm /\ Single)
<1>1. Init => Calm /\ Single
  <2> SUFFICES ASSUME Init PROVE Calm /\ Single
    OBVIOUS
  <2>1. \A m \in Messages : Copies(m) = 0 /\ m[1] \in Tasks
    BY DEF Init, SourcesInit, Copies, Messages
  <2> QED BY <2>1 DEF Init, SourcesInit, Calm, Single, Holding
<1>2. RowTypes /\ RunTypes /\ Calm /\ Single /\ [SoloNext]_vars => (Calm /\ Single)'
  <2> SUFFICES ASSUME RowTypes, RunTypes, Calm, Single, [SoloNext]_vars PROVE Calm' /\ Single'
    OBVIOUS
  <2>1. CASE UNCHANGED vars
    <3>1. queue' = queue /\ lost' = lost /\ pc' = pc /\ job' = job /\ request' = request /\ leases' = leases /\ waiting' = waiting
      BY <2>1 DEF vars, sourceVars, brokerVars, userVars, redisVars
    <3> QED BY <3>1, SingleFrame DEF Calm, Holding, Task, Resends
  <2> QED BY <2>1, CalmStep, SingleStep
<1> QED BY <1>1, <1>2, SoloTypes, PTL DEF SoloSpec

LEMMA SoloOneRunner ==
  ASSUME ~Overdue, ~LiveRedelivery
  PROVE  SoloSpec => []OneRunner
<1>1. Single => OneRunner
  BY DEF Single, OneRunner, Holding, Body
<1> QED BY <1>1, SoloInvariant, PTL

\* One run at a time extracts for the owner, where files are small and nothing is
\* retried: whatever is killed, redelivered, cancelled or asked for again.
THEOREM OneRunnerAtATime ==
  ASSUME ~Large, MaxRetries = 0, ~Overdue, ~LiveRedelivery
  PROVE  Spec => []OneRunner
<1>1. [Next]_vars => [SoloNext]_vars
  BY DEF SoloNext, Resends
<1>2. Spec => SoloSpec
  BY <1>1, PTL DEF SoloSpec, Spec
<1> QED BY <1>2, SoloOneRunner, PTL

\* So it does for files of any size with any number of retries, while no worker dies.
THEOREM OneRunnerQuietly ==
  ASSUME ~Overdue, ~LiveRedelivery
  PROVE  QuietSpec => []OneRunner
<1>1. [Next /\ UNCHANGED lost]_vars => [SoloNext]_vars
  BY DEF SoloNext
<1>2. QuietSpec => SoloSpec
  BY <1>1, PTL DEF SoloSpec, QuietSpec
<1> QED BY <1>2, SoloOneRunner, PTL

-----------------------------------------------------------------------------
(* The account of a task's deaths.  While the row says extracting and no run of
   the task has claimed it, there is a death that is not counted; so there is for a
   run that found the row like that, until it counts. *)
ExtractingFor(t) == status = "extracting" /\ owner = t
Account(t) == IF marker = t THEN charged + spared ELSE 0
SeenAccount(w) == IF seen[w].marker = Task(w) THEN seen[w].charged + seen[w].spared ELSE 0

Covered == \A t \in Tasks : Account(t) <= deaths[t]
Uncounted == \A t \in Tasks :
    ExtractingFor(t) /\ (\A w \in Workers : Claimed(w) => Task(w) # t) => Account(t) < deaths[t]
Witnessed == \A w \in Workers :
    /\ pc[w] \in {"gate", "unsized", "count"} /\ seen[w].redelivered => SeenAccount(w) < deaths[Task(w)]
    /\ pc[w] = "count" => seen[w].redelivered
    /\ pc[w] \in {"gate", "unsized", "claim"} /\ ~seen[w].redelivered => ~ExtractingFor(Task(w))
Accounts == Covered /\ Uncounted /\ Witnessed

\* A worker goes on only by a step of its own.
LEMMA WorkerStep ==
  ASSUME RowTypes, RunTypes, Next, NEW v \in Workers
  PROVE  \/ pc'[v] = pc[v] /\ job'[v] = job[v] /\ seen'[v] = seen[v]
         \/ Run(v) \/ Die(v) \/ \E m \in Messages : Take(v, m)
<1>0. pc \in [Workers -> Positions] /\ seen \in [Workers -> Snapshot] /\ job \in [Workers -> Messages \cup {None}]
  BY DEF RowTypes, SourcesTypeOK, RunTypes
<1> DEFINE Still == pc'[v] = pc[v] /\ job'[v] = job[v] /\ seen'[v] = seen[v]
<1>1. ASSUME NEW w \in Workers, w # v, Run(w) PROVE Still
  <2>1. CASE Finally(w)
    BY <1>0, <1>1, <2>1 DEF Finally, Return, Vanish
  <2>2. CASE Start(w)
    BY <1>0, <1>1, <2>2 DEF Start, Goto
  <2>3. CASE Claim(w)
    BY <1>0, <1>1, <2>3 DEF Claim, Goto
  <2>4. CASE \/ Defer(w) \/ Admit(w) \/ Count(w) \/ Begin(w) \/ Extract(w) \/ ExtractFails(w) \/ CheckOwned(w)
             \/ Store(w) \/ Write(w) \/ Prune(w) \/ Retry(w) \/ Fail(w)
    <3>1. seen' = seen
      BY <2>4 DEF Defer, Admit, Count, Begin, Extract, ExtractFails, CheckOwned, Store, Write, Prune, Retry, Fail, localVars
    <3>2. \E to \in Positions : Goto(w, to)
      BY <2>4 DEF Defer, Admit, Count, Begin, Extract, ExtractFails, CheckOwned, Store, Write, Prune, Retry, Fail, Positions, Body
    <3> QED BY <1>0, <1>1, <3>1, <3>2 DEF Goto
  <2> QED BY <1>1, <2>1, <2>2, <2>3, <2>4 DEF Run
<1>2. ASSUME NEW w \in Workers, w # v, Die(w) \/ \E m \in Messages : Take(w, m) PROVE Still
  BY <1>0, <1>2 DEF Die, Kill, Vanish, Take, Fetch, ExtractionAlone, localVars
<1>3. ASSUME \/ Cancel \/ Delete \/ \E t \in Tasks : Request(t) \/ Recover(t)
             \/ \E m \in Messages : Deliver(m) \/ LoseWaiting(m)
             \/ \E w \in Workers : Lapse(w) \/ RedeliverLive(w)
      PROVE  Still
  BY <1>3 DEF Cancel, CancelBegin, CancelEnd, Delete, Request, Upload, Reextract, Send, SendFails, WorkersAlone, Recover,
              Deliver, Redeliver, LoseWaiting, Lapse, RedeliverLive, RunsAlone, ExtractionAlone, localVars
<1> QED BY <1>1, <1>2, <1>3 DEF Next

\* Only a claim makes the row say that a task extracts.
LEMMA ExtractingStep ==
  ASSUME RowTypes, Next, NEW t \in Tasks, ExtractingFor(t)'
  PROVE  \/ ExtractingFor(t)
         \/ \E w \in Workers : Claim(w) /\ Task(w) = t /\ MayWrite(t)
<1>1. CASE UNCHANGED rowVars
  BY <1>1 DEF ExtractingFor, rowVars
<1>2. ASSUME NEW w \in Workers, Run(w), ~UNCHANGED rowVars
      PROVE  \/ ExtractingFor(t)
             \/ \E v \in Workers : Claim(v) /\ Task(v) = t /\ MayWrite(t)
  <2>1. CASE Claim(w)
    BY <2>1 DEF Claim, SetStatus, ExtractingFor, MayWrite
  <2>2. CASE Retry(w) \/ Fail(w)
    BY <2>2 DEF Retry, Fail, SetStatus, ExtractingFor
  <2>3. CASE Write(w)
    BY <2>3 DEF Write, ExtractingFor
  <2>4. ASSUME \/ Start(w) \/ Defer(w) \/ Admit(w) \/ Count(w) \/ Begin(w) \/ Extract(w) \/ ExtractFails(w)
               \/ CheckOwned(w) \/ Store(w) \/ Prune(w) \/ Finally(w)
        PROVE  UNCHANGED rowVars
    BY <2>4 DEF Start, Defer, Admit, Count, Begin, Extract, ExtractFails, CheckOwned, Store, Prune, Finally, Return
  <2> QED BY <1>2, <2>1, <2>2, <2>3, <2>4 DEF Run
<1>3. ASSUME NEW u \in Tasks, Request(u) PROVE ExtractingFor(t)
  BY <1>3 DEF Request, Upload, Reextract, Send, SendFails, ExtractingFor, rowVars
<1>4. ASSUME Cancel \/ Delete PROVE ExtractingFor(t)
  BY <1>4 DEF Cancel, CancelBegin, CancelEnd, Delete, ExtractingFor, rowVars
<1>5. ASSUME \/ \E w \in Workers : Die(w) \/ Lapse(w) \/ RedeliverLive(w) \/ \E m \in Messages : Take(w, m)
             \/ \E m \in Messages : Deliver(m) \/ LoseWaiting(m)
             \/ \E u \in Tasks : Recover(u)
      PROVE  UNCHANGED rowVars
  BY <1>5 DEF Die, Kill, Lapse, RedeliverLive, Take, Fetch, Deliver, Redeliver, LoseWaiting, Recover, RunsAlone
<1> QED BY <1>1, <1>2, <1>3, <1>4, <1>5 DEF Next

\* Deaths are never forgotten.
LEMMA DeathsGrow ==
  ASSUME RowTypes, RunTypes, Next
  PROVE  /\ \A t \in Tasks : deaths[t] \in Nat /\ deaths'[t] \in Nat /\ deaths'[t] >= deaths[t]
         /\ \A w \in Workers : Die(w) /\ Claimed(w) => deaths'[Task(w)] = deaths[Task(w)] + 1
<1>1. deaths \in [Tasks -> 0..MaxMishaps]
  BY DEF RunTypes
<1>0. \A t \in Tasks : deaths[t] \in Nat
  BY <1>1, Bounds
<1>2. ASSUME NEW w \in Workers, Die(w)
      PROVE  /\ Task(w) \in Tasks
             /\ deaths' = [deaths EXCEPT ![Task(w)] = IF Claimed(w) THEN deaths[Task(w)] + 1 ELSE deaths[Task(w)]]
  <2>1. Task(w) \in Tasks
    BY <1>2, JobTypes DEF Die, Kill
  <2> QED BY <1>1, <1>2, <2>1 DEF Die
<1>3. CASE \E w \in Workers : Die(w)
  BY <1>0, <1>1, <1>2, <1>3
<1>4. ASSUME ~\E w \in Workers : Die(w) PROVE deaths' = deaths
  <2>1. ASSUME NEW w \in Workers, Run(w) PROVE deaths' = deaths
    BY <2>1 DEF Run, Start, Defer, Admit, Count, Claim, Begin, Extract, ExtractFails, CheckOwned, Store, Write, Prune, Retry, Fail, Finally
  <2>2. ASSUME \/ Cancel \/ Delete \/ \E t \in Tasks : Request(t) \/ Recover(t)
               \/ \E m \in Messages : Deliver(m) \/ LoseWaiting(m)
               \/ \E w \in Workers : Lapse(w) \/ RedeliverLive(w) \/ \E m \in Messages : Take(w, m)
        PROVE  deaths' = deaths
    BY <2>2 DEF Cancel, Delete, Request, Recover, Deliver, LoseWaiting, Lapse, RedeliverLive, Take, RunsAlone, ExtractionAlone
  <2> QED BY <1>4, <2>1, <2>2 DEF Next
<1> QED BY <1>0, <1>2, <1>3, <1>4

\* The counts grow only when a run counts, and then to what it saw and one more.
LEMMA AccountStep ==
  ASSUME RowTypes, RunTypes, Witnessed, Next, NEW t \in Tasks
  PROVE  /\ Account(t) \in Nat /\ Account(t)' \in Nat
         /\ \/ Account(t)' <= Account(t)
            \/ \E w \in Workers : Count(w) /\ Task(w) = t /\ Account(t)' <= deaths[t]
<1>0. charged \in Nat /\ spared \in Nat /\ None \notin Tasks /\ seen \in [Workers -> Snapshot]
  BY SourcesAssumption DEF RunTypes, SourcesAssumption
<1>1. Account(t) \in Nat
  BY <1>0 DEF Account
<1>2. CASE UNCHANGED recordVars
  BY <1>1, <1>2 DEF Account, recordVars
<1>3. ASSUME NEW w \in Workers, Write(w), ~UNCHANGED recordVars PROVE Account(t)' = 0
  BY <1>0, <1>3 DEF Write, Account
<1>4. ASSUME NEW w \in Workers, Count(w), ~UNCHANGED recordVars
      PROVE  /\ Account(t)' \in Nat
             /\ \/ Account(t)' <= Account(t)
                \/ Task(w) = t /\ Account(t)' <= deaths[t]
  <2> DEFINE known == seen[w].marker = Task(w)
             c(plausible) == (IF known THEN seen[w].charged ELSE 0) + (IF plausible THEN 1 ELSE 0)
             s(plausible) == (IF known THEN seen[w].spared ELSE 0) + (IF plausible THEN 0 ELSE 1)
  <2>1. Task(w) \in Tasks /\ pc[w] = "count"
    BY <1>4, JobTypes DEF Count
  <2>2. seen[w].charged \in Nat /\ seen[w].spared \in Nat
    BY <1>0 DEF Snapshot
  <2>3. SeenAccount(w) < deaths[Task(w)] /\ deaths[Task(w)] \in Nat
    <3>1. deaths[Task(w)] \in 0..MaxMishaps
      BY <2>1 DEF RunTypes
    <3> QED BY <2>1, <3>1, Bounds DEF Witnessed
  <2>4. \A plausible \in BOOLEAN : /\ c(plausible) \in Nat /\ s(plausible) \in Nat
                                   /\ c(plausible) + s(plausible) = SeenAccount(w) + 1
    BY <2>2 DEF SeenAccount
  <2>5. SeenAccount(w) \in Nat
    BY <2>2 DEF SeenAccount
  <2> HIDE DEF known, c, s
  <2>6. \E plausible \in BOOLEAN : marker' = Task(w) /\ charged' = c(plausible) /\ spared' = s(plausible)
    BY <1>4 DEF Count, known, c, s
  <2>7. marker' = Task(w) /\ charged' + spared' = SeenAccount(w) + 1
    BY <2>4, <2>6
  <2>8. CASE Task(w) = t
    BY <2>3, <2>5, <2>7, <2>8 DEF Account
  <2>9. CASE Task(w) # t
    <3>1. Account(t)' = 0
      BY <2>7, <2>9 DEF Account
    <3> QED BY <1>1, <3>1
  <2> QED BY <2>8, <2>9
<1>5. ASSUME NEW w \in Workers, Run(w), ~Count(w), ~Write(w) PROVE UNCHANGED recordVars
  BY <1>5 DEF Run, Start, Defer, Admit, Claim, Begin, Extract, ExtractFails, CheckOwned, Store, Prune, Retry, Fail, Finally
<1>6. ASSUME \/ Cancel \/ Delete \/ \E u \in Tasks : Request(u) \/ Recover(u)
             \/ \E m \in Messages : Deliver(m) \/ LoseWaiting(m)
             \/ \E w \in Workers : Die(w) \/ Lapse(w) \/ RedeliverLive(w) \/ \E m \in Messages : Take(w, m)
      PROVE  UNCHANGED recordVars
  BY <1>6 DEF Cancel, Delete, Request, Recover, Deliver, LoseWaiting, Die, Lapse, RedeliverLive, Take, RunsAlone, ExtractionAlone
<1> QED BY <1>1, <1>2, <1>3, <1>4, <1>5, <1>6 DEF Next

\* A run stops extracting by a death, or the row stops saying so.
LEMMA ClaimedStep ==
  ASSUME RowTypes, RunTypes, Next, NEW w \in Workers, Claimed(w), NEW t, t = Task(w), ExtractingFor(t), ExtractingFor(t)'
  PROVE  Die(w) \/ (Claimed(w)' /\ Task(w)' = t)
<1>0. pc \in [Workers -> Positions] /\ seen \in [Workers -> Snapshot] /\ job \in [Workers -> Messages \cup {None}]
  BY DEF RowTypes, SourcesTypeOK, RunTypes
<1>1. t \in Tasks /\ Exists /\ MayWrite(t)
  BY JobTypes DEF Claimed, Body, ExtractingFor, Exists, MayWrite
<1>2. CASE pc'[w] = pc[w] /\ job'[w] = job[w] /\ seen'[w] = seen[w]
  BY <1>2 DEF Claimed, Task
<1>3. CASE \E m \in Messages : Take(w, m)
  BY <1>3 DEF Take, Fetch, Claimed, Body
\* The positions a run that has claimed goes on to.
<1>4. ASSUME NEW to \in Body \cup {"retry", "fail"}, Goto(w, to) PROVE Claimed(w)' /\ Task(w)' = t
  BY <1>0, <1>4 DEF Goto, Claimed, Task
<1>5. CASE Run(w)
  <2>1. CASE Claim(w)
    BY <1>1, <1>4, <2>1 DEF Claim, Body
  <2>2. CASE Begin(w) \/ Extract(w) \/ ExtractFails(w)
    BY <1>4, <2>2 DEF Begin, Extract, ExtractFails, Body
  <2>3. CASE CheckOwned(w)
    BY <1>1, <1>4, <2>3 DEF CheckOwned, Body
  <2>4. CASE Store(w)
    BY <1>4, <2>4 DEF Store, Body
  <2>5. CASE Write(w)
    BY <1>1, <2>5 DEF Write, ExtractingFor
  <2>6. CASE Retry(w) \/ Fail(w)
    BY <1>1, <2>6 DEF Retry, Fail, SetStatus, ExtractingFor
  <2>7. CASE Start(w) \/ Defer(w) \/ Admit(w) \/ Count(w) \/ Prune(w) \/ Finally(w)
    BY <2>7 DEF Start, Defer, Admit, Count, Prune, Finally, Claimed, Body
  <2> QED BY <1>5, <2>1, <2>2, <2>3, <2>4, <2>5, <2>6, <2>7 DEF Run
<1>6. \/ pc'[w] = pc[w] /\ job'[w] = job[w] /\ seen'[w] = seen[w]
      \/ Run(w) \/ Die(w) \/ \E m \in Messages : Take(w, m)
  BY WorkerStep
<1> QED BY <1>2, <1>3, <1>5, <1>6

\* A run that may die uncounted has its task's message to itself.
LEMMA ClaimedHolds ==
  ASSUME NEW w \in Workers, Claimed(w)
  PROVE  Holding(w)
  BY DEF Claimed, Holding, Body

LEMMA UncountedStep ==
  ASSUME RowTypes, RunTypes, Single, Accounts, SoloNext, NEW t \in Tasks, ExtractingFor(t)',
         \A w \in Workers : Claimed(w)' => Task(w)' # t
  PROVE  Account(t)' < deaths'[t]
<1>0. Next /\ pc \in [Workers -> Positions] /\ job \in [Workers -> Messages \cup {None}] /\ seen \in [Workers -> Snapshot]
  BY DEF SoloNext, RowTypes, SourcesTypeOK, RunTypes
<1>1. deaths[t] \in Nat /\ deaths'[t] \in Nat /\ deaths'[t] >= deaths[t]
  BY <1>0, DeathsGrow
<1>2. Account(t) \in Nat /\ Account(t)' \in Nat
  BY <1>0, AccountStep DEF Accounts
\* Whoever counts for the task has claimed by that.
<1>3. ASSUME NEW w \in Workers, Count(w), Task(w) = t PROVE FALSE
  <2>1. PICK to \in {"claim", "fail"} : Goto(w, to)
    BY <1>3 DEF Count
  <2>2. pc'[w] = to /\ job'[w] = job[w] /\ seen'[w] = seen[w] /\ seen[w].redelivered
    BY <1>0, <1>3, <2>1 DEF Goto, Count, Accounts, Witnessed, localVars
  <2> QED BY <1>3, <2>1, <2>2 DEF Claimed, Task
<1>4. Account(t)' <= Account(t)
  <2>1. \/ Account(t)' <= Account(t)
        \/ \E w \in Workers : Count(w) /\ Task(w) = t /\ Account(t)' <= deaths[t]
    BY <1>0, AccountStep DEF Accounts
  <2> QED BY <1>3, <2>1
<1>5. ASSUME ~ExtractingFor(t) PROVE FALSE
  <2>1. PICK w \in Workers : Claim(w) /\ Task(w) = t /\ MayWrite(t)
    BY <1>0, <1>5, ExtractingStep
  <2>2. pc'[w] = "begin" /\ job'[w] = job[w]
    BY <1>0, <2>1 DEF Claim, Goto
  <2> QED BY <2>1, <2>2 DEF Claimed, Body, Task
<1>6. CASE \A w \in Workers : Claimed(w) => Task(w) # t
  <2>1. Account(t) < deaths[t]
    BY <1>5, <1>6 DEF Accounts, Uncounted
  <2> QED BY <1>1, <1>2, <1>4, <2>1
<1>7. ASSUME NEW w \in Workers, Claimed(w), Task(w) = t PROVE Account(t)' < deaths'[t]
  <2>1. Die(w)
    BY <1>0, <1>5, <1>7, ClaimedStep
  <2>2. deaths'[t] = deaths[t] + 1
    BY <1>0, <1>7, <2>1, DeathsGrow
  <2>3. Account(t) <= deaths[t]
    BY DEF Accounts, Covered
  <2> QED BY <1>1, <1>2, <1>4, <2>2, <2>3
<1> QED BY <1>6, <1>7

LEMMA WitnessedStep ==
  ASSUME RowTypes, RunTypes, Single, Accounts, SoloNext, NEW w \in Workers
  PROVE  /\ (pc'[w] \in {"gate", "unsized", "count"} /\ seen'[w].redelivered) => SeenAccount(w)' < deaths'[Task(w)']
         /\ pc'[w] = "count" => seen'[w].redelivered
         /\ (pc'[w] \in {"gate", "unsized", "claim"} /\ ~seen'[w].redelivered) => ~ExtractingFor(Task(w))'
<1>0. Next /\ pc \in [Workers -> Positions] /\ job \in [Workers -> Messages \cup {None}] /\ seen \in [Workers -> Snapshot]
  BY DEF SoloNext, RowTypes, SourcesTypeOK, RunTypes
<1> DEFINE Early == {"gate", "unsized", "count", "claim"}
           Goal == /\ (pc'[w] \in {"gate", "unsized", "count"} /\ seen'[w].redelivered) => SeenAccount(w)' < deaths'[Task(w)']
                   /\ pc'[w] = "count" => seen'[w].redelivered
                   /\ (pc'[w] \in {"gate", "unsized", "claim"} /\ ~seen'[w].redelivered) => ~ExtractingFor(Task(w))'
<1>1. CASE pc'[w] \notin Early
  BY <1>1
\* A run on its way to its claim: another's claim cannot be for its task.
<1>2. ASSUME pc[w] # "idle", pc[w] \in Early, pc'[w] \in Early, job'[w] = job[w], ExtractingFor(Task(w))'
      PROVE  ExtractingFor(Task(w))
  <2>1. Task(w) \in Tasks /\ Task(w)' = Task(w)
    BY <1>2, JobTypes DEF Task
  <2>2. ASSUME NEW v \in Workers, Claim(v), Task(v) = Task(w) PROVE FALSE
    <3>1. Holding(v) /\ Holding(w)
      BY <1>2, <2>2 DEF Claim, Holding
    <3>2. v = w
      BY <2>2, <3>1 DEF Single
    <3>3. pc'[w] = "begin" \/ pc'[w] = "return"
      BY <1>0, <2>2, <3>2 DEF Claim, Goto
    <3> QED BY <1>2, <3>3
  <2>3. ASSUME NEW t, t = Task(w) PROVE ExtractingFor(t)
    <3>1. ExtractingFor(t)'
      BY <1>2, <2>1, <2>3 DEF ExtractingFor
    <3> QED BY <1>0, <2>1, <2>2, <2>3, <3>1, ExtractingStep
  <2> QED BY <2>3
\* A run that keeps what it read.
<1>3. ASSUME pc[w] \in Early, job'[w] = job[w], seen'[w] = seen[w],
             pc'[w] \in {"gate", "unsized", "count"} => pc[w] \in {"gate", "unsized", "count"},
             pc'[w] = "count" => seen[w].redelivered,
             pc'[w] \in {"gate", "unsized", "claim"} => pc[w] \in {"gate", "unsized", "claim"} \/ seen[w].redelivered,
             pc'[w] \in Early
      PROVE  Goal
  <2>1. Task(w) \in Tasks /\ Task(w)' = Task(w)
    BY <1>3, JobTypes DEF Task
  <2>2. deaths[Task(w)] \in Nat /\ deaths'[Task(w)] \in Nat /\ deaths'[Task(w)] >= deaths[Task(w)]
    BY <1>0, <2>1, DeathsGrow
  <2>3. SeenAccount(w)' = SeenAccount(w) /\ SeenAccount(w) \in Nat
    BY <1>0, <1>3, <2>1 DEF SeenAccount, Snapshot
  <2>4. (pc'[w] \in {"gate", "unsized", "count"} /\ seen'[w].redelivered) => SeenAccount(w)' < deaths'[Task(w)']
    BY <1>3, <2>1, <2>2, <2>3 DEF Accounts, Witnessed
  <2>5. (pc'[w] \in {"gate", "unsized", "claim"} /\ ~seen'[w].redelivered) => ~ExtractingFor(Task(w))'
    BY <1>2, <1>3 DEF Accounts, Witnessed
  <2> QED BY <1>3, <2>4, <2>5
<1>4. CASE pc'[w] = pc[w] /\ job'[w] = job[w] /\ seen'[w] = seen[w]
  BY <1>1, <1>3, <1>4 DEF Accounts, Witnessed
<1>5. CASE Start(w)
  <2>1. Task(w) \in Tasks
    BY <1>5, JobTypes DEF Start
  <2>2. /\ seen'[w] = [listed |-> listed, marker |-> marker, charged |-> charged, spared |-> spared,
                       redelivered |-> status = "extracting" /\ owner = Task(w)]
        /\ UNCHANGED rowVars /\ deaths' = deaths
    BY <1>0, <1>5 DEF Start
  <2>3. job' = job /\ (pc'[w] \in {"gate", "unsized", "return"})
    BY <1>0, <1>5 DEF Start, Goto
  <2>4. Task(w)' = Task(w)
    BY <2>3 DEF Task
  <2>5. SeenAccount(w)' = Account(Task(w))
    BY <2>2, <2>4 DEF SeenAccount, Account
  <2>6. seen'[w].redelivered <=> ExtractingFor(Task(w))
    <3>1. seen'[w].redelivered = (status = "extracting" /\ owner = Task(w))
      BY <2>2
    <3> QED BY <3>1 DEF ExtractingFor
  <2>7. ASSUME ExtractingFor(Task(w)) PROVE Account(Task(w)) < deaths[Task(w)]
    <3>1. Holding(w) /\ ~Claimed(w)
      BY <1>5 DEF Start, Holding, Claimed, Body
    <3>2. \A v \in Workers : Claimed(v) => Task(v) # Task(w)
      BY <3>1, ClaimedHolds DEF Single
    <3> QED BY <2>1, <2>7, <3>2 DEF Accounts, Uncounted
  <2>8. ExtractingFor(Task(w))' <=> ExtractingFor(Task(w))
    BY <2>2, <2>4 DEF ExtractingFor, rowVars
  <2> QED BY <2>2, <2>3, <2>4, <2>5, <2>6, <2>7, <2>8
<1>6. CASE Admit(w)
  <2>1. seen' = seen /\ job' = job /\ pc[w] = "gate" /\ pc'[w] = (IF seen[w].redelivered THEN "count" ELSE "claim")
    BY <1>0, <1>6 DEF Admit, Goto, localVars
  <2> QED BY <1>3, <2>1
<1>7. CASE Count(w)
  <2>1. seen' = seen /\ job' = job /\ pc[w] = "count" /\ (pc'[w] \in {"claim", "fail"}) /\ seen[w].redelivered
    BY <1>0, <1>7 DEF Count, Goto, localVars, Accounts, Witnessed
  <2> QED BY <1>1, <1>3, <2>1
<1>8. CASE \/ Defer(w) \/ Claim(w) \/ Begin(w) \/ Extract(w) \/ ExtractFails(w) \/ CheckOwned(w) \/ Store(w)
           \/ Write(w) \/ Prune(w) \/ Retry(w) \/ Fail(w)
  <2>1. \E to \in Positions \ Early : Goto(w, to)
    BY <1>8 DEF Defer, Claim, Begin, Extract, ExtractFails, CheckOwned, Store, Write, Prune, Retry, Fail, Positions, Body
  <2> QED BY <1>0, <1>1, <2>1 DEF Goto
<1>9. CASE Finally(w)
  BY <1>0, <1>1, <1>9 DEF Finally, Return
<1>10. CASE Die(w)
  BY <1>0, <1>1, <1>10 DEF Die, Kill
<1>11. ASSUME NEW m \in Messages, Take(w, m) PROVE Goal
  <2>1. pc'[w] = "idle" \/ pc'[w] = "start"
    BY <1>0, <1>11 DEF Take, Fetch
  <2> QED BY <1>1, <2>1
<1>12. \/ pc'[w] = pc[w] /\ job'[w] = job[w] /\ seen'[w] = seen[w]
       \/ Run(w) \/ Die(w) \/ \E m \in Messages : Take(w, m)
  BY <1>0, WorkerStep
<1> QED BY <1>4, <1>5, <1>6, <1>7, <1>8, <1>9, <1>10, <1>11, <1>12 DEF Run

LEMMA AccountsInvariant ==
  ASSUME ~Overdue, ~LiveRedelivery
  PROVE  SoloSpec => []Accounts
<1>1. Init => Accounts
  <2> SUFFICES ASSUME Init PROVE Accounts
    OBVIOUS
  <2>1. \A t \in Tasks : Account(t) = 0 /\ deaths[t] = 0 /\ ~ExtractingFor(t)
    BY SourcesAssumption DEF SourcesAssumption, Init, SourcesInit, Account, ExtractingFor
  <2> QED BY <2>1 DEF Init, SourcesInit, Accounts, Covered, Uncounted, Witnessed
<1>2. RowTypes /\ RunTypes /\ Single /\ Accounts /\ [SoloNext]_vars => Accounts'
  <2> SUFFICES ASSUME RowTypes, RunTypes, Single, Accounts, [SoloNext]_vars PROVE Accounts'
    OBVIOUS
  <2>1. CASE UNCHANGED vars
    BY <2>1 DEF vars, sourceVars, rowVars, recordVars, localVars, Accounts, Covered, Uncounted, Witnessed, Account, SeenAccount,
                ExtractingFor, Claimed, Task
  <2>2. CASE SoloNext
    <3>1. ASSUME NEW t \in Tasks PROVE Account(t)' <= deaths'[t]
      <4>1. /\ Account(t) \in Nat /\ Account(t)' \in Nat
            /\ \/ Account(t)' <= Account(t)
               \/ Account(t)' <= deaths[t]
        BY <2>2, AccountStep DEF SoloNext, Accounts
      <4>2. deaths[t] \in Nat /\ deaths'[t] \in Nat /\ deaths'[t] >= deaths[t]
        BY <2>2, DeathsGrow DEF SoloNext
      <4>3. Account(t) <= deaths[t]
        BY DEF Accounts, Covered
      <4> QED BY <4>1, <4>2, <4>3
    <3>2. Covered'
      BY <3>1 DEF Covered
    <3>3. Uncounted'
      BY <2>2, UncountedStep DEF Uncounted
    <3>4. Witnessed'
      BY <2>2, WitnessedStep DEF Witnessed
    <3> QED BY <3>2, <3>3, <3>4 DEF Accounts
  <2> QED BY <2>1, <2>2
<1> QED BY <1>1, <1>2, SoloTypes, SoloInvariant, PTL DEF SoloSpec

LEMMA SoloNoFalseCharge ==
  ASSUME ~Overdue, ~LiveRedelivery
  PROVE  SoloSpec => []NoFalseCharge
<1>1. RunTypes /\ Accounts => NoFalseCharge
  BY DEF RunTypes, Accounts, Covered, Account, NoFalseCharge
<1> QED BY <1>1, AccountsInvariant, SoloTypes, PTL

\* A task is never charged for more deaths than it has died, where files are small
\* and nothing is retried: no death is counted twice and no living run is charged.
THEOREM OnlyDeathsAreCharged ==
  ASSUME ~Large, MaxRetries = 0, ~Overdue, ~LiveRedelivery
  PROVE  Spec => []NoFalseCharge
<1>1. [Next]_vars => [SoloNext]_vars
  BY DEF SoloNext, Resends
<1>2. Spec => SoloSpec
  BY <1>1, PTL DEF SoloSpec, Spec
<1> QED BY <1>2, SoloNoFalseCharge, PTL

\* While no worker dies nothing is charged that did not die, with retries and with slots.
THEOREM NothingChargedQuietly ==
  ASSUME ~Overdue, ~LiveRedelivery
  PROVE  QuietSpec => []NoFalseCharge
<1>1. [Next /\ UNCHANGED lost]_vars => [SoloNext]_vars
  BY DEF SoloNext
<1>2. QuietSpec => SoloSpec
  BY <1>1, PTL DEF SoloSpec, QuietSpec
<1> QED BY <1>2, SoloNoFalseCharge, PTL

\* What extract_source infers is then true: a run that counts a death, because it
\* found the row extracting for its own task, has no living run of the task beside it.
THEOREM ExtractingMeantDeath ==
  ASSUME ~Large, MaxRetries = 0, ~Overdue, ~LiveRedelivery
  PROVE  Spec => []ExtractingMeansDied
<1>1. [Next]_vars => [SoloNext]_vars
  BY DEF SoloNext, Resends
<1>2. Spec => SoloSpec
  BY <1>1, PTL DEF SoloSpec, Spec
<1>3. Single => ExtractingMeansDied
  BY DEF Single, ExtractingMeansDied, Holding, Body
<1> QED BY <1>2, <1>3, SoloInvariant, PTL
=============================================================================
