--------------------------- MODULE IndexesProofs ---------------------------
(* Theorems about the indexes of a knowledge base, for any number of tasks,
   threads, knowledge bases, sources and faults: each component as KnowledgeBases
   instantiates it. *)
EXTENDS KnowledgeBases, FiniteSetTheorems, TLAPS

-----------------------------------------------------------------------------
(* The pg_search index: what each task goes by at each place of its way, and who
   answers for an INVALID index. *)

KTasks == [kind : {"none", "ensure", "drop"}, at : KI!Steps, move : BOOLEAN, todo : SUBSET Tables, table : Tables, lang : Langs,
           retries : 0..KeywordRetries]
Parts == {"empty", "default", "attached", "complete"}
IndexRows == [lang : Langs, state : {"absent", "invalid", "ready"}]
Outcomes == {"none", "queued", "moving", "building", "completing", "ready", "retrying", "failed", "needs_build", "unavailable"}
Configs == [table : Tables, keyword : BOOLEAN, lang : Langs]
KeywordWorld == config \in Configs /\ outcome \in [Tables -> Outcomes] /\ safe \in BOOLEAN
KeywordTypes == kpart \in [Tables -> Parts] /\ kindex \in [Tables -> IndexRows] /\ ktask \in [Threads -> KTasks]
\* The index lock of the table of r.
IndexHeld(r) == r.at \in {"read", "replace", "build", "building", "complete"}
OneLock == \A k, o \in Threads : IndexHeld(ktask[k]) /\ IndexHeld(ktask[o]) /\ ktask[k].table = ktask[o].table => k = o
OnPartition(p) == p \in {"attached", "complete"}
\* What a task r goes by, of the index i and the partition p of its table.
KeywordSound(r, i, p) == /\ r.at \notin {"idle", "queued"} => r.kind = "ensure" \/ (r.kind = "drop" /\ r.at = "drop")
                         /\ r.at = "drop" /\ r.kind = "ensure" => r.table \notin r.todo
                         /\ r.at = "lock" \/ IndexHeld(r) => OnPartition(p)
                         /\ r.at \in {"replace", "build", "building"} => safe
                         /\ r.at = "replace" => i # KI!IndexOf(r.lang, "ready")
                         /\ r.at = "build" => i.state = "absent"
                         /\ r.at = "complete" => i.state # "invalid"
KeywordMemory == \A k \in Threads : KeywordSound(ktask[k], kindex[ktask[k].table], kpart[ktask[k].table])
Placed == \A t \in Tables : kindex[t].state # "absent" => OnPartition(kpart[t]) /\ safe
\* A task that will come to the index of t.
Answers(r, t) == \/ r.at = "queued"
                 \/ r.kind = "drop" /\ r.at = "drop" /\ t \in r.todo
                 \/ r.kind = "ensure" /\ r.table = t /\ r.at \in KI!Steps \ {"idle", "queued", "complete"}
Owned == \A t \in Tables : kindex[t].state = "invalid" => \/ (\E k \in Threads : Answers(ktask[k], t)) \/ outcome[t] = "failed"
                                                          \/ ~config.keyword \/ config.table # t
KeywordInv == KeywordWorld /\ KeywordTypes /\ OneLock /\ KeywordMemory /\ Placed /\ Owned
KeywordBounds == KeywordRetries \in Nat /\ Langs # {}

\* A slot that runs nothing.
LEMMA IdleIs == ASSUME KeywordBounds, Tables # {}
                PROVE  KI!Idle \in KTasks /\ KI!Idle.at = "idle" /\ KI!Idle.kind = "none"
<1>1. (CHOOSE l \in Langs : TRUE) \in Langs /\ (CHOOSE t \in Tables : TRUE) \in Tables BY DEF KeywordBounds
<1> QED BY <1>1 DEF KI!Idle, KTasks, KI!Steps, KeywordBounds

\* A task that was dispatched, for the first time or again.
LEMMA QueuedIs == ASSUME KeywordBounds, Tables # {}, NEW kind \in {"ensure", "drop"}, NEW move \in BOOLEAN, NEW num \in 0..KeywordRetries
                  PROVE  LET r == [KI!Queued(kind, move) EXCEPT !.retries = num]
                         IN  /\ r \in KTasks /\ r.at = "queued" /\ r.kind = kind
                             /\ KI!Queued(kind, move) \in KTasks /\ KI!Queued(kind, move).at = "queued" /\ KI!Queued(kind, move).kind = kind
BY IdleIs DEF KI!Queued, KTasks, KI!Steps

\* A task that goes on is the task it was.
LEMMA GoingIs == ASSUME NEW r \in KTasks, NEW x \in KI!Steps
                 PROVE  LET g == [r EXCEPT !.at = x]
                        IN  g \in KTasks /\ g.at = x /\ g.kind = r.kind /\ g.table = r.table /\ g.lang = r.lang /\ g.todo = r.todo /\ g.move = r.move
BY DEF KTasks

\* What a task has, by its parts.
LEMMA TaskIs == \A r \in KTasks : /\ r.kind \in {"none", "ensure", "drop"} /\ r.at \in KI!Steps /\ r.move \in BOOLEAN /\ r.todo \in SUBSET Tables
                                  /\ r.table \in Tables /\ r.lang \in Langs /\ r.retries \in 0..KeywordRetries
BY DEF KTasks

\* One task takes a step; what it leaves of the index of a table u, and where it is then.
LEMMA TaskStep ==
    ASSUME KeywordTypes, OneLock, KeywordMemory, Placed, NEW k \in Threads, NEW r \in KTasks, NEW u \in Tables, ktask' = [ktask EXCEPT ![k] = r], safe' = safe,
           kindex' \in [Tables -> IndexRows], kpart' \in [Tables -> Parts],
           \A t \in Tables : t # u => kindex'[t] = kindex[t],
           \A t \in Tables : OnPartition(kpart[t]) => OnPartition(kpart'[t]),
           kindex'[u] = kindex[u] \/ kindex'[u].state = "absent" \/ (IndexHeld(ktask[k]) /\ ktask[k].table = u),
           kindex'[u].state # "absent" => OnPartition(kpart'[u]) /\ safe,
           IndexHeld(r) => (IndexHeld(ktask[k]) /\ ktask[k].table = r.table) \/ ~KI!IndexLocked(r.table),
           KeywordSound(r, kindex'[r.table], kpart'[r.table])
    PROVE  KeywordTypes' /\ OneLock' /\ KeywordMemory' /\ Placed'
<1>1. ktask' \in [Threads -> KTasks] /\ ktask'[k] = r /\ \A o \in Threads : o # k => ktask'[o] = ktask[o]
  <2>1. ktask \in [Threads -> KTasks] BY DEF KeywordTypes
  <2>2. ktask' \in [Threads -> KTasks] BY <2>1
  <2>3. ktask'[k] = r BY <2>1
  <2> QED BY <2>1, <2>2, <2>3
<1>2. \A o \in Threads : ktask[o].table \in Tables BY TaskIs DEF KeywordTypes
<1>3. KeywordTypes' BY <1>1 DEF KeywordTypes
<1>4. \A o \in Threads : IndexHeld(ktask[o]) => KI!IndexLocked(ktask[o].table) BY DEF IndexHeld, KI!IndexLocked
<1>5. OneLock'
  <2> SUFFICES ASSUME NEW a \in Threads, NEW b \in Threads, IndexHeld(ktask'[a]), IndexHeld(ktask'[b]), ktask'[a].table = ktask'[b].table, a # b PROVE FALSE
    BY DEF OneLock, IndexHeld
  <2>1. CASE a # k /\ b # k BY <1>1, <2>1 DEF OneLock
  <2>2. CASE a = k BY <1>1, <1>4, <2>2 DEF OneLock
  <2>3. CASE b = k BY <1>1, <1>4, <2>3 DEF OneLock
  <2> QED BY <2>1, <2>2, <2>3
<1>6. KeywordMemory'
  <2> SUFFICES ASSUME NEW o \in Threads PROVE KeywordSound(ktask'[o], kindex'[ktask'[o].table], kpart'[ktask'[o].table]) BY <1>1 DEF KeywordMemory, KeywordSound, IndexHeld, OnPartition
  <2>1. CASE o = k BY <1>1, <2>1 DEF KeywordSound, IndexHeld, OnPartition
  <2>2. CASE o # k
    <3> DEFINE t == ktask[o].table
    <3>1. ktask'[o] = ktask[o] /\ KeywordSound(ktask[o], kindex[t], kpart[t]) /\ t \in Tables BY <1>1, <1>2, <2>2 DEF KeywordMemory
    <3>2. OnPartition(kpart[t]) => OnPartition(kpart'[t]) BY <3>1
    <3>3. \/ kindex'[t] = kindex[t] \/ kindex'[t].state = "absent" \/ ~IndexHeld(ktask[o])
      BY <2>2, <3>1 DEF OneLock
    <3> HIDE DEF t
    <3>4. \A l : KI!IndexOf(l, "ready").state # "absent" BY DEF KI!IndexOf
    <3>5. KeywordSound(ktask[o], kindex'[t], kpart'[t]) BY <3>1, <3>2, <3>3, <3>4 DEF KeywordSound, IndexHeld
    <3>6. ktask'[o].table = t BY <3>1 DEF t
    <3> QED BY <3>1, <3>5, <3>6 DEF KeywordSound, IndexHeld, OnPartition
  <2> QED BY <2>1, <2>2
<1>7. Placed'
  <2> SUFFICES ASSUME NEW t \in Tables, kindex'[t].state # "absent" PROVE OnPartition(kpart'[t]) /\ safe BY DEF Placed, OnPartition
  <2> QED BY DEF Placed
<1> QED BY <1>3, <1>5, <1>6, <1>7

\* An INVALID index is answered for after a step of one task, by it or by who answered before.
LEMMA Owns ==
    ASSUME KeywordTypes, Owned, NEW k \in Threads, NEW r \in KTasks, ktask' = [ktask EXCEPT ![k] = r], UNCHANGED config,
           \A t \in Tables : kindex'[t].state = "invalid" =>
              \/ Answers(r, t) \/ outcome'[t] = "failed" \/ ~config.keyword \/ config.table # t
              \/ \E o \in Threads : o # k /\ Answers(ktask[o], t)
              \/ kindex[t].state = "invalid" /\ (outcome[t] = "failed" => outcome'[t] = "failed") /\ ~Answers(ktask[k], t)
    PROVE  Owned'
<1>1. ktask'[k] = r /\ \A o \in Threads : o # k => ktask'[o] = ktask[o] BY DEF KeywordTypes
<1> SUFFICES ASSUME NEW t \in Tables, kindex'[t].state = "invalid"
             PROVE  \/ (\E o \in Threads : Answers(ktask'[o], t)) \/ outcome'[t] = "failed" \/ ~config.keyword \/ config.table # t
  BY DEF Owned, Answers
<1>2. CASE Answers(r, t) BY <1>1, <1>2
<1>3. CASE \E o \in Threads : o # k /\ Answers(ktask[o], t) BY <1>1, <1>3
<1>4. CASE kindex[t].state = "invalid" /\ (outcome[t] = "failed" => outcome'[t] = "failed") /\ ~Answers(ktask[k], t)
  <2>1. (\E o \in Threads : Answers(ktask[o], t)) \/ outcome[t] = "failed" \/ ~config.keyword \/ config.table # t BY <1>4 DEF Owned
  <2>2. (\E o \in Threads : Answers(ktask[o], t)) => \E o \in Threads : o # k /\ Answers(ktask[o], t) BY <1>4
  <2> QED BY <1>1, <1>4, <2>1, <2>2
<1> QED BY <1>2, <1>3, <1>4

\* The step is the task's own: no index, and no partition, changes.
LEMMA Marches ==
    ASSUME KeywordInv, NEW k \in Threads, NEW r \in KTasks, ktask' = [ktask EXCEPT ![k] = r], UNCHANGED <<config, kpart, kindex, safe>>,
           outcome' \in [Tables -> Outcomes],
           IndexHeld(r) => (IndexHeld(ktask[k]) /\ ktask[k].table = r.table) \/ ~KI!IndexLocked(r.table),
           KeywordSound(r, kindex[r.table], kpart[r.table]),
           \A t \in Tables : kindex[t].state = "invalid" =>
              \/ Answers(r, t) \/ outcome'[t] = "failed" \/ ~config.keyword \/ config.table # t
              \/ \E o \in Threads : o # k /\ Answers(ktask[o], t)
              \/ (outcome[t] = "failed" => outcome'[t] = "failed") /\ ~Answers(ktask[k], t)
    PROVE  KeywordInv'
<1>1. r.table \in Tables BY TaskIs
<1>2. kindex[r.table].state # "absent" => OnPartition(kpart[r.table]) /\ safe BY <1>1 DEF KeywordInv, Placed
<1>3. kindex' \in [Tables -> IndexRows] /\ kpart' \in [Tables -> Parts] BY DEF KeywordInv, KeywordTypes
<1>7. /\ \A t \in Tables : kindex'[t] = kindex[t] /\ (OnPartition(kpart[t]) => OnPartition(kpart'[t]))
      /\ kindex'[r.table] = kindex[r.table] /\ kpart'[r.table] = kpart[r.table] /\ safe' = safe
  OBVIOUS
<1>8. KeywordTypes /\ OneLock /\ KeywordMemory /\ Placed /\ Owned BY DEF KeywordInv
<1>9. kindex'[r.table].state # "absent" => OnPartition(kpart'[r.table]) /\ safe BY <1>2, <1>7
<1>10. KeywordSound(r, kindex'[r.table], kpart'[r.table]) BY <1>7
<1>11. \A t \in Tables : t # r.table => kindex'[t] = kindex[t] BY <1>7
<1>12. \A t \in Tables : OnPartition(kpart[t]) => OnPartition(kpart'[t]) BY <1>7
<1>4. KeywordTypes' /\ OneLock' /\ KeywordMemory' /\ Placed' BY <1>1, <1>3, <1>7, <1>8, <1>9, <1>10, <1>11, <1>12, TaskStep
<1>13. UNCHANGED config /\ \A t \in Tables : kindex'[t].state = kindex[t].state BY <1>7
<1>14. \A t \in Tables : kindex'[t].state = "invalid" =>
              \/ Answers(r, t) \/ outcome'[t] = "failed" \/ ~config.keyword \/ config.table # t
              \/ \E o \in Threads : o # k /\ Answers(ktask[o], t)
              \/ kindex[t].state = "invalid" /\ (outcome[t] = "failed" => outcome'[t] = "failed") /\ ~Answers(ktask[k], t)
  BY <1>13
<1>5. Owned' BY <1>8, <1>13, <1>14, Owns
<1>6. KeywordWorld' BY DEF KeywordInv, KeywordWorld
<1> QED BY <1>4, <1>5, <1>6 DEF KeywordInv

\* What is recorded of a build is of its table.
LEMMA Recording == ASSUME outcome \in [Tables -> Outcomes], NEW t \in Tables, NEW x \in Outcomes, KI!Record(t, x)
                   PROVE  outcome' \in [Tables -> Outcomes] /\ outcome'[t] = x /\ \A u \in Tables : u # t => outcome'[u] = outcome[u]
BY DEF KI!Record

\* Where a task is, with what it goes by.
LEMMA At == ASSUME KeywordInv, NEW k \in Threads
            PROVE  /\ ktask[k] \in KTasks /\ ktask[k].table \in Tables /\ ktask[k].lang \in Langs /\ ktask[k].retries \in 0..KeywordRetries
                   /\ KeywordSound(ktask[k], kindex[ktask[k].table], kpart[ktask[k].table])
                   /\ kindex[ktask[k].table] \in IndexRows /\ kindex[ktask[k].table].state \in {"absent", "invalid", "ready"}
                   /\ outcome \in [Tables -> Outcomes] /\ config \in Configs /\ config.table \in Tables /\ Tables # {}
                   /\ ktask \in [Threads -> KTasks] /\ kindex[ktask[k].table].lang \in Langs
<1>1. ktask[k] \in KTasks BY DEF KeywordInv, KeywordTypes
<1>2. ktask[k].table \in Tables /\ ktask[k].lang \in Langs /\ ktask[k].retries \in 0..KeywordRetries BY <1>1, TaskIs
<1>3. kindex[ktask[k].table] \in IndexRows BY <1>2 DEF KeywordInv, KeywordTypes
<1>4. config \in Configs /\ outcome \in [Tables -> Outcomes] BY DEF KeywordInv, KeywordWorld
<1> QED BY <1>1, <1>2, <1>3, <1>4 DEF KeywordInv, KeywordMemory, IndexRows, Configs, KeywordTypes

\* The task is over: whatever index it answered for, somebody else does, or it said so.
LEMMA Ends ==
    ASSUME KeywordBounds, KeywordInv, NEW k \in Threads, KI!End(k), UNCHANGED <<config, kpart, kindex, safe>>, outcome' \in [Tables -> Outcomes],
           \A t \in Tables : kindex[t].state = "invalid" =>
              \/ outcome'[t] = "failed" \/ ~config.keyword \/ config.table # t
              \/ \E o \in Threads : o # k /\ Answers(ktask[o], t)
              \/ (outcome[t] = "failed" => outcome'[t] = "failed") /\ ~Answers(ktask[k], t)
    PROVE  KeywordInv'
<1>1. KI!Idle \in KTasks /\ KI!Idle.at = "idle" BY At, IdleIs
<1>2. ktask' = [ktask EXCEPT ![k] = KI!Idle] BY DEF KI!End
<1>3. ~IndexHeld(KI!Idle) BY <1>1 DEF IndexHeld
<1>4. KeywordSound(KI!Idle, kindex[KI!Idle.table], kpart[KI!Idle.table]) BY <1>1, <1>3 DEF KeywordSound
<1>5. \A t \in Tables : kindex[t].state = "invalid" =>
         \/ Answers(KI!Idle, t) \/ outcome'[t] = "failed" \/ ~config.keyword \/ config.table # t
         \/ \E o \in Threads : o # k /\ Answers(ktask[o], t)
         \/ (outcome[t] = "failed" => outcome'[t] = "failed") /\ ~Answers(ktask[k], t)
  OBVIOUS
<1> QED BY <1>1, <1>2, <1>3, <1>4, <1>5, Marches

\* The task goes on, and answers for the index it answered for.
LEMMA Goes ==
    ASSUME KeywordBounds, KeywordInv, NEW k \in Threads, NEW x \in KI!Steps, KI!Go(k, x), UNCHANGED <<config, kpart, kindex, safe>>, outcome' \in [Tables -> Outcomes],
           LET t == ktask[k].table IN
             /\ ktask[k].kind = "ensure" /\ ktask[k].at \notin {"idle", "queued", "complete"} /\ x \notin {"idle", "queued", "drop"}
             /\ x \in {"read", "replace", "build", "building", "complete"} => IndexHeld(ktask[k]) \/ ~KI!IndexLocked(t)
             /\ x \in {"lock", "read", "replace", "build", "building", "complete"} => OnPartition(kpart[t])
             /\ x \in {"replace", "build", "building"} => safe
             /\ x = "replace" => kindex[t] # KI!IndexOf(ktask[k].lang, "ready")
             /\ x = "build" => kindex[t].state = "absent"
             /\ x = "complete" => kindex[t].state # "invalid"
             /\ \A u \in Tables : u # t => outcome'[u] = outcome[u]
    PROVE  KeywordInv'
<1> DEFINE r == [ktask[k] EXCEPT !.at = x]
<1>1. ktask[k] \in KTasks /\ ktask \in [Threads -> KTasks] BY At
<1>2. r \in KTasks /\ r.at = x /\ r.kind = ktask[k].kind /\ r.table = ktask[k].table /\ r.lang = ktask[k].lang BY <1>1, GoingIs
<1>3. ktask' = [ktask EXCEPT ![k] = r] BY <1>1 DEF KI!Go
<1> HIDE DEF r
<1>4. IndexHeld(r) => (IndexHeld(ktask[k]) /\ ktask[k].table = r.table) \/ ~KI!IndexLocked(r.table) BY <1>2 DEF IndexHeld
<1>5. KeywordSound(r, kindex[r.table], kpart[r.table]) BY <1>2 DEF KeywordSound, IndexHeld
<1>6. ASSUME NEW u \in Tables, kindex[u].state = "invalid"
      PROVE  Answers(r, u) \/ ((outcome[u] = "failed" => outcome'[u] = "failed") /\ ~Answers(ktask[k], u))
  <2>1. CASE u = ktask[k].table
    <3>1. x # "complete" BY <1>6, <2>1
    <3> QED BY <1>2, <2>1, <3>1 DEF Answers, KI!Steps
  <2>2. CASE u # ktask[k].table BY <1>6, <2>2 DEF Answers
  <2> QED BY <2>1, <2>2
<1>7. \A t \in Tables : kindex[t].state = "invalid" =>
         \/ Answers(r, t) \/ outcome'[t] = "failed" \/ ~config.keyword \/ config.table # t
         \/ \E o \in Threads : o # k /\ Answers(ktask[o], t)
         \/ (outcome[t] = "failed" => outcome'[t] = "failed") /\ ~Answers(ktask[k], t)
  BY <1>6
<1> QED BY <1>2, <1>3, <1>4, <1>5, <1>7, Marches

-----------------------------------------------------------------------------
\* An ensure starts where the configuration is now, or says that it has failed.
LEMMA KeywordStartInv == ASSUME KeywordBounds, KeywordInv, NEW k \in Threads, KI!Start(k) PROVE KeywordInv'
<1>1. /\ ktask[k] \in KTasks /\ outcome \in [Tables -> Outcomes] /\ config.table \in Tables /\ config \in Configs /\ ktask \in [Threads -> KTasks]
      /\ ktask[k].kind = "ensure" /\ UNCHANGED <<config, kpart, kindex, safe>>
  BY At DEF KI!Start
<1>2. CASE ~config.keyword
  <2>1. KI!Record(config.table, "failed") /\ KI!End(k) BY <1>2 DEF KI!Start
  <2>2. outcome' \in [Tables -> Outcomes] BY <1>1, <2>1, Recording DEF Outcomes
  <2> QED BY <1>1, <1>2, <2>1, <2>2, Ends
<1>3. CASE config.keyword
  <2> DEFINE rest == IF safe THEN Tables \ {config.table} ELSE {}
             r == [ktask[k] EXCEPT !.at = "drop", !.table = config.table, !.lang = config.lang, !.todo = rest]
  <2>1. KI!Record(config.table, "queued")
    BY <1>3 DEF KI!Start
  <2>2. ktask' = [ktask EXCEPT ![k] = r] BY <1>1, <1>3 DEF KI!Start
  <2>3. outcome' \in [Tables -> Outcomes] BY <1>1, <2>1, Recording DEF Outcomes
  <2>4. rest \in SUBSET Tables /\ config.table \notin rest OBVIOUS
  <2> HIDE DEF rest
  <2>5. config.lang \in Langs BY <1>1 DEF Configs
  <2>6. r \in KTasks /\ r.at = "drop" /\ r.table = config.table /\ r.todo = rest /\ r.kind = "ensure" BY <1>1, <2>4, <2>5 DEF KTasks, KI!Steps
  <2> HIDE DEF r
  <2>7. ~IndexHeld(r) BY <2>6 DEF IndexHeld
  <2>8. KeywordSound(r, kindex[r.table], kpart[r.table]) BY <2>4, <2>6, <2>7 DEF KeywordSound
  <2>9. Answers(r, config.table) BY <2>6 DEF Answers, KI!Steps
  <2>10. UNCHANGED <<config, kpart, kindex, safe>> BY <1>1
  <2>11. IndexHeld(r) => (IndexHeld(ktask[k]) /\ ktask[k].table = r.table) \/ ~KI!IndexLocked(r.table) BY <2>7
  <2>12. \A t \in Tables : kindex[t].state = "invalid" =>
           \/ Answers(r, t) \/ outcome'[t] = "failed" \/ ~config.keyword \/ config.table # t
           \/ \E o \in Threads : o # k /\ Answers(ktask[o], t)
           \/ (outcome[t] = "failed" => outcome'[t] = "failed") /\ ~Answers(ktask[k], t)
    BY <2>9
  <2> QED BY <2>2, <2>3, <2>6, <2>8, <2>10, <2>11, <2>12, Marches
<1> QED BY <1>2, <1>3

\* A drop starts with every table to come to.
LEMMA StartDropInv == ASSUME KeywordBounds, KeywordInv, NEW k \in Threads, KI!StartDrop(k) PROVE KeywordInv'
<1> DEFINE r == [ktask[k] EXCEPT !.at = "drop", !.todo = Tables]
<1>1. ktask[k] \in KTasks /\ ktask \in [Threads -> KTasks] /\ ktask[k].kind = "drop" /\ UNCHANGED <<config, kpart, kindex, outcome, safe>>
  BY At DEF KI!StartDrop
<1>2. ktask' = [ktask EXCEPT ![k] = r] BY <1>1 DEF KI!StartDrop
<1>3. r \in KTasks /\ r.at = "drop" /\ r.todo = Tables /\ r.kind = "drop" BY <1>1 DEF KTasks, KI!Steps
<1> HIDE DEF r
<1>4. ~IndexHeld(r) BY <1>3 DEF IndexHeld
<1>5. KeywordSound(r, kindex[r.table], kpart[r.table]) BY <1>3, <1>4 DEF KeywordSound
<1>6. \A t \in Tables : Answers(r, t) BY <1>3 DEF Answers
<1>7. outcome' \in [Tables -> Outcomes] BY <1>1, At
<1> QED BY <1>1, <1>2, <1>3, <1>4, <1>5, <1>6, <1>7, Marches

\* A step of a task that leaves the index of one table otherwise than it was.
Leaving(k, r, u, i) ==
    /\ ktask' = [ktask EXCEPT ![k] = r] /\ UNCHANGED <<config, kpart, safe>> /\ kindex' = [kindex EXCEPT ![u] = i] /\ outcome' \in [Tables -> Outcomes]
    /\ i.state = "absent" \/ (IndexHeld(ktask[k]) /\ ktask[k].table = u)
    /\ i.state # "absent" => OnPartition(kpart[u]) /\ safe
    /\ IndexHeld(r) => IndexHeld(ktask[k]) /\ ktask[k].table = r.table
    /\ KeywordSound(r, kindex'[r.table], kpart[r.table])
    /\ i.state = "invalid" => Answers(r, u)
    /\ \A t \in Tables : t # u => (outcome[t] = "failed" => outcome'[t] = "failed") /\ (Answers(ktask[k], t) => Answers(r, t))
\* Such a step keeps what is known.
LEMMA Leaves == ASSUME KeywordBounds, KeywordInv, NEW k \in Threads, NEW r \in KTasks, NEW u \in Tables, NEW i \in IndexRows, Leaving(k, r, u, i) PROVE  KeywordInv'
<1> USE DEF Leaving
<1>1. kindex' \in [Tables -> IndexRows] /\ kindex'[u] = i /\ \A t \in Tables : t # u => kindex'[t] = kindex[t] BY DEF KeywordInv, KeywordTypes
<1>2. kpart' \in [Tables -> Parts] /\ safe' = safe /\ \A t \in Tables : OnPartition(kpart[t]) => OnPartition(kpart'[t]) BY DEF KeywordInv, KeywordTypes
<1>3. KeywordSound(r, kindex'[r.table], kpart'[r.table]) OBVIOUS
<1>4. kindex'[u].state # "absent" => OnPartition(kpart'[u]) /\ safe BY <1>1
<1>5. kindex'[u].state = "absent" \/ (IndexHeld(ktask[k]) /\ ktask[k].table = u) BY <1>1
<1>6. KeywordTypes /\ OneLock /\ KeywordMemory /\ Placed /\ Owned BY DEF KeywordInv
<1>7. KeywordTypes' /\ OneLock' /\ KeywordMemory' /\ Placed' BY <1>1, <1>2, <1>3, <1>4, <1>5, <1>6, TaskStep
<1>8. ASSUME NEW t \in Tables, kindex'[t].state = "invalid"
      PROVE  Answers(r, t) \/ (kindex[t].state = "invalid" /\ (outcome[t] = "failed" => outcome'[t] = "failed") /\ ~Answers(ktask[k], t))
  BY <1>1, <1>8
<1>9. \A t \in Tables : kindex'[t].state = "invalid" =>
              \/ Answers(r, t) \/ outcome'[t] = "failed" \/ ~config.keyword \/ config.table # t
              \/ \E o \in Threads : o # k /\ Answers(ktask[o], t)
              \/ kindex[t].state = "invalid" /\ (outcome[t] = "failed" => outcome'[t] = "failed") /\ ~Answers(ktask[k], t)
  BY <1>8
<1>10. Owned' BY <1>6, <1>9, Owns
<1>11. KeywordWorld' BY DEF KeywordInv, KeywordWorld
<1> QED BY <1>7, <1>10, <1>11 DEF KeywordInv

\* No index is a row of its own.
LEMMA NoIndexIs == ASSUME KeywordBounds PROVE KI!NoIndex \in IndexRows /\ KI!NoIndex.state = "absent"
BY DEF KeywordBounds, KI!NoIndex, IndexRows

\* What is dropped is answered for no more; nobody else may rely on it but a build, which DROP INDEX waits for.
LEMMA DropNextInv == ASSUME KeywordBounds, KeywordInv, NEW k \in Threads, KI!DropNext(k) PROVE KeywordInv'
<1>1. /\ ktask[k] \in KTasks /\ ktask \in [Threads -> KTasks] /\ ktask[k].at = "drop" /\ UNCHANGED <<config, kpart, outcome, safe>>
      /\ outcome' \in [Tables -> Outcomes] /\ KeywordSound(ktask[k], kindex[ktask[k].table], kpart[ktask[k].table]) /\ kindex \in [Tables -> IndexRows]
  BY At DEF KI!DropNext, KeywordInv, KeywordTypes
<1>2. ktask[k].kind \in {"ensure", "drop"} /\ ktask[k].todo \in SUBSET Tables BY <1>1, TaskIs DEF KeywordSound
<1>3. CASE ktask[k].todo = {} /\ ktask[k].kind = "drop"
  <2>1. UNCHANGED kindex /\ KI!End(k) BY <1>3 DEF KI!DropNext
  <2>2. \A t \in Tables : ~Answers(ktask[k], t) BY <1>1, <1>3 DEF Answers
  <2> QED BY <1>1, <2>1, <2>2, Ends
<1>4. CASE ktask[k].todo = {} /\ ktask[k].kind = "ensure"
  <2>1. UNCHANGED kindex /\ KI!Go(k, "plan") BY <1>4 DEF KI!DropNext
  <2> QED BY <1>1, <1>4, <2>1, Goes DEF KI!Steps
<1>5. ASSUME NEW t \in ktask[k].todo, kindex' = [kindex EXCEPT ![t] = KI!NoIndex], ktask' = [ktask EXCEPT ![k].todo = @ \ {t}] PROVE KeywordInv'
  <2> DEFINE r == [ktask[k] EXCEPT !.todo = @ \ {t}]
  <2>1. ktask' = [ktask EXCEPT ![k] = r] BY <1>1, <1>5
  <2>2. /\ r \in KTasks /\ r.at = "drop" /\ r.kind = ktask[k].kind /\ r.todo = ktask[k].todo \ {t} /\ r.table = ktask[k].table
    BY <1>1 DEF KTasks
  <2> HIDE DEF r
  <2>3. t \in Tables /\ KI!NoIndex \in IndexRows /\ KI!NoIndex.state = "absent" BY <1>2, NoIndexIs
  <2>4. ~IndexHeld(r) BY <2>2 DEF IndexHeld
  <2>5. KeywordSound(r, kindex'[r.table], kpart[r.table]) BY <1>1, <1>2, <2>2, <2>4 DEF KeywordSound
  <2>6. \A u \in Tables : u # t => (outcome[u] = "failed" => outcome'[u] = "failed") /\ (Answers(ktask[k], u) => Answers(r, u))
    BY <1>1, <2>2 DEF Answers
  <2>7. UNCHANGED <<config, kpart, safe>> /\ outcome' \in [Tables -> Outcomes] BY <1>1
  <2>8. IndexHeld(r) => IndexHeld(ktask[k]) /\ ktask[k].table = r.table BY <2>4
  <2>9. /\ KI!NoIndex.state = "absent" \/ (IndexHeld(ktask[k]) /\ ktask[k].table = t)
        /\ KI!NoIndex.state # "absent" => OnPartition(kpart[t]) /\ safe
        /\ KI!NoIndex.state = "invalid" => Answers(r, t)
    BY <2>3
  <2>10. kindex' = [kindex EXCEPT ![t] = KI!NoIndex] BY <1>5
  <2>11. Leaving(k, r, t, KI!NoIndex) BY <2>1, <2>5, <2>6, <2>7, <2>8, <2>9, <2>10 DEF Leaving
  <2> QED BY <2>2, <2>3, <2>11, Leaves
<1>6. ktask[k].todo = {} \/ \E t \in ktask[k].todo : kindex' = [kindex EXCEPT ![t] = KI!NoIndex] /\ ktask' = [ktask EXCEPT ![k].todo = @ \ {t}]
  BY DEF KI!DropNext
<1> QED BY <1>2, <1>3, <1>4, <1>5, <1>6

\* The steps of an ensure, from its plan on.
LEMMA Ensuring == ASSUME KeywordInv, NEW k \in Threads, ktask[k].at \notin {"idle", "queued", "drop"}
                  PROVE  /\ ktask[k].kind = "ensure"
                         /\ \A t \in Tables : t # ktask[k].table => ~Answers(ktask[k], t)
BY At DEF KeywordSound, Answers

\* Where there is no partition there is no index, and a plan that ends leaves none.
LEMMA PlanInv == ASSUME KeywordBounds, KeywordInv, NEW k \in Threads, KI!Plan(k) PROVE KeywordInv'
<1> DEFINE t == ktask[k].table
<1>1. /\ t \in Tables /\ outcome \in [Tables -> Outcomes] /\ ktask[k].at = "plan" /\ UNCHANGED <<config, kpart, kindex, safe>>
  BY At DEF KI!Plan
<1>2. ktask[k].kind = "ensure" /\ \A u \in Tables : u # t => ~Answers(ktask[k], u) BY <1>1, Ensuring
<1>3. ~OnPartition(kpart[t]) \/ ~safe => kindex[t].state = "absent" BY <1>1 DEF KeywordInv, Placed
<1>4. KI!Attached(t) <=> OnPartition(kpart[t]) BY DEF KI!Attached, OnPartition
<1>5. CASE KI!Attached(t)
  <2>1. KI!Go(k, "lock") /\ UNCHANGED outcome BY <1>5 DEF KI!Plan
  <2> QED BY <1>1, <1>2, <1>4, <1>5, <2>1, Goes DEF KI!Steps
<1>6. CASE ~KI!Attached(t) /\ ~(~safe \/ (~ktask[k].move /\ kpart[t] = "default"))
  <2>1. KI!Go(k, "move") /\ KI!Record(t, "moving") BY <1>6 DEF KI!Plan
  <2>2. outcome' \in [Tables -> Outcomes] /\ \A u \in Tables : u # t => outcome'[u] = outcome[u] BY <1>1, <2>1, Recording DEF Outcomes
  <2> QED BY <1>1, <1>2, <2>1, <2>2, Goes DEF KI!Steps
<1>7. CASE ~KI!Attached(t) /\ (~safe \/ (~ktask[k].move /\ kpart[t] = "default"))
  <2>1. KI!End(k) /\ (KI!Record(t, "unavailable") \/ KI!Record(t, "needs_build")) BY <1>7 DEF KI!Plan
  <2>2. outcome' \in [Tables -> Outcomes] /\ \A u \in Tables : u # t => outcome'[u] = outcome[u] BY <1>1, <2>1, Recording DEF Outcomes
  <2>3. kindex[t].state # "invalid" BY <1>3, <1>4, <1>7
  <2> QED BY <1>1, <1>2, <2>1, <2>2, <2>3, Ends
<1> QED BY <1>5, <1>6, <1>7

\* Who finds the lock taken leaves the index to who holds it.
LEMMA TryIndexLockInv == ASSUME KeywordBounds, KeywordInv, NEW k \in Threads, KI!TryIndexLock(k) PROVE KeywordInv'
<1> DEFINE t == ktask[k].table
<1>1. /\ t \in Tables /\ outcome \in [Tables -> Outcomes] /\ ktask[k].at = "lock" /\ UNCHANGED <<config, kpart, kindex, safe>>
      /\ KeywordSound(ktask[k], kindex[t], kpart[t])
  BY At DEF KI!TryIndexLock
<1>2. ktask[k].kind = "ensure" /\ \A u \in Tables : u # t => ~Answers(ktask[k], u) BY <1>1, Ensuring
<1>3. CASE ~KI!IndexLocked(t)
  <2>1. KI!Go(k, "read") /\ UNCHANGED outcome BY <1>3 DEF KI!TryIndexLock
  <2> QED BY <1>1, <1>2, <1>3, <2>1, Goes DEF KI!Steps, KeywordSound
<1>4. CASE KI!IndexLocked(t)
  <2>1. KI!End(k) /\ KI!Record(t, "building") BY <1>4 DEF KI!TryIndexLock
  <2>2. outcome' \in [Tables -> Outcomes] /\ \A u \in Tables : u # t => outcome'[u] = outcome[u] BY <1>1, <2>1, Recording DEF Outcomes
  <2>3. PICK o \in Threads : ktask[o].table = t /\ ktask[o].at \in {"read", "replace", "build", "building", "complete"} BY <1>4 DEF KI!IndexLocked
  <2>4. o # k /\ ktask[o].kind = "ensure" BY <1>1, <2>3, Ensuring
  <2>5. kindex[t].state = "invalid" => ktask[o].at # "complete"
    <3>1. KeywordSound(ktask[o], kindex[t], kpart[t]) BY <2>3, At
    <3> QED BY <3>1 DEF KeywordSound
  <2>6. kindex[t].state = "invalid" => Answers(ktask[o], t) BY <2>3, <2>4, <2>5 DEF Answers, KI!Steps
  <2> QED BY <1>1, <1>2, <2>1, <2>2, <2>4, <2>6, Ends
<1> QED BY <1>3, <1>4

\* A partition is only ever added; an ensure that finds rows it may not move leaves no index.
LEMMA CreatePartitionInv == ASSUME KeywordBounds, KeywordInv, NEW k \in Threads, KI!CreatePartition(k) PROVE KeywordInv'
<1> DEFINE t == ktask[k].table
<1>1. /\ t \in Tables /\ outcome \in [Tables -> Outcomes] /\ ktask[k].at = "move" /\ UNCHANGED <<config, kindex, safe>>
      /\ KeywordSound(ktask[k], kindex[t], kpart[t]) /\ ktask[k] \in KTasks /\ ktask \in [Threads -> KTasks]
  BY At DEF KI!CreatePartition
<1>2. ktask[k].kind = "ensure" /\ \A u \in Tables : u # t => ~Answers(ktask[k], u) BY <1>1, Ensuring
<1>3. KI!Attached(t) <=> OnPartition(kpart[t]) BY DEF KI!Attached, OnPartition
<1>4. CASE ~ktask[k].move /\ kpart[t] = "default"
  <2>1. KI!End(k) /\ KI!Record(t, "needs_build") /\ UNCHANGED kpart BY <1>4 DEF KI!CreatePartition
  <2>2. outcome' \in [Tables -> Outcomes] /\ \A u \in Tables : u # t => outcome'[u] = outcome[u] BY <1>1, <2>1, Recording DEF Outcomes
  <2>3. kindex[t].state # "invalid" BY <1>1, <1>4 DEF KeywordInv, Placed, OnPartition
  <2> QED BY <1>1, <1>2, <2>1, <2>2, <2>3, Ends
<1>5. CASE ~(~ktask[k].move /\ kpart[t] = "default")
  <2> DEFINE p == IF KI!Attached(t) THEN kpart[t] ELSE "attached"
             r == [ktask[k] EXCEPT !.at = "lock"]
  <2>1. kpart' = [kpart EXCEPT ![t] = p] /\ KI!Go(k, "lock") /\ UNCHANGED outcome BY <1>5 DEF KI!CreatePartition
  <2>2. p \in Parts /\ OnPartition(p)
    <3>1. kpart[t] \in Parts BY <1>1 DEF KeywordInv, KeywordTypes
    <3> QED BY <1>3, <3>1 DEF Parts, OnPartition
  <2> HIDE DEF p
  <2>3. kpart' \in [Tables -> Parts] /\ kpart'[t] = p /\ \A u \in Tables : u # t => kpart'[u] = kpart[u] BY <1>1, <2>1, <2>2 DEF KeywordInv, KeywordTypes
  <2>4. r \in KTasks /\ r.at = "lock" /\ r.table = t /\ r.kind = "ensure" BY <1>1, <1>2, GoingIs DEF KI!Steps
  <2>5. ktask' = [ktask EXCEPT ![k] = r] BY <1>1, <2>1 DEF KI!Go
  <2> HIDE DEF r
  <2>6. ~IndexHeld(r) BY <2>4 DEF IndexHeld
  <2>7. kindex' \in [Tables -> IndexRows] /\ kindex' = kindex /\ safe' = safe BY <1>1 DEF KeywordInv, KeywordTypes
  <2>8. \A u \in Tables : OnPartition(kpart[u]) => OnPartition(kpart'[u]) BY <2>2, <2>3
  <2>9. KeywordSound(r, kindex'[r.table], kpart'[r.table]) BY <2>2, <2>3, <2>4, <2>6 DEF KeywordSound
  <2>10. kindex'[t].state # "absent" => OnPartition(kpart'[t]) /\ safe
    <3>1. kindex[t].state # "absent" => safe BY <1>1 DEF KeywordInv, Placed
    <3> QED BY <2>2, <2>3, <2>7, <3>1
  <2>11. KeywordTypes /\ OneLock /\ KeywordMemory /\ Placed /\ Owned BY DEF KeywordInv
  <2>12. /\ \A u \in Tables : u # t => kindex'[u] = kindex[u]
         /\ kindex'[t] = kindex[t] \/ kindex'[t].state = "absent" \/ (IndexHeld(ktask[k]) /\ ktask[k].table = t)
         /\ IndexHeld(r) => (IndexHeld(ktask[k]) /\ ktask[k].table = r.table) \/ ~KI!IndexLocked(r.table)
    BY <2>6, <2>7
  <2>13. KeywordTypes' /\ OneLock' /\ KeywordMemory' /\ Placed' BY <1>1, <2>3, <2>4, <2>5, <2>7, <2>8, <2>9, <2>10, <2>11, <2>12, TaskStep
  <2>14. Answers(r, t) BY <2>4 DEF Answers, KI!Steps
  <2>15. \A u \in Tables : kindex'[u].state = "invalid" =>
              \/ Answers(r, u) \/ outcome'[u] = "failed" \/ ~config.keyword \/ config.table # u
              \/ \E o \in Threads : o # k /\ Answers(ktask[o], u)
              \/ kindex[u].state = "invalid" /\ (outcome[u] = "failed" => outcome'[u] = "failed") /\ ~Answers(ktask[k], u)
    BY <1>2, <2>1, <2>7, <2>14
  <2>16. UNCHANGED config BY <1>1
  <2>17. Owned' BY <2>4, <2>5, <2>11, <2>15, <2>16, Owns
  <2>18. KeywordWorld' BY <1>1, <2>1 DEF KeywordInv, KeywordWorld
  <2> QED BY <2>13, <2>17, <2>18 DEF KeywordInv
<1> QED BY <1>4, <1>5

\* An ensure reads the index under its lock, so that no other builds it.
LEMMA ReadIndexInv == ASSUME KeywordBounds, KeywordInv, NEW k \in Threads, KI!ReadIndex(k) PROVE KeywordInv'
<1> DEFINE t == ktask[k].table
<1>1. /\ t \in Tables /\ outcome \in [Tables -> Outcomes] /\ ktask[k].at = "read" /\ UNCHANGED <<config, kpart, kindex, safe>>
      /\ KeywordSound(ktask[k], kindex[t], kpart[t]) /\ IndexHeld(ktask[k]) /\ OnPartition(kpart[t])
  BY At DEF KI!ReadIndex, KeywordSound, IndexHeld
<1>2. ktask[k].kind = "ensure" /\ \A u \in Tables : u # t => ~Answers(ktask[k], u) BY <1>1, Ensuring
<1>3. kindex[t].state \in {"absent", "invalid", "ready"} /\ (kindex[t].state # "absent" => safe) BY <1>1, At DEF KeywordInv, Placed
<1>4. ~KI!Building(t)
  <2> SUFFICES ASSUME NEW o \in Threads, ktask[o].at = "building", ktask[o].table = t PROVE FALSE BY DEF KI!Building
  <2>1. o = k BY <1>1 DEF KeywordInv, OneLock, IndexHeld
  <2> QED BY <1>1, <2>1
<1>5. CASE kindex[t] = KI!IndexOf(ktask[k].lang, "ready")
  <2>1. KI!Go(k, "complete") /\ UNCHANGED outcome BY <1>4, <1>5 DEF KI!ReadIndex
  <2>2. kindex[t].state # "invalid" BY <1>5 DEF KI!IndexOf
  <2> QED BY <1>1, <1>2, <2>1, <2>2, Goes DEF KI!Steps
<1>6. CASE kindex[t] # KI!IndexOf(ktask[k].lang, "ready") /\ ~safe
  <2>1. KI!Go(k, "complete") /\ KI!Record(t, "unavailable") BY <1>4, <1>6 DEF KI!ReadIndex
  <2>2. outcome' \in [Tables -> Outcomes] /\ \A u \in Tables : u # t => outcome'[u] = outcome[u] BY <1>1, <2>1, Recording DEF Outcomes
  <2>3. kindex[t].state # "invalid" BY <1>3, <1>6
  <2> QED BY <1>1, <1>2, <2>1, <2>2, <2>3, Goes DEF KI!Steps
<1>7. CASE kindex[t] # KI!IndexOf(ktask[k].lang, "ready") /\ safe /\ kindex[t].state = "absent"
  <2>1. KI!Go(k, "build") /\ KI!Record(t, "building") BY <1>4, <1>7 DEF KI!ReadIndex
  <2>2. outcome' \in [Tables -> Outcomes] /\ \A u \in Tables : u # t => outcome'[u] = outcome[u] BY <1>1, <2>1, Recording DEF Outcomes
  <2> QED BY <1>1, <1>2, <1>7, <2>1, <2>2, Goes DEF KI!Steps
<1>8. CASE kindex[t] # KI!IndexOf(ktask[k].lang, "ready") /\ safe /\ kindex[t].state # "absent"
  <2>1. KI!Go(k, "replace") /\ UNCHANGED outcome BY <1>4, <1>8 DEF KI!ReadIndex
  <2> QED BY <1>1, <1>2, <1>8, <2>1, Goes DEF KI!Steps
<1> QED BY <1>5, <1>6, <1>7, <1>8

\* The steps of a build: the index of the task's own table, under its lock.
LEMMA Builds ==
    ASSUME KeywordBounds, KeywordInv, NEW k \in Threads, ktask[k].at \in {"replace", "build", "building"}, NEW x \in {"build", "building", "complete"}, KI!Go(k, x),
           UNCHANGED <<config, kpart, safe>>, NEW i \in IndexRows, kindex' = [kindex EXCEPT ![ktask[k].table] = i], outcome' \in [Tables -> Outcomes],
           \A u \in Tables : u # ktask[k].table => outcome'[u] = outcome[u],
           x = "build" => i.state = "absent", x = "complete" => i.state # "invalid"
    PROVE  KeywordInv'
<1> DEFINE t == ktask[k].table
           r == [ktask[k] EXCEPT !.at = x]
<1>1. /\ t \in Tables /\ KeywordSound(ktask[k], kindex[t], kpart[t]) /\ IndexHeld(ktask[k]) /\ OnPartition(kpart[t]) /\ safe /\ kindex \in [Tables -> IndexRows]
      /\ ktask[k] \in KTasks /\ ktask \in [Threads -> KTasks]
  BY At DEF KeywordSound, IndexHeld, KeywordInv, KeywordTypes
<1>2. ktask[k].kind = "ensure" /\ \A u \in Tables : u # t => ~Answers(ktask[k], u) BY Ensuring
<1>3. x \in KI!Steps BY DEF KI!Steps
<1>4. r \in KTasks /\ r.at = x /\ r.table = t /\ r.kind = "ensure" BY <1>1, <1>2, <1>3, GoingIs
<1>5. ktask' = [ktask EXCEPT ![k] = r] BY <1>1 DEF KI!Go
<1> HIDE DEF r
<1>6. kindex'[r.table] = i BY <1>1, <1>4
<1>7. KeywordSound(r, kindex'[r.table], kpart[r.table]) BY <1>1, <1>4, <1>6 DEF KeywordSound, IndexHeld
<1>8. i.state = "invalid" => Answers(r, t) BY <1>4 DEF Answers, KI!Steps
<1>9. \A u \in Tables : u # t => (outcome[u] = "failed" => outcome'[u] = "failed") /\ (Answers(ktask[k], u) => Answers(r, u)) BY <1>2
<1>10. /\ i.state = "absent" \/ (IndexHeld(ktask[k]) /\ ktask[k].table = t)
       /\ i.state # "absent" => OnPartition(kpart[t]) /\ safe
       /\ IndexHeld(r) => IndexHeld(ktask[k]) /\ ktask[k].table = r.table
       /\ kindex' = [kindex EXCEPT ![t] = i]
  BY <1>1, <1>4
<1>11. t \in Tables /\ UNCHANGED <<config, kpart, safe>> /\ r \in KTasks BY <1>1, <1>4
<1> HIDE DEF t
<1>12. Leaving(k, r, t, i) BY <1>5, <1>7, <1>8, <1>9, <1>10, <1>11 DEF Leaving
<1> QED BY <1>11, <1>12, Leaves

\* The index is dropped to be built.
LEMMA ReplaceInv == ASSUME KeywordBounds, KeywordInv, NEW k \in Threads, KI!Replace(k) PROVE KeywordInv'
<1>1. ktask[k].table \in Tables /\ outcome \in [Tables -> Outcomes] BY At
<1>2. KI!Go(k, "build") /\ KI!Record(ktask[k].table, "building") /\ ktask[k].at = "replace" BY DEF KI!Replace
<1>3. outcome' \in [Tables -> Outcomes] /\ \A u \in Tables : u # ktask[k].table => outcome'[u] = outcome[u] BY <1>1, <1>2, Recording DEF Outcomes
<1>4. UNCHANGED <<config, kpart, safe>> /\ kindex' = [kindex EXCEPT ![ktask[k].table] = KI!NoIndex] BY DEF KI!Replace
<1>5. KI!NoIndex \in IndexRows /\ KI!NoIndex.state = "absent" BY NoIndexIs
<1> QED BY <1>2, <1>3, <1>4, <1>5, Builds

\* The index is INVALID from here, and its task is building.
LEMMA BuildBeginsInv == ASSUME KeywordBounds, KeywordInv, NEW k \in Threads, KI!BuildBegins(k) PROVE KeywordInv'
<1> DEFINE i == KI!IndexOf(ktask[k].lang, "invalid")
<1>1. ktask[k].at = "build" /\ UNCHANGED <<config, kpart, outcome, safe>> /\ outcome' \in [Tables -> Outcomes] /\ kindex[ktask[k].table].state = "absent"
  BY At DEF KI!BuildBegins, KeywordSound
<1>2. kindex' = [kindex EXCEPT ![ktask[k].table] = i] /\ KI!Go(k, "building") BY <1>1 DEF KI!BuildBegins
<1>3. i \in IndexRows /\ i.state = "invalid" BY At DEF KI!IndexOf, IndexRows
<1> HIDE DEF i
<1>4. \A u \in Tables : u # ktask[k].table => outcome'[u] = outcome[u] BY <1>1
<1>5. UNCHANGED <<config, kpart, safe>> BY <1>1
<1> QED BY <1>1, <1>2, <1>3, <1>4, <1>5, Builds

\* The index is ready.
LEMMA BuildEndsInv == ASSUME KeywordBounds, KeywordInv, NEW k \in Threads, KI!BuildEnds(k) PROVE KeywordInv'
<1> DEFINE i == [kindex[ktask[k].table] EXCEPT !.state = "ready"]
<1>1. ktask[k].at = "building" /\ UNCHANGED <<config, kpart, safe>> /\ outcome' \in [Tables -> Outcomes] /\ KI!Go(k, "complete")
  BY At DEF KI!BuildEnds
<1>2. kindex' = [kindex EXCEPT ![ktask[k].table] = i] BY DEF KI!BuildEnds
<1>3. i \in IndexRows /\ i.state = "ready" BY At DEF IndexRows
<1> HIDE DEF i
<1>4. \A u \in Tables : u # ktask[k].table => outcome'[u] = outcome[u] BY DEF KI!BuildEnds
<1> QED BY <1>1, <1>2, <1>3, <1>4, Builds

\* A task that completes leaves no INVALID index.
LEMMA CompletePartitionInv == ASSUME KeywordBounds, KeywordInv, NEW k \in Threads, KI!CompletePartition(k) PROVE KeywordInv'
<1> DEFINE t == ktask[k].table
           p == IF kindex[t].state = "ready" \/ ~safe THEN "complete" ELSE kpart[t]
           x == IF kindex[t].state = "ready" /\ outcome[t] # "unavailable" THEN "ready" ELSE outcome[t]
<1>1. /\ t \in Tables /\ outcome \in [Tables -> Outcomes] /\ ktask[k].at = "complete" /\ UNCHANGED <<config, kindex, safe>>
      /\ KeywordSound(ktask[k], kindex[t], kpart[t]) /\ KI!Idle \in KTasks /\ KI!Idle.at = "idle"
  BY At, IdleIs DEF KI!CompletePartition
<1>2. kindex[t].state # "invalid" /\ \A u \in Tables : u # t => ~Answers(ktask[k], u) BY <1>1, Ensuring DEF KeywordSound
<1>3. KI!Record(t, x) /\ KI!End(k) /\ kpart' = [kpart EXCEPT ![t] = p] BY DEF KI!CompletePartition
<1>4. x \in Outcomes BY <1>1 DEF Outcomes
<1>5. outcome' \in [Tables -> Outcomes] /\ \A u \in Tables : u # t => outcome'[u] = outcome[u] BY <1>1, <1>3, <1>4, Recording
<1>6. p \in Parts /\ (OnPartition(kpart[t]) => OnPartition(p)) BY <1>1 DEF KeywordInv, KeywordTypes, Parts, OnPartition
<1> HIDE DEF p, x
<1>7. kpart' \in [Tables -> Parts] /\ \A u \in Tables : OnPartition(kpart[u]) => OnPartition(kpart'[u]) BY <1>1, <1>3, <1>6 DEF KeywordInv, KeywordTypes
<1>8. ktask' = [ktask EXCEPT ![k] = KI!Idle] /\ KI!Idle.table \in Tables BY <1>1, <1>3, TaskIs DEF KI!End
<1>9. ~IndexHeld(KI!Idle) BY <1>1 DEF IndexHeld
<1>10. KeywordSound(KI!Idle, kindex'[KI!Idle.table], kpart'[KI!Idle.table]) BY <1>1, <1>9 DEF KeywordSound
<1>11. KeywordTypes /\ OneLock /\ KeywordMemory /\ Placed /\ Owned BY DEF KeywordInv
<1>12. kindex' = kindex /\ safe' = safe /\ kindex' \in [Tables -> IndexRows] BY <1>1 DEF KeywordInv, KeywordTypes
<1>13. kindex'[t].state # "absent" => OnPartition(kpart'[t]) /\ safe
  <2>1. kindex[t].state # "absent" => OnPartition(kpart[t]) /\ safe BY <1>1 DEF KeywordInv, Placed
  <2> QED BY <1>1, <1>7, <1>12, <2>1
<1>14. /\ \A u \in Tables : u # t => kindex'[u] = kindex[u]
       /\ kindex'[t] = kindex[t] \/ kindex'[t].state = "absent" \/ (IndexHeld(ktask[k]) /\ ktask[k].table = t)
       /\ IndexHeld(KI!Idle) => (IndexHeld(ktask[k]) /\ ktask[k].table = KI!Idle.table) \/ ~KI!IndexLocked(KI!Idle.table)
  BY <1>9, <1>12
<1>15. KeywordTypes' /\ OneLock' /\ KeywordMemory' /\ Placed' BY <1>1, <1>7, <1>8, <1>10, <1>11, <1>12, <1>13, <1>14, TaskStep
<1>16. \A u \in Tables : kindex'[u].state = "invalid" =>
              \/ Answers(KI!Idle, u) \/ outcome'[u] = "failed" \/ ~config.keyword \/ config.table # u
              \/ \E o \in Threads : o # k /\ Answers(ktask[o], u)
              \/ kindex[u].state = "invalid" /\ (outcome[u] = "failed" => outcome'[u] = "failed") /\ ~Answers(ktask[k], u)
  BY <1>2, <1>5, <1>12
<1>17. UNCHANGED config BY <1>1
<1>18. Owned' BY <1>1, <1>8, <1>11, <1>16, <1>17, Owns
<1>19. KeywordWorld' BY <1>1, <1>5 DEF KeywordInv, KeywordWorld
<1> QED BY <1>15, <1>18, <1>19 DEF KeywordInv

\* A message that is delivered again answers for every index.
LEMMA Again ==
    ASSUME KeywordBounds, KeywordInv, NEW k \in Threads, NEW num \in 0..KeywordRetries, ktask[k].at \notin {"idle", "queued"},
           ktask' = [ktask EXCEPT ![k] = [KI!Queued(ktask[k].kind, ktask[k].move) EXCEPT !.retries = num]],
           UNCHANGED <<config, kpart, kindex, safe>>, outcome' \in [Tables -> Outcomes]
    PROVE  KeywordInv'
<1> DEFINE r == [KI!Queued(ktask[k].kind, ktask[k].move) EXCEPT !.retries = num]
<1>1. ktask[k].kind \in {"ensure", "drop"} /\ ktask[k].move \in BOOLEAN /\ Tables # {} BY At, TaskIs DEF KeywordSound
<1>2. r \in KTasks /\ r.at = "queued" BY <1>1, QueuedIs
<1>3. ktask' = [ktask EXCEPT ![k] = r] OBVIOUS
<1> HIDE DEF r
<1>4. ~IndexHeld(r) /\ \A t : Answers(r, t) BY <1>2 DEF IndexHeld, Answers
<1>5. KeywordSound(r, kindex[r.table], kpart[r.table]) BY <1>2, <1>4 DEF KeywordSound
<1>6. IndexHeld(r) => (IndexHeld(ktask[k]) /\ ktask[k].table = r.table) \/ ~KI!IndexLocked(r.table) BY <1>4
<1>7. \A t \in Tables : kindex[t].state = "invalid" =>
         \/ Answers(r, t) \/ outcome'[t] = "failed" \/ ~config.keyword \/ config.table # t
         \/ \E o \in Threads : o # k /\ Answers(ktask[o], t)
         \/ (outcome[t] = "failed" => outcome'[t] = "failed") /\ ~Answers(ktask[k], t)
  BY <1>4
<1> QED BY <1>2, <1>3, <1>5, <1>6, <1>7, Marches

\* A failure is retried, or told.
LEMMA FailInv == ASSUME KeywordBounds, KeywordInv, NEW k \in Threads, KI!Fail(k) PROVE KeywordInv'
<1> DEFINE t == ktask[k].table
<1>1. /\ t \in Tables /\ outcome \in [Tables -> Outcomes] /\ ktask[k].at \in {"move", "building"} /\ UNCHANGED <<config, kpart, kindex, safe>>
      /\ ktask[k].retries \in 0..KeywordRetries
  BY At DEF KI!Fail
<1>2. ktask[k].kind = "ensure" /\ \A u \in Tables : u # t => ~Answers(ktask[k], u) BY <1>1, Ensuring
<1>3. CASE ktask[k].retries >= KeywordRetries
  <2>1. KI!End(k) /\ KI!Record(t, "failed") BY <1>3 DEF KI!Fail, KI!RetryOrGiveUp
  <2>2. outcome' \in [Tables -> Outcomes] /\ outcome'[t] = "failed" /\ \A u \in Tables : u # t => outcome'[u] = outcome[u]
    BY <1>1, <2>1, Recording DEF Outcomes
  <2> QED BY <1>1, <1>2, <2>1, <2>2, Ends
<1>4. CASE ~(ktask[k].retries >= KeywordRetries)
  <2>1. /\ ktask' = [ktask EXCEPT ![k] = [KI!Queued(ktask[k].kind, ktask[k].move) EXCEPT !.retries = ktask[k].retries + 1]]
        /\ KI!Record(t, "retrying")
    BY <1>4 DEF KI!Fail, KI!RetryOrGiveUp
  <2>2. ktask[k].retries + 1 \in 0..KeywordRetries BY <1>1, <1>4 DEF KeywordBounds
  <2>3. outcome' \in [Tables -> Outcomes] BY <1>1, <2>1, Recording DEF Outcomes
  <2> QED BY <1>1, <2>1, <2>2, <2>3, Again
<1> QED BY <1>3, <1>4

\* A killed worker is dispatched again.
LEMMA KeywordKillInv == ASSUME KeywordBounds, KeywordInv, NEW k \in Threads, KI!Kill(k) PROVE KeywordInv'
<1>1. ktask[k].retries \in 0..KeywordRetries /\ outcome' \in [Tables -> Outcomes] BY At DEF KI!Kill
<1>2. /\ ktask[k].at \notin {"idle", "queued"} /\ UNCHANGED <<config, kpart, kindex, safe>>
      /\ ktask' = [ktask EXCEPT ![k] = [KI!Queued(ktask[k].kind, ktask[k].move) EXCEPT !.retries = ktask[k].retries]]
  BY DEF KI!Kill
<1> QED BY <1>1, <1>2, Again

\* Whoever dispatches, whatever is configured: the task will look at what there is.
LEMMA DispatchInv ==
    ASSUME KeywordBounds, KeywordInv, NEW kind \in {"ensure", "drop"}, NEW move \in BOOLEAN, KI!Dispatch(kind, move), UNCHANGED <<kpart, kindex, outcome, safe>>,
           config' \in Configs
    PROVE  KeywordInv'
<1>1. PICK k \in Threads : ktask[k] = KI!Idle /\ ktask' = [ktask EXCEPT ![k] = KI!Queued(kind, move)] BY DEF KI!Dispatch
<1> DEFINE r == KI!Queued(kind, move)
<1>2. /\ ktask \in [Threads -> KTasks] /\ Tables # {} BY At
<1>16. 0 \in 0..KeywordRetries BY DEF KeywordBounds
<1>3. r \in KTasks /\ r.at = "queued" BY <1>2, <1>16, QueuedIs
<1>4. ktask' = [ktask EXCEPT ![k] = r] BY <1>1
<1> HIDE DEF r
<1>5. ~IndexHeld(r) /\ \A t : Answers(r, t) BY <1>3 DEF IndexHeld, Answers
<1>6. r.table \in Tables BY <1>3, TaskIs
<1>7. KeywordTypes /\ OneLock /\ KeywordMemory /\ Placed BY DEF KeywordInv
<1>8. kindex' = kindex /\ kpart' = kpart /\ safe' = safe /\ kindex' \in [Tables -> IndexRows] /\ kpart' \in [Tables -> Parts] BY DEF KeywordInv, KeywordTypes
<1>9. KeywordSound(r, kindex'[r.table], kpart'[r.table]) BY <1>3, <1>5 DEF KeywordSound
<1>10. kindex'[r.table].state # "absent" => OnPartition(kpart'[r.table]) /\ safe BY <1>6, <1>8 DEF KeywordInv, Placed
<1>11. /\ \A u \in Tables : u # r.table => kindex'[u] = kindex[u]
       /\ \A u \in Tables : OnPartition(kpart[u]) => OnPartition(kpart'[u])
       /\ kindex'[r.table] = kindex[r.table] \/ kindex'[r.table].state = "absent" \/ (IndexHeld(ktask[k]) /\ ktask[k].table = r.table)
       /\ IndexHeld(r) => (IndexHeld(ktask[k]) /\ ktask[k].table = r.table) \/ ~KI!IndexLocked(r.table)
  BY <1>5, <1>8
<1>12. KeywordTypes' /\ OneLock' /\ KeywordMemory' /\ Placed' BY <1>3, <1>4, <1>6, <1>7, <1>8, <1>9, <1>10, <1>11, TaskStep
<1>13. ktask'[k] = r BY <1>2, <1>4
<1>14. Owned' BY <1>5, <1>13 DEF Owned, Answers
<1>15. KeywordWorld' BY DEF KeywordInv, KeywordWorld
<1> QED BY <1>12, <1>14, <1>15 DEF KeywordInv

\* The configuration changes and nothing else does, where no INVALID index of its table is.
LEMMA Configured ==
    ASSUME KeywordInv, UNCHANGED <<kpart, kindex, ktask, outcome, safe>>, config' \in Configs,
           \/ ~config'.keyword \/ kindex[config'.table].state # "invalid"
           \/ config.keyword /\ config'.table = config.table
    PROVE  KeywordInv'
<1>1. KeywordWorld' BY DEF KeywordInv, KeywordWorld
<1>2. KeywordTypes' /\ OneLock' /\ KeywordMemory' /\ Placed' BY DEF KeywordInv, KeywordTypes, OneLock, KeywordMemory, Placed, KeywordSound, IndexHeld, OnPartition
<1>3. Owned' BY DEF KeywordInv, Owned, Answers
<1> QED BY <1>1, <1>2, <1>3 DEF KeywordInv

\* A change of the configuration dispatches who answers, or there is no index to answer for.
LEMMA PatchInv == ASSUME KeywordBounds, KeywordInv, KI!Patch PROVE KeywordInv'
<1>1. UNCHANGED <<kpart, kindex, outcome, safe>> BY DEF KI!Patch
<1>2. PICK new \in [table : Tables, keyword : BOOLEAN, lang : Langs] :
         LET changed == new.table # config.table IN
         /\ new # config /\ config' = new
         /\ IF new.keyword
            THEN IF changed \/ KI!InputsChanged(config, new) THEN KI!EnsureFromPatch(new.table, changed) ELSE UNCHANGED ktask
            ELSE IF config.keyword THEN KI!Dispatch("drop", FALSE) ELSE UNCHANGED ktask
  BY DEF KI!Patch
<1>3. config' \in Configs /\ config'.table \in Tables BY <1>2 DEF Configs
<1>4. CASE \E kind \in {"ensure", "drop"} : KI!Dispatch(kind, FALSE) BY <1>1, <1>3, <1>4, DispatchInv
<1>5. CASE ~\E kind \in {"ensure", "drop"} : KI!Dispatch(kind, FALSE)
  <2>1. UNCHANGED ktask BY <1>2, <1>5 DEF KI!EnsureFromPatch
  <2>2. CASE ~new.keyword BY <1>1, <1>2, <1>3, <2>1, <2>2, Configured
  <2>3. CASE new.keyword /\ ~(new.table # config.table \/ KI!InputsChanged(config, new))
    <3>1. config.keyword /\ config'.table = config.table BY <1>2, <2>3 DEF KI!InputsChanged
    <3> QED BY <1>1, <1>3, <2>1, <3>1, Configured
  <2>4. CASE new.keyword /\ (new.table # config.table \/ KI!InputsChanged(config, new))
    <3>1. ~OnPartition(kpart[new.table]) BY <1>2, <1>5, <2>4 DEF KI!EnsureFromPatch, KI!CannotMoveRows, KI!Attached, OnPartition
    <3>2. kindex[config'.table].state # "invalid" BY <1>2, <3>1 DEF KeywordInv, Placed
    <3> QED BY <1>1, <1>3, <2>1, <3>2, Configured
  <2> QED BY <2>2, <2>3, <2>4
<1> QED BY <1>4, <1>5

\* The operator dispatches.
LEMMA BuildBm25Inv == ASSUME KeywordBounds, KeywordInv, KI!BuildBm25 PROVE KeywordInv'
<1>1. KI!Dispatch("ensure", TRUE) /\ UNCHANGED <<kpart, kindex, outcome, safe>> /\ config' \in Configs BY DEF KI!BuildBm25, KeywordInv, KeywordWorld
<1> QED BY <1>1, DispatchInv

\* A start of the service dispatches.
LEMMA StartUpInv == ASSUME KeywordBounds, KeywordInv, KI!StartUp PROVE KeywordInv'
<1>1. KI!Dispatch("ensure", FALSE) /\ UNCHANGED <<kpart, kindex, outcome, safe>> /\ config' \in Configs BY DEF KI!StartUp, KeywordInv, KeywordWorld
<1> QED BY <1>1, DispatchInv

\* Rows come where there is no partition.
LEMMA InsertRowsInv == ASSUME KeywordInv, KI!InsertRows PROVE KeywordInv'
<1>1. config.table \in Tables /\ kpart \in [Tables -> Parts] /\ UNCHANGED <<config, kindex, ktask, outcome, safe>>
  BY DEF KeywordInv, KeywordWorld, Configs, KeywordTypes, KI!InsertRows
<1>2. kpart' = [kpart EXCEPT ![config.table] = "default"] /\ ~OnPartition(kpart[config.table]) BY DEF KI!InsertRows, OnPartition
<1>3. kpart' \in [Tables -> Parts] /\ \A t \in Tables : OnPartition(kpart[t]) => kpart'[t] = kpart[t] BY <1>1, <1>2 DEF Parts
<1>4. KeywordWorld' BY <1>1 DEF KeywordInv, KeywordWorld
<1>5. KeywordTypes' /\ OneLock' BY <1>1, <1>3 DEF KeywordInv, KeywordTypes, OneLock, IndexHeld
<1>6. KeywordMemory'
  <2> SUFFICES ASSUME NEW k \in Threads PROVE KeywordSound(ktask[k], kindex[ktask[k].table], kpart'[ktask[k].table])
    BY <1>1 DEF KeywordMemory, KeywordSound, IndexHeld, OnPartition
  <2>1. KeywordSound(ktask[k], kindex[ktask[k].table], kpart[ktask[k].table]) /\ ktask[k].table \in Tables BY TaskIs DEF KeywordInv, KeywordMemory, KeywordTypes
  <2>2. OnPartition(kpart[ktask[k].table]) => OnPartition(kpart'[ktask[k].table]) BY <1>3, <2>1
  <2> QED BY <2>1, <2>2 DEF KeywordSound
<1>7. Placed' BY <1>1, <1>3 DEF KeywordInv, Placed, OnPartition
<1>8. Owned' BY <1>1 DEF KeywordInv, Owned, Answers
<1> QED BY <1>4, <1>5, <1>6, <1>7, <1>8 DEF KeywordInv

\* Nothing is built at first.
LEMMA KeywordInitInv == ASSUME KeywordBounds, KI!Init PROVE KeywordInv
<1>1. config \in Configs
  <2>1. (CHOOSE l \in Langs : TRUE) \in Langs BY DEF KeywordBounds
  <2> QED BY <2>1 DEF KI!Init, Configs
<1>2. Tables # {} BY <1>1 DEF Configs
<1>3. KI!Idle \in KTasks /\ KI!Idle.at = "idle" /\ KI!NoIndex \in IndexRows /\ KI!NoIndex.state = "absent" BY <1>2, IdleIs, NoIndexIs
<1>4. KeywordWorld BY <1>1 DEF KI!Init, KeywordWorld, Outcomes
<1>5. KeywordTypes BY <1>3 DEF KI!Init, KeywordTypes, Parts
<1>6. ~IndexHeld(KI!Idle) BY <1>3 DEF IndexHeld
<1>7. OneLock BY <1>6 DEF KI!Init, OneLock
<1>8. KeywordMemory
  <2>1. \A i, p : KeywordSound(KI!Idle, i, p) BY <1>3, <1>6 DEF KeywordSound
  <2> QED BY <2>1 DEF KI!Init, KeywordMemory
<1>9. Placed /\ Owned BY <1>3 DEF KI!Init, Placed, Owned
<1> QED BY <1>4, <1>5, <1>7, <1>8, <1>9 DEF KeywordInv

\* The invariant is inductive.
LEMMA KeywordNextInv == ASSUME KeywordBounds, KeywordInv, [KI!Next]_(KI!vars) PROVE KeywordInv'
<1>1. CASE UNCHANGED KI!vars BY <1>1 DEF KI!vars, KeywordInv, KeywordWorld, KeywordTypes, OneLock, KeywordMemory, Placed, Owned, KeywordSound, IndexHeld, OnPartition, Answers
<1>2. ASSUME NEW k \in Threads, KI!Step(k) \/ KI!Fail(k) \/ KI!Kill(k) PROVE KeywordInv'
  BY <1>2, KeywordStartInv, StartDropInv, DropNextInv, PlanInv, CreatePartitionInv, TryIndexLockInv, ReadIndexInv, ReplaceInv, BuildBeginsInv, BuildEndsInv,
     CompletePartitionInv, FailInv, KeywordKillInv DEF KI!Step
<1>3. CASE KI!Patch BY <1>3, PatchInv
<1>4. CASE KI!BuildBm25 BY <1>4, BuildBm25Inv
<1>5. CASE KI!StartUp BY <1>5, StartUpInv
<1>6. CASE KI!InsertRows BY <1>6, InsertRowsInv
<1> QED BY <1>1, <1>2, <1>3, <1>4, <1>5, <1>6 DEF KI!Next

\* What it implies: a task that answers is a task.
LEMMA InvTypes == ASSUME KeywordInv PROVE KI!TypeOK /\ KI!InvalidIsOwned
<1>1. KI!TypeOK
  <2>1. \A k \in Threads : ktask[k].at \in KI!Steps /\ ktask[k].retries \in 0..KeywordRetries BY TaskIs DEF KeywordInv, KeywordTypes
  <2> QED BY <2>1 DEF KeywordInv, KeywordWorld, KeywordTypes, Configs, Parts, IndexRows, Outcomes, KI!TypeOK
<1>2. KI!InvalidIsOwned
  <2> SUFFICES ASSUME NEW t \in Tables, kindex[t].state = "invalid", NEW k \in Threads, Answers(ktask[k], t) PROVE ktask[k] # KI!Idle
    BY DEF KeywordInv, Owned, KI!InvalidIsOwned
  <2>1. KI!Idle.at = "idle" /\ KI!Idle.kind = "none" BY DEF KI!Idle
  <2> QED BY <2>1 DEF Answers
<1> QED BY <1>1, <1>2

\* An INVALID pg_search index has a task that will come to it, or was given up aloud.
THEOREM IndexIsOwned == ASSUME KeywordBounds PROVE KI!Spec => [](KI!TypeOK /\ KI!InvalidIsOwned)
<1>1. KI!Init => KeywordInv BY KeywordInitInv
<1>2. KeywordInv /\ [KI!Next]_(KI!vars) => KeywordInv' BY KeywordNextInv
<1>3. KeywordInv => KI!TypeOK /\ KI!InvalidIsOwned BY InvTypes
<1> QED BY <1>1, <1>2, <1>3, PTL DEF KI!Spec

\* An ensure never drops the table it is for.
LEMMA DropNextIsDue == ASSUME KeywordInv, NEW k \in Threads, KI!DropNext(k) PROVE KI!DropDue
<1> SUFFICES ASSUME NEW u \in Tables, u = config.table, kindex'[u] # kindex[u]
             PROVE  ktask[k].at = "drop" /\ ktask'[k] # ktask[k] /\ (ktask[k].kind = "drop" \/ ktask[k].table # config.table)
  BY DEF KI!DropDue
<1>1. ktask[k] \in KTasks /\ ktask \in [Threads -> KTasks] /\ kindex \in [Tables -> IndexRows] /\ ktask[k].at = "drop" /\ KeywordSound(ktask[k], kindex[ktask[k].table], kpart[ktask[k].table])
  BY At DEF KeywordInv, KeywordTypes, KI!DropNext
<1>2. PICK t \in ktask[k].todo : kindex' = [kindex EXCEPT ![t] = KI!NoIndex] /\ ktask' = [ktask EXCEPT ![k].todo = @ \ {t}] BY DEF KI!DropNext
<1>3. t = u BY <1>1, <1>2
<1>4. ktask'[k].todo = ktask[k].todo \ {u} /\ u \in ktask[k].todo BY <1>1, <1>2, <1>3 DEF KTasks
<1>5. ktask'[k] # ktask[k] BY <1>4
<1> QED BY <1>1, <1>4, <1>5 DEF KeywordSound

\* Who moves was asked to, and who drops has read otherwise.
LEMMA NextIsDue == ASSUME KeywordInv, [KI!Next]_(KI!vars) PROVE KI!MoveAsked /\ KI!DropDue
<1>1. CASE UNCHANGED KI!vars BY <1>1 DEF KI!vars, KI!MoveAsked, KI!DropDue
<1>2. ASSUME NEW k \in Threads, KI!CreatePartition(k) PROVE KI!MoveAsked
  <2> SUFFICES ASSUME NEW t \in Tables, kpart[t] = "default", kpart'[t] = "attached" PROVE ktask[k].at = "move" /\ ktask[k].move BY DEF KI!MoveAsked
  <2>1. ktask[k].at = "move" BY <1>2 DEF KI!CreatePartition
  <2>2. CASE ~ktask[k].move /\ kpart[ktask[k].table] = "default" BY <1>2, <2>2 DEF KI!CreatePartition
  <2>3. CASE ~(~ktask[k].move /\ kpart[ktask[k].table] = "default")
    <3>1. ktask[k].table = t BY <1>2, <2>3 DEF KI!CreatePartition, KeywordInv, KeywordTypes
    <3> QED BY <2>1, <2>3, <3>1
  <2> QED BY <2>2, <2>3
<1>3. ASSUME NEW k \in Threads, KI!CompletePartition(k) PROVE KI!MoveAsked
  BY <1>3 DEF KI!CompletePartition, KI!MoveAsked, KeywordInv, KeywordTypes
<1>4. ASSUME NEW k \in Threads, KI!Replace(k) PROVE KI!DropDue
  <2> SUFFICES ASSUME NEW u \in Tables, u = config.table, kindex[u] = KI!IndexOf(config.lang, "ready"), kindex'[u] # kindex[u]
               PROVE  ktask[k].at = "replace" /\ ktask'[k] # ktask[k] /\ (ktask[k].table # config.table \/ ktask[k].lang # config.lang)
    BY DEF KI!DropDue
  <2>1. ktask[k] \in KTasks /\ ktask \in [Threads -> KTasks] /\ KeywordSound(ktask[k], kindex[ktask[k].table], kpart[ktask[k].table]) BY At
  <2>2. ktask[k].at = "replace" /\ KI!Go(k, "build") BY <1>4 DEF KI!Replace
  <2>3. ktask'[k].at = "build" BY <2>1, <2>2 DEF KI!Go, KTasks
  <2>4. kindex[ktask[k].table] # KI!IndexOf(ktask[k].lang, "ready") BY <2>1, <2>2 DEF KeywordSound
  <2> QED BY <2>2, <2>3, <2>4
<1>5. ASSUME NEW k \in Threads, KI!BuildBegins(k) \/ KI!BuildEnds(k) PROVE KI!DropDue
  <2> DEFINE t == ktask[k].table
  <2>1. t \in Tables /\ kindex \in [Tables -> IndexRows] /\ KeywordSound(ktask[k], kindex[t], kpart[t]) BY At DEF KeywordInv, KeywordTypes
  <2>2. CASE KI!BuildBegins(k)
    <3>1. kindex[t].state = "absent" /\ \A u \in Tables : u # t => kindex'[u] = kindex[u] BY <2>1, <2>2 DEF KI!BuildBegins, KeywordSound
    <3> QED BY <3>1 DEF KI!DropDue, KI!IndexOf
  <2>3. CASE KI!BuildEnds(k)
    <3>1. kindex'[t] = [kindex[t] EXCEPT !.state = "ready"] /\ \A u \in Tables : u # t => kindex'[u] = kindex[u] BY <2>1, <2>3 DEF KI!BuildEnds
    <3>2. \A l : [KI!IndexOf(l, "ready") EXCEPT !.state = "ready"] = KI!IndexOf(l, "ready") BY DEF KI!IndexOf
    <3> QED BY <3>1, <3>2 DEF KI!DropDue
  <2> QED BY <1>5, <2>2, <2>3
<1>6. ASSUME KI!Next, \A k \in Threads : ~KI!CreatePartition(k) /\ ~KI!CompletePartition(k) PROVE KI!MoveAsked
  <2>1. CASE UNCHANGED kpart BY <2>1 DEF KI!MoveAsked
  <2>2. CASE KI!InsertRows BY <2>2 DEF KI!InsertRows, KI!MoveAsked, KeywordInv, KeywordTypes, KeywordWorld, Configs
  <2> QED BY <1>6, <2>1, <2>2 DEF KI!Next, KI!Step, KI!Start, KI!StartDrop, KI!DropNext, KI!Plan, KI!TryIndexLock, KI!ReadIndex, KI!Replace, KI!BuildBegins, KI!BuildEnds, KI!Fail, KI!Kill, KI!Patch, KI!BuildBm25,
          KI!StartUp
<1>7. ASSUME KI!Next, \A k \in Threads : ~KI!DropNext(k) /\ ~KI!Replace(k) /\ ~KI!BuildBegins(k) /\ ~KI!BuildEnds(k) PROVE KI!DropDue
  <2>1. UNCHANGED kindex
    BY <1>7 DEF KI!Next, KI!Step, KI!Start, KI!StartDrop, KI!Plan, KI!CreatePartition, KI!TryIndexLock, KI!ReadIndex, KI!CompletePartition, KI!Fail, KI!Kill, KI!Patch, KI!BuildBm25, KI!StartUp, KI!InsertRows
  <2> QED BY <2>1 DEF KI!DropDue
<1> QED BY <1>1, <1>2, <1>3, <1>4, <1>5, <1>6, <1>7, DropNextIsDue

\* Rows are moved, and a ready index dropped, by who was asked to.
THEOREM AskedAndDue == ASSUME KeywordBounds PROVE KI!Spec => [][KI!MoveAsked /\ KI!DropDue]_(KI!vars)
<1>1. KI!Init => KeywordInv BY KeywordInitInv
<1>2. KeywordInv /\ [KI!Next]_(KI!vars) => KeywordInv' BY KeywordNextInv
<1>3. KeywordInv /\ [KI!Next]_(KI!vars) => [KI!MoveAsked /\ KI!DropDue]_(KI!vars) BY NextIsDue
<1> QED BY <1>1, <1>2, <1>3, PTL DEF KI!Spec

-----------------------------------------------------------------------------
(* The bm25s file: a committed row is in it, or somebody has it to add. *)

FilePlaces == {"idle", "remove", "add", "build", "drop"}
\* What a thread is at: one source's change, or a build of rows there were.
Shapes == /\ rows \subseteq KF!Items /\ file \in (SUBSET KF!Items) \union {Absent} /\ file # {} /\ cache \in (SUBSET KF!Items) \union {Absent}
          /\ worker \in [Threads -> [task : FilePlaces, add : SUBSET KF!Items, remove : SUBSET KF!Items]]
          /\ keyword \in BOOLEAN /\ attached \in BOOLEAN /\ rebuilds \in BOOLEAN /\ disturbed \in BOOLEAN
FileWorks == \A w \in Threads : /\ worker[w].task # "idle" => worker[w].add # {}
                                /\ worker[w].task = "remove" => \E s \in Sources : worker[w].add \subseteq {s} \X {1, 2} /\ worker[w].remove \subseteq {s} \X {1, 2}
\* What a run is to remove is in no row: its source is busy until it is gone.
RemovesOld == \A w \in Threads : worker[w].task = "remove" => worker[w].remove \cap rows = {}
\* A source has one version of its item.
OneVersion == \A s \in Sources : ~(<<s, 1>> \in rows /\ <<s, 2>> \in rows)
\* The copy in memory is the file, but where a build has written and not dropped it.
CopyIsFile == cache = Absent \/ cache = {} \/ cache = file \/ \E w \in Threads : worker[w].task = "drop"
\* An undisturbed build has every row; a row is in the file, or a run or a build has it to add.
BuildsHaveRows == ~disturbed => \A w \in Threads : worker[w].task = "build" => rows \subseteq worker[w].add
Has(r) == file # Absent /\ r \in file
Coming(r) == \E w \in Threads : worker[w].task \in {"remove", "add", "build"} /\ r \in worker[w].add
RowsAreComing == keyword /\ ~attached /\ ~rebuilds /\ ~disturbed => \A r \in rows : Has(r) \/ Coming(r)
FileInv == Shapes /\ FileWorks /\ RemovesOld /\ OneVersion /\ CopyIsFile /\ BuildsHaveRows /\ RowsAreComing

\* A manager that is loaded has what the file has, or what its copy has.
LEMMA LoadedType == ASSUME Shapes PROVE KF!Loaded \subseteq KF!Items
<1>1. (file # Absent => file \subseteq KF!Items) /\ (cache # Absent => cache \subseteq KF!Items)
  BY DEF Shapes
<1>2. CASE cache \in {Absent, {}} /\ KF!Exists
  <2>1. KF!Loaded = file
    BY <1>2 DEF KF!Loaded
  <2> QED BY <1>1, <1>2, <2>1 DEF KF!Exists
<1>3. CASE cache \in {Absent, {}} /\ ~KF!Exists
  BY <1>3 DEF KF!Loaded
<1>4. CASE cache \notin {Absent, {}}
  <2>1. KF!Loaded = cache
    BY <1>4 DEF KF!Loaded
  <2> QED BY <1>1, <1>4, <2>1
<1> QED BY <1>2, <1>3, <1>4

\* One thread's task changes.
LEMMA Turn == ASSUME Shapes, NEW w \in Threads, NEW t \in [task : FilePlaces, add : SUBSET KF!Items, remove : SUBSET KF!Items], worker' = [worker EXCEPT ![w] = t]
              PROVE /\ worker' \in [Threads -> [task : FilePlaces, add : SUBSET KF!Items, remove : SUBSET KF!Items]]
                    /\ worker'[w] = t /\ \A x \in Threads \ {w} : worker'[x] = worker[x]
  BY DEF Shapes

\* A thread that is idle.
LEMMA NothingType == KF!Nothing \in [task : FilePlaces, add : SUBSET KF!Items, remove : SUBSET KF!Items] /\ KF!Nothing.task = "idle"
  BY DEF KF!Nothing, FilePlaces

\* A commit replaces what a source has by the other version.
LEMMA Committed == ASSUME Shapes, OneVersion, NEW w \in Threads, NEW s \in Sources, KF!Commit(w, s)
                   PROVE \E v \in {1, 2}, old \in SUBSET KF!Items :
                            /\ old = rows \cap ({s} \X {1, 2}) /\ rows' = (rows \ old) \union {<<s, v>>} /\ <<s, v>> \in KF!Items \ old
                            /\ worker' = [worker EXCEPT ![w] = [task |-> "remove", add |-> {<<s, v>>}, remove |-> old]]
<1> DEFINE old == rows \cap ({s} \X {1, 2})
<1>1. old \in SUBSET KF!Items /\ <<s, 1>> \in KF!Items /\ <<s, 2>> \in KF!Items
  BY DEF KF!Items, Shapes
<1>2. CASE <<s, 1>> \in old
  <2>1. <<s, 2>> \notin old
    BY <1>2 DEF OneVersion
  <2>2. (IF <<s, 1>> \in old THEN <<s, 2>> ELSE <<s, 1>>) = <<s, 2>>
    BY <1>2
  <2>3. rows' = (rows \ old) \union {<<s, 2>>} /\ worker' = [worker EXCEPT ![w] = [task |-> "remove", add |-> {<<s, 2>>}, remove |-> old]]
    BY <2>2 DEF KF!Commit
  <2> QED BY <1>1, <2>1, <2>3
<1>3. CASE <<s, 1>> \notin old
  <2>2. (IF <<s, 1>> \in old THEN <<s, 2>> ELSE <<s, 1>>) = <<s, 1>>
    BY <1>3
  <2>3. rows' = (rows \ old) \union {<<s, 1>>} /\ worker' = [worker EXCEPT ![w] = [task |-> "remove", add |-> {<<s, 1>>}, remove |-> old]]
    BY <2>2 DEF KF!Commit
  <2> QED BY <1>1, <1>3, <2>3
<1> QED BY <1>2, <1>3

\* A commit: the new item is coming, and everything else is where it was.
LEMMA CommitKeeps == ASSUME FileInv, NEW w \in Threads, NEW s \in Sources, KF!Commit(w, s) PROVE FileInv'
<1> USE DEF FileInv
<1>1. PICK v \in {1, 2}, old \in SUBSET KF!Items :
                            /\ old = rows \cap ({s} \X {1, 2}) /\ rows' = (rows \ old) \union {<<s, v>>} /\ <<s, v>> \in KF!Items \ old
                            /\ worker' = [worker EXCEPT ![w] = [task |-> "remove", add |-> {<<s, v>>}, remove |-> old]]
  BY Committed
<1> DEFINE t == [task |-> "remove", add |-> {<<s, v>>}, remove |-> old]
<1>2. t \in [task : FilePlaces, add : SUBSET KF!Items, remove : SUBSET KF!Items] /\ t.task = "remove" /\ t.add = {<<s, v>>} /\ t.remove = old
  BY <1>1 DEF FilePlaces
<1> HIDE DEF t
<1>3. /\ worker' \in [Threads -> [task : FilePlaces, add : SUBSET KF!Items, remove : SUBSET KF!Items]]
      /\ worker'[w] = t /\ \A x \in Threads \ {w} : worker'[x] = worker[x]
  BY <1>1, <1>2, Turn DEF t
<1>4. /\ UNCHANGED <<file, cache, keyword, attached, rebuilds>> /\ disturbed' = (disturbed \/ KF!Building)
      /\ worker[w].task = "idle" /\ ~KF!Busy(s)
  BY DEF KF!Commit
<1>5. Shapes'
  <2>1. rows' \subseteq KF!Items
    BY <1>1 DEF Shapes
  <2>2. disturbed' \in BOOLEAN
    BY <1>4 DEF KF!Building, Shapes
  <2> QED BY <1>3, <1>4, <2>1, <2>2 DEF Shapes
<1>6. FileWorks'
  <2>1. \E u \in Sources : worker'[w].add \subseteq {u} \X {1, 2} /\ worker'[w].remove \subseteq {u} \X {1, 2}
    BY <1>1, <1>2, <1>3
  <2> QED BY <1>2, <1>3, <2>1 DEF FileWorks
<1>7. RemovesOld'
  <2>1. worker'[w].remove \cap rows' = {}
    BY <1>1, <1>2, <1>3
  <2>2. ASSUME NEW x \in Threads \ {w}, worker[x].task = "remove" PROVE worker[x].remove \cap rows' = {}
    <3>1. PICK u \in Sources : worker[x].add \subseteq {u} \X {1, 2} /\ worker[x].remove \subseteq {u} \X {1, 2}
      BY <2>2 DEF FileWorks
    <3>2. u # s
      <4>1. worker[x].add # {}
        BY <2>2 DEF FileWorks
      <4> QED BY <1>4, <2>2, <3>1, <4>1 DEF KF!Busy
    <3>3. <<s, v>> \notin worker[x].remove
      BY <3>1, <3>2
    <3>4. worker[x].remove \cap rows = {}
      BY <2>2 DEF RemovesOld
    <3> QED BY <1>1, <3>3, <3>4
  <2> QED BY <1>3, <2>1, <2>2 DEF RemovesOld
<1>8. OneVersion'
  <2>1. ASSUME NEW u \in Sources, NEW x \in {1, 2}, <<u, x>> \in rows' PROVE <<u, x>> = <<s, v>> \/ (u # s /\ <<u, x>> \in rows)
    BY <1>1, <2>1
  <2> SUFFICES ASSUME NEW u \in Sources, <<u, 1>> \in rows', <<u, 2>> \in rows' PROVE FALSE
    BY DEF OneVersion
  <2>2. CASE u = s
    <3>1. <<u, 1>> = <<s, v>> /\ <<u, 2>> = <<s, v>>
      BY <2>1, <2>2
    <3> QED BY <3>1
  <2>3. CASE u # s
    <3>1. <<u, 1>> \in rows /\ <<u, 2>> \in rows
      BY <2>1, <2>3
    <3> QED BY <3>1 DEF OneVersion
  <2> QED BY <2>2, <2>3
<1>9. CopyIsFile'
  BY <1>3, <1>4 DEF CopyIsFile
<1>10. BuildsHaveRows'
  BY <1>2, <1>3, <1>4 DEF BuildsHaveRows, KF!Building
<1>11. RowsAreComing'
  <2> SUFFICES ASSUME keyword, ~attached, ~rebuilds, ~disturbed, ~KF!Building, NEW r \in rows' PROVE (Has(r) \/ Coming(r))'
    BY <1>4 DEF RowsAreComing
  <2>1. CASE r = <<s, v>>
    BY <1>2, <1>3, <2>1 DEF Coming
  <2>2. CASE r \in rows
    BY <1>3, <1>4, <2>2 DEF RowsAreComing, Has, Coming
  <2> QED BY <1>1, <2>1, <2>2
<1> QED BY <1>5, <1>6, <1>7, <1>8, <1>9, <1>10, <1>11
\* What a run loads has what the file has, where no build is about.
LEMMA LoadedHas == ASSUME FileInv, ~KF!Building, NEW r, Has(r) PROVE r \in KF!Loaded
<1>1. cache \in {Absent, {}} \/ cache = file
  BY DEF FileInv, CopyIsFile, KF!Building
<1>2. file # Absent /\ r \in file
  BY DEF Has
<1>3. KF!Loaded = file
  BY <1>1, <1>2 DEF KF!Loaded, KF!Exists
<1> QED BY <1>2, <1>3

\* A removal takes away what is in no row.
LEMMA RemoveKeeps == ASSUME Absent \notin SUBSET KF!Items, FileInv, NEW w \in Threads, KF!RemoveAndSave(w) PROVE FileInv'
<1> USE DEF FileInv
<1> DEFINE t == IF KF!ShouldBuildNow THEN [worker[w] EXCEPT !.task = "add"] ELSE KF!Nothing
           left == KF!Loaded \ worker[w].remove
           nothing == ~KF!ShouldBuildNow \/ worker[w].remove = {} \/ ~KF!Exists
<1>1. worker[w] \in [task : FilePlaces, add : SUBSET KF!Items, remove : SUBSET KF!Items] /\ worker[w].task = "remove" /\ worker' = [worker EXCEPT ![w] = t]
  BY DEF Shapes, KF!RemoveAndSave
<1>2. t \in [task : FilePlaces, add : SUBSET KF!Items, remove : SUBSET KF!Items] /\ t.task \in {"add", "idle"} /\ (t.task = "add" => t.add = worker[w].add)
      /\ (KF!ShouldBuildNow => t.task = "add")
  BY <1>1, NothingType DEF FilePlaces
<1> HIDE DEF t
<1>3. /\ worker' \in [Threads -> [task : FilePlaces, add : SUBSET KF!Items, remove : SUBSET KF!Items]]
      /\ worker'[w] = t /\ \A x \in Threads \ {w} : worker'[x] = worker[x]
  BY <1>1, <1>2, Turn
<1>4. /\ UNCHANGED <<rows, keyword, attached, rebuilds>>
      /\ (nothing /\ UNCHANGED <<file, cache, disturbed>>)
         \/ (~nothing /\ file' = (IF left = {} THEN Absent ELSE left) /\ cache' = file' /\ disturbed' = (disturbed \/ KF!Building))
  BY DEF KF!RemoveAndSave, KF!Remaining
<1>5. left \subseteq KF!Items
  BY LoadedType
<1> HIDE DEF left, nothing
<1>6. Shapes'
  <2>1. file' \in (SUBSET KF!Items) \union {Absent} /\ file' # {} /\ cache' \in (SUBSET KF!Items) \union {Absent}
    <3>1. CASE UNCHANGED <<file, cache>>
      BY <3>1 DEF Shapes
    <3>2. CASE left = {} /\ file' = Absent /\ cache' = file'
      BY <3>2
    <3>3. CASE left # {} /\ file' = left /\ cache' = file'
      BY <1>5, <3>3
    <3> QED BY <1>4, <3>1, <3>2, <3>3
  <2>2. disturbed' \in BOOLEAN
    BY <1>4 DEF Shapes, KF!Building
  <2> QED BY <1>3, <1>4, <2>1, <2>2 DEF Shapes
<1>7. FileWorks'
  BY <1>1, <1>2, <1>3 DEF FileWorks
<1>8. RemovesOld' /\ OneVersion'
  BY <1>2, <1>3, <1>4 DEF RemovesOld, OneVersion
<1>9. CopyIsFile'
  BY <1>1, <1>3, <1>4 DEF CopyIsFile
<1>10. BuildsHaveRows'
  BY <1>2, <1>3, <1>4 DEF BuildsHaveRows
<1>11. RowsAreComing'
  <2> SUFFICES ASSUME keyword, ~attached, ~rebuilds, ~disturbed, ~disturbed', NEW r \in rows PROVE (Has(r) \/ Coming(r))'
    BY <1>4 DEF RowsAreComing
  <2>1. t.task = "add" /\ t.add = worker[w].add
    BY <1>2 DEF KF!ShouldBuildNow
  <2>2. Coming(r) => Coming(r)'
    BY <1>1, <1>3, <2>1 DEF Coming
  <2>3. CASE Has(r) /\ nothing
    BY <1>4, <2>3 DEF Has
  <2>4. CASE Has(r) /\ ~nothing
    <3>1. ~KF!Building
      BY <1>4, <2>4
    <3>2. r \in left
      BY <1>1, <2>4, <3>1, LoadedHas DEF RemovesOld, left
    <3>3. file' = left
      BY <1>4, <2>4, <3>2
    <3>4. file' # Absent
      BY <1>5, <3>3
    <3> QED BY <3>2, <3>3, <3>4 DEF Has
  <2> QED BY <2>2, <2>3, <2>4 DEF RowsAreComing
<1> QED BY <1>6, <1>7, <1>8, <1>9, <1>10, <1>11
\* An addition leaves what the file has, and what it adds.
LEMMA AddKeeps == ASSUME Absent \notin SUBSET KF!Items, FileInv, NEW w \in Threads, KF!AddAndSave(w) PROVE FileInv'
<1> USE DEF FileInv
<1> DEFINE all == KF!Loaded \union worker[w].add
<1>1. /\ worker[w] \in [task : FilePlaces, add : SUBSET KF!Items, remove : SUBSET KF!Items] /\ worker[w].task = "add" /\ worker[w].add # {}
      /\ worker' = [worker EXCEPT ![w] = KF!Nothing]
  <2>1. worker[w] \in [task : FilePlaces, add : SUBSET KF!Items, remove : SUBSET KF!Items] /\ worker[w].task = "add"
    BY DEF Shapes, KF!AddAndSave
  <2> QED BY <2>1 DEF FileWorks, KF!AddAndSave
<1>2. /\ worker' \in [Threads -> [task : FilePlaces, add : SUBSET KF!Items, remove : SUBSET KF!Items]]
      /\ worker'[w] = KF!Nothing /\ worker'[w].task = "idle" /\ \A x \in Threads \ {w} : worker'[x] = worker[x]
  BY <1>1, Turn, NothingType
<1>3. /\ UNCHANGED <<rows, keyword, attached, rebuilds>> /\ disturbed' = (disturbed \/ KF!Building)
      /\ cache' = all /\ file' = all /\ all # {} /\ all \subseteq KF!Items
  BY <1>1, LoadedType DEF KF!AddAndSave, KF!Added
<1> HIDE DEF all
<1>4. Shapes'
  BY <1>2, <1>3 DEF Shapes, KF!Building
<1>5. FileWorks' /\ RemovesOld' /\ OneVersion' /\ CopyIsFile'
  BY <1>2, <1>3 DEF FileWorks, RemovesOld, OneVersion, CopyIsFile
<1>6. BuildsHaveRows'
  BY <1>2, <1>3 DEF BuildsHaveRows
<1>7. RowsAreComing'
  <2> SUFFICES ASSUME keyword, ~attached, ~rebuilds, ~disturbed, ~KF!Building, NEW r \in rows PROVE (Has(r) \/ Coming(r))'
    BY <1>3 DEF RowsAreComing
  <2>1. file' # Absent
    BY <1>3
  <2>2. CASE Has(r)
    BY <1>3, <2>1, <2>2, LoadedHas DEF Has, all
  <2>3. ASSUME NEW x \in Threads, worker[x].task \in {"remove", "add", "build"}, r \in worker[x].add PROVE (Has(r) \/ Coming(r))'
    <3>1. CASE x = w
      BY <1>3, <2>1, <2>3, <3>1 DEF Has, all
    <3>2. CASE x # w
      BY <1>2, <2>3, <3>2 DEF Coming
    <3> QED BY <3>1, <3>2
  <2> QED BY <2>2, <2>3 DEF RowsAreComing, Coming
<1> QED BY <1>4, <1>5, <1>6, <1>7

\* A build from scratch: it reads every row, writes them over the file, drops the copy.
LEMMA BuildKeeps == ASSUME Absent \notin SUBSET KF!Items, FileInv, NEW w \in Threads, KF!ReadItems(w) \/ KF!RebuildFromScratch(w) \/ KF!DropCache(w) PROVE FileInv'
<1> USE DEF FileInv
<1>1. CASE KF!ReadItems(w) /\ rows # {}
  <2> DEFINE t == [task |-> "build", add |-> rows, remove |-> {}]
  <2>1. t \in [task : FilePlaces, add : SUBSET KF!Items, remove : SUBSET KF!Items] /\ t.task = "build" /\ t.add = rows /\ worker' = [worker EXCEPT ![w] = t]
    BY <1>1 DEF KF!ReadItems, Shapes, FilePlaces
  <2> HIDE DEF t
  <2>2. /\ worker' \in [Threads -> [task : FilePlaces, add : SUBSET KF!Items, remove : SUBSET KF!Items]]
        /\ worker'[w] = t /\ \A x \in Threads \ {w} : worker'[x] = worker[x]
    BY <2>1, Turn
  <2>3. /\ UNCHANGED <<rows, file, cache, keyword, attached>> /\ rebuilds' = FALSE /\ disturbed' = (disturbed /\ KF!Building) /\ worker[w].task = "idle"
    BY <1>1 DEF KF!ReadItems
  <2>4. Shapes'
    BY <2>2, <2>3 DEF Shapes, KF!Building
  <2>5. FileWorks' /\ RemovesOld' /\ OneVersion' /\ CopyIsFile'
    BY <1>1, <2>1, <2>2, <2>3 DEF FileWorks, RemovesOld, OneVersion, CopyIsFile
  <2>6. BuildsHaveRows'
    BY <2>1, <2>2, <2>3 DEF BuildsHaveRows, KF!Building
  <2>7. RowsAreComing'
    BY <2>1, <2>2, <2>3 DEF RowsAreComing, Coming
  <2> QED BY <2>4, <2>5, <2>6, <2>7
<1>2. CASE KF!ReadItems(w) /\ rows = {}
  <2>1. /\ worker' \in [Threads -> [task : FilePlaces, add : SUBSET KF!Items, remove : SUBSET KF!Items]]
        /\ worker'[w].task = "idle" /\ \A x \in Threads \ {w} : worker'[x] = worker[x]
    BY <1>2, Turn, NothingType DEF KF!ReadItems
  <2>2. /\ UNCHANGED <<rows, file, cache, keyword, attached>> /\ rebuilds' = FALSE /\ disturbed' = (disturbed /\ KF!Building) /\ worker[w].task = "idle"
    BY <1>2 DEF KF!ReadItems
  <2>3. Shapes'
    BY <2>1, <2>2 DEF Shapes, KF!Building
  <2>4. FileWorks' /\ RemovesOld' /\ OneVersion' /\ CopyIsFile' /\ BuildsHaveRows' /\ RowsAreComing'
    BY <1>2, <2>1, <2>2 DEF FileWorks, RemovesOld, OneVersion, CopyIsFile, BuildsHaveRows, RowsAreComing
  <2> QED BY <2>3, <2>4
<1>3. CASE KF!RebuildFromScratch(w)
  <2>1. worker[w] \in [task : FilePlaces, add : SUBSET KF!Items, remove : SUBSET KF!Items] /\ worker[w].task = "build" /\ worker[w].add # {}
    BY <1>3 DEF KF!RebuildFromScratch, Shapes, FileWorks
  <2> DEFINE t == [worker[w] EXCEPT !.task = "drop"]
  <2>2. t \in [task : FilePlaces, add : SUBSET KF!Items, remove : SUBSET KF!Items] /\ t.task = "drop" /\ t.add = worker[w].add /\ worker' = [worker EXCEPT ![w] = t]
    BY <1>3, <2>1 DEF KF!RebuildFromScratch, FilePlaces
  <2> HIDE DEF t
  <2>3. /\ worker' \in [Threads -> [task : FilePlaces, add : SUBSET KF!Items, remove : SUBSET KF!Items]]
        /\ worker'[w] = t /\ \A x \in Threads \ {w} : worker'[x] = worker[x]
    BY <2>2, Turn
  <2>4. UNCHANGED <<rows, cache, keyword, attached, rebuilds, disturbed>> /\ file' = worker[w].add
    BY <1>3 DEF KF!RebuildFromScratch
  <2>5. file' # Absent /\ file' \subseteq KF!Items
    BY <2>1, <2>4
  <2>6. Shapes'
    BY <2>1, <2>3, <2>4, <2>5 DEF Shapes
  <2>7. FileWorks' /\ RemovesOld' /\ OneVersion' /\ CopyIsFile' /\ BuildsHaveRows'
    BY <2>1, <2>2, <2>3, <2>4 DEF FileWorks, RemovesOld, OneVersion, CopyIsFile, BuildsHaveRows
  <2>8. RowsAreComing'
    BY <2>1, <2>4, <2>5 DEF RowsAreComing, BuildsHaveRows, Has
  <2> QED BY <2>6, <2>7, <2>8
<1>4. CASE KF!DropCache(w)
  <2>1. /\ worker' \in [Threads -> [task : FilePlaces, add : SUBSET KF!Items, remove : SUBSET KF!Items]]
        /\ worker'[w].task = "idle" /\ \A x \in Threads \ {w} : worker'[x] = worker[x]
    BY <1>4, Turn, NothingType DEF KF!DropCache
  <2>2. UNCHANGED <<rows, file, keyword, attached, rebuilds, disturbed>> /\ cache' = Absent /\ worker[w].task = "drop"
    BY <1>4 DEF KF!DropCache
  <2>3. Shapes'
    BY <2>1, <2>2 DEF Shapes
  <2>4. FileWorks' /\ RemovesOld' /\ OneVersion' /\ CopyIsFile' /\ BuildsHaveRows'
    BY <2>1, <2>2 DEF FileWorks, RemovesOld, OneVersion, CopyIsFile, BuildsHaveRows
  <2>5. RowsAreComing'
    BY <2>1, <2>2 DEF RowsAreComing, Has, Coming
  <2> QED BY <2>3, <2>4, <2>5
<1> QED BY <1>1, <1>2, <1>3, <1>4

\* What others do takes rows away, or asks for a build, or retires the file.
LEMMA OthersKeep == ASSUME Absent \notin SUBSET KF!Items, FileInv, \/ KF!Evict \/ (\E s \in Sources : KF!DeleteSource(s)) \/ (\E k \in BOOLEAN : KF!SetMethod(k))
                                    \/ (\E w \in Threads : KF!RetireFileIndex(w)) \/ UNCHANGED KF!vars
                    PROVE FileInv'
<1> USE DEF FileInv
<1>1. CASE KF!Evict \/ UNCHANGED KF!vars
  BY <1>1 DEF KF!Evict, KF!vars, Shapes, FileWorks, RemovesOld, OneVersion, CopyIsFile, BuildsHaveRows, RowsAreComing, Has, Coming
<1>2. ASSUME NEW s \in Sources, KF!DeleteSource(s) PROVE FileInv'
  <2>1. rows' \subseteq rows /\ UNCHANGED <<file, cache, worker, keyword, attached, rebuilds, disturbed>>
    BY <1>2 DEF KF!DeleteSource
  <2>2. Shapes' /\ FileWorks'
    BY <2>1 DEF Shapes, FileWorks
  <2>3. RemovesOld' /\ OneVersion' /\ CopyIsFile' /\ BuildsHaveRows'
    BY <2>1 DEF RemovesOld, OneVersion, CopyIsFile, BuildsHaveRows
  <2>4. RowsAreComing'
    BY <2>1 DEF RowsAreComing, Has, Coming
  <2> QED BY <2>2, <2>3, <2>4
<1>3. ASSUME NEW k \in BOOLEAN, KF!SetMethod(k) PROVE FileInv'
  <2>1. UNCHANGED <<rows, file, cache, worker, attached, disturbed>> /\ keyword' \in BOOLEAN /\ rebuilds' = (keyword' /\ ~attached)
    BY <1>3 DEF KF!SetMethod
  <2>2. Shapes'
    BY <2>1 DEF Shapes
  <2>3. FileWorks' /\ RemovesOld' /\ OneVersion' /\ CopyIsFile' /\ BuildsHaveRows' /\ RowsAreComing'
    BY <2>1 DEF FileWorks, RemovesOld, OneVersion, CopyIsFile, BuildsHaveRows, RowsAreComing
  <2> QED BY <2>2, <2>3
<1>4. ASSUME NEW w \in Threads, KF!RetireFileIndex(w) PROVE FileInv'
  <2>1. UNCHANGED <<rows, worker, keyword, rebuilds, disturbed>> /\ attached' = TRUE /\ file' = Absent /\ cache' = Absent /\ Absent # {}
    <3>1. Absent # {} OBVIOUS
    <3> QED BY <1>4, <3>1 DEF KF!RetireFileIndex
  <2> QED BY <2>1 DEF Shapes, FileWorks, RemovesOld, OneVersion, CopyIsFile, BuildsHaveRows, RowsAreComing
<1> QED BY <1>1, <1>2, <1>3, <1>4

\* metadata.json counts some items of a build.
Counted == counted = Absent \/ counted \in 1..Cardinality(KF!Items)
\* A component counts as its composition does.
LEMMA FileCounts == \A S : KF!Cardinality(S) = Cardinality(S)
  BY DEF KF!Cardinality, Cardinality
\* Rows are counted as they are.
LEMMA CountedStep == ASSUME IsFiniteSet(Sources), Shapes, FileWorks, Counted, [KF!Next]_(KF!vars) PROVE Counted'
<1>1. CASE counted' \in {counted, Absent}
  BY <1>1 DEF Counted
<1>2. ASSUME NEW w \in Threads, KF!DropCache(w) PROVE Counted'
  <2>1. worker[w].add \subseteq KF!Items /\ worker[w].add # {}
    <3>1. worker[w] \in [task : FilePlaces, add : SUBSET KF!Items, remove : SUBSET KF!Items] /\ worker[w].task = "drop"
      BY <1>2 DEF KF!DropCache, Shapes
    <3> QED BY <3>1 DEF FileWorks
  <2>2. IsFiniteSet({1, 2})
    <3>1. IsFiniteSet({1}) BY FS_Singleton
    <3>2. IsFiniteSet({1} \union {2}) BY <3>1, FS_AddElement
    <3>3. {1} \union {2} = {1, 2} OBVIOUS
    <3> QED BY <3>2, <3>3
  <2>3. IsFiniteSet(KF!Items)
    BY <2>2, FS_Product DEF KF!Items
  <2>4. /\ IsFiniteSet(worker[w].add) /\ Cardinality(worker[w].add) <= Cardinality(KF!Items)
    BY <2>1, <2>3, FS_Subset
  <2>5. Cardinality(worker[w].add) \in Nat /\ Cardinality(KF!Items) \in Nat /\ Cardinality(worker[w].add) # 0
    BY <2>1, <2>3, <2>4, FS_CardinalityType, FS_EmptySet
  <2>6. counted' = Cardinality(worker[w].add) BY <1>2, FileCounts DEF KF!DropCache
  <2> QED BY <2>4, <2>5, <2>6 DEF Counted
<1>3. ASSUME NEW w \in Threads, \/ (\E s \in Sources : KF!Commit(w, s)) \/ KF!RemoveAndSave(w) \/ KF!AddAndSave(w) \/ KF!ReadItems(w)
                                \/ KF!RebuildFromScratch(w) \/ KF!RetireFileIndex(w) PROVE counted' \in {counted, Absent}
  BY <1>3 DEF KF!Commit, KF!RemoveAndSave, KF!AddAndSave, KF!ReadItems, KF!RebuildFromScratch, KF!RetireFileIndex
<1>4. ASSUME KF!Evict \/ (\E s \in Sources : KF!DeleteSource(s)) \/ (\E k \in BOOLEAN : KF!SetMethod(k)) \/ UNCHANGED KF!vars PROVE counted' = counted
  BY <1>4 DEF KF!Evict, KF!DeleteSource, KF!SetMethod, KF!vars
<1> QED BY <1>1, <1>2, <1>3, <1>4 DEF KF!Next

(* Once the tasks that follow a commit are done, the file that a search would read
   has every committed row, unless a build was overtaken by them. *)
THEOREM FileHasTheRows == ASSUME Absent \notin SUBSET KF!Items, IsFiniteSet(Sources) PROVE KF!Spec => [](KF!TypeOK /\ KF!FileComplete)
<1>1. KF!Init => FileInv /\ Counted
  <2> SUFFICES ASSUME KF!Init PROVE FileInv /\ Counted
    OBVIOUS
  <2>1. Absent # {}
    OBVIOUS
  <2>2. Shapes
    BY <2>1, NothingType DEF KF!Init, Shapes
  <2>3. \A w \in Threads : worker[w].task = "idle"
    BY NothingType DEF KF!Init
  <2> QED BY <2>2, <2>3 DEF KF!Init, FileInv, FileWorks, RemovesOld, OneVersion, CopyIsFile, BuildsHaveRows, RowsAreComing, Counted
<1>2. FileInv /\ Counted /\ [KF!Next]_(KF!vars) => (FileInv /\ Counted)'
  <2>1. FileInv /\ Counted /\ [KF!Next]_(KF!vars) => Counted'
    BY CountedStep DEF FileInv
  <2>2. FileInv /\ [KF!Next]_(KF!vars) => FileInv'
    BY CommitKeeps, RemoveKeeps, AddKeeps, BuildKeeps, OthersKeep DEF KF!Next
  <2> QED BY <2>1, <2>2
<1>3. FileInv /\ Counted => KF!TypeOK /\ KF!FileComplete
  <2> SUFFICES ASSUME FileInv, Counted PROVE KF!TypeOK /\ KF!FileComplete
    OBVIOUS
  <2>1. KF!TypeOK
    BY FileCounts DEF FileInv, Shapes, FilePlaces, Counted, KF!TypeOK
  <2>2. KF!FileComplete
    <3> SUFFICES ASSUME KF!Quiet, keyword, ~disturbed, ~attached, KF!Exists, NEW r \in rows PROVE r \in file
      BY DEF KF!FileComplete, KF!Findable
    <3>1. ~Coming(r) /\ ~rebuilds
      BY DEF KF!Quiet, Coming
    <3> QED BY <3>1 DEF FileInv, RowsAreComing, Has
  <2> QED BY <2>1, <2>2
<1> QED BY <1>1, <1>2, <1>3, PTL DEF KF!Spec

-----------------------------------------------------------------------------
(* The vector indexes: who has the table, what each task knows of its index, and
   where the record of failures is while the index is away. *)

Counts == [fails : Nat, breaks : Nat, rebuilds : Nat]
Named == Definitions \union {Unknown}
Indexes == [state : {"absent", "invalid", "ready"}, def : Named, recorded : Named, counts : Counts]
VectorKinds == {"ensure", "drop"}
Queues == [at : {"queued"}, locked : {FALSE}, held : {FALSE}, kind : VectorKinds, kb : KBs, retries : Nat]
Steps == {"survey", "next", "gate"} \union VI!Statements
VectorWorks == [at : Steps, locked : BOOLEAN, held : BOOLEAN, kind : VectorKinds, kb : KBs, retries : Nat,
          def : Definitions, many : BOOLEAN, place : BOOLEAN, prior : Counts]
Records == {VI!Idle} \union Queues \union VectorWorks
Sizes == {"gone", "few", "between", "many"}
Sessions == {"none", "building", "dropping", "bare"}
VectorWorld == size \in [KBs -> Sizes] /\ others \in [KBs -> Sessions] /\ foreign \in BOOLEAN
VectorTypes == vindex \in [KBs -> Indexes] /\ failed \in [KBs -> Nat] /\ vtask \in [Threads -> Records]

\* A task has the lock of its index, and nobody else has.
Locks == \A s, o \in Threads : vtask[s].locked /\ vtask[o].locked /\ vtask[s].kb = vtask[o].kb => s = o
\* Who works on the table: a task with its lock, a session without, or one of another module.
Table == /\ \A s, o \in Threads : vtask[s].held /\ vtask[o].held => s = o
         /\ \A s \in Threads : vtask[s].held => ~foreign /\ \A k \in KBs : others[k] = "none"
         /\ \A k, j \in KBs : others[k] # "none" /\ others[j] # "none" => k = j
         /\ foreign => \A k \in KBs : others[k] = "none"
\* What a task r goes by, of an index i whose builds failed f times: while it takes the index away, the record is with it.
Carrying == {"repair", "next", "gate", "build"}
Holds(r) == r.locked /\ r.at \in Carrying
VectorSound(r, i, f) == /\ r.held => r.locked
                        /\ r.at \in VI!Statements => r.held
                        /\ r.at = "survey" => r.locked
                        /\ Holds(r) => f <= r.prior.fails
                        /\ r.at = "replace" => f = 0 /\ r.prior.fails = 0
                        /\ r.at \in {"gate", "build"} \/ (r.at \in {"repair", "next"} /\ r.many) => r.prior.fails < MaxFailures
                        /\ r.at \in {"repair", "build"} => i.state = "invalid"
                        /\ r.at = "build" => i.def = r.def
VectorMemory == \A s \in Threads : VectorSound(vtask[s], vindex[vtask[s].kb], failed[vtask[s].kb])
Known(i, f, found) == /\ i.state = "absent" => i.counts.fails = 0
                      /\ i.state = "ready" => f = 0
                      /\ f <= MaxFailures
                      /\ ~found => i.recorded \in {Unknown, i.def}
Carrier(k) == \E s \in Threads : Holds(vtask[s]) /\ vtask[s].kb = k
Record == \A k \in KBs : Known(vindex[k], failed[k], k \in taken) /\ (~Carrier(k) => failed[k] <= vindex[k].counts.fails)
VectorInv == VectorWorld /\ VectorTypes /\ Locks /\ Table /\ VectorMemory /\ Record
\* Among the tasks, one of an index; the others' indexes are left alone.
VectorBound == MaxFailures \in Nat \ {0}

-----------------------------------------------------------------------------
\* A slot that runs nothing holds nothing.
LEMMA NothingHeld == VI!Idle.at = "idle" /\ VI!Idle.locked = FALSE /\ VI!Idle.held = FALSE
BY DEF VI!Idle

\* What a queued task has.
LEMMA Queued == \A q \in Queues : q.at = "queued" /\ q.locked = FALSE /\ q.held = FALSE /\ q.kb \in KBs /\ q # VI!Idle
<1>1. \A q \in Queues : q.at = "queued" /\ q.locked = FALSE /\ q.held = FALSE /\ q.kb \in KBs BY DEF Queues
<1>2. "queued" # VI!Idle.at BY DEF VI!Idle
<1> QED BY <1>1, <1>2

\* What a task at work has.
LEMMA Worked == \A w \in VectorWorks : /\ w.at \in Steps /\ w.locked \in BOOLEAN /\ w.held \in BOOLEAN /\ w.kind \in VectorKinds /\ w.kb \in KBs
                                       /\ w.retries \in Nat /\ w.def \in Definitions /\ w.many \in BOOLEAN /\ w.prior \in Counts /\ w.prior.fails \in Nat
BY DEF VectorWorks, Counts

\* A task that is neither idle nor queued is at work.
LEMMA AtWork == ASSUME NEW r \in Records, r.at \notin {"idle", "queued"} PROVE r \in VectorWorks
BY NothingHeld, Queued DEF Records

\* Who holds a lock is at work.
LEMMA LockedWorks == ASSUME NEW r \in Records, r.locked \/ r.held PROVE r \in VectorWorks
BY NothingHeld, Queued DEF Records

\* A task that is not locked is sound whatever becomes of the index, and a failure less makes none unsound.
LEMMA SoundUnlocked == ASSUME NEW r \in Records, NEW i, NEW f, NEW j, NEW g, VectorSound(r, i, f), ~r.locked PROVE VectorSound(r, j, g)
BY DEF VectorSound, Holds, VI!Statements

\* What a task knows does not suffer from fewer failures.
LEMMA SoundFewer == ASSUME NEW r \in Records, NEW i, NEW f \in Nat, NEW g \in Nat, g <= f, VectorSound(r, i, f) PROVE VectorSound(r, i, g)
<1>1. Holds(r) => r.prior.fails \in Nat BY LockedWorks, Worked DEF Holds
<1>2. Holds(r) => g <= r.prior.fails BY <1>1 DEF VectorSound
<1>3. r.at = "replace" => g = 0 BY DEF VectorSound
<1> QED BY <1>2, <1>3 DEF VectorSound

-----------------------------------------------------------------------------
\* One task takes a step on one index: what it has to leave behind.
LEMMA VectorStep ==
    ASSUME VectorTypes, Locks, VectorMemory, Record, NEW s \in Threads, NEW k \in KBs, NEW r \in Records,
           vtask[s] = VI!Idle \/ vtask[s].kb = k, r = VI!Idle \/ r.kb = k, vtask' = [vtask EXCEPT ![s] = r],
           vindex' \in [KBs -> Indexes], failed' \in [KBs -> Nat],
           \A j \in KBs \ {k} : vindex'[j] = vindex[j] /\ failed'[j] = failed[j] /\ (j \in taken' <=> j \in taken),
           r.locked => vtask[s].locked \/ ~VI!IndexLocked(k),
           (vindex'[k] = vindex[k] /\ failed'[k] <= failed[k]) \/ vtask[s].locked \/ ~VI!IndexLocked(k),
           VectorSound(r, vindex'[k], failed'[k]), Known(vindex'[k], failed'[k], k \in taken'),
           \/ Holds(r) \/ failed'[k] <= vindex'[k].counts.fails
           \/ vindex'[k] = vindex[k] /\ failed'[k] <= failed[k] /\ ~Holds(vtask[s])
    PROVE  VectorTypes' /\ Locks' /\ VectorMemory' /\ Record'
<1>1. vtask' \in [Threads -> Records] /\ vtask'[s] = r /\ \A o \in Threads : o # s => vtask'[o] = vtask[o] BY DEF VectorTypes
<1>2. \A o \in Threads : vtask[o] \in Records BY DEF VectorTypes
<1>3. \A o \in Threads : vtask[o].locked => vtask[o].kb \in KBs BY <1>2, LockedWorks, Worked
<1>4. VectorTypes' BY <1>1 DEF VectorTypes
<1>5. ASSUME NEW o \in Threads, o # s, vtask[o].locked, vtask[o].kb = k PROVE ~vtask[s].locked /\ VI!IndexLocked(k)
  <2>1. VI!IndexLocked(k) BY <1>5 DEF VI!IndexLocked
  <2>2. vtask[s].locked => vtask[s].kb = k BY NothingHeld
  <2> QED BY <1>5, <2>1, <2>2 DEF Locks
<1>6. Locks'
  <2> SUFFICES ASSUME NEW a \in Threads, NEW b \in Threads, a # b, vtask'[a].locked, vtask'[b].locked, vtask'[a].kb = vtask'[b].kb PROVE FALSE
    BY DEF Locks
  <2>1. r.locked => r.kb = k BY NothingHeld
  <2>2. CASE a # s /\ b # s BY <1>1, <2>2 DEF Locks
  <2>3. CASE a = s BY <1>1, <1>5, <2>1, <2>3
  <2>4. CASE b = s BY <1>1, <1>5, <2>1, <2>4
  <2> QED BY <2>2, <2>3, <2>4
<1>7. VectorMemory'
  <2> SUFFICES ASSUME NEW o \in Threads PROVE VectorSound(vtask'[o], vindex'[vtask'[o].kb], failed'[vtask'[o].kb]) BY DEF VectorMemory
  <2>1. CASE o = s
    <3>1. CASE r = VI!Idle BY <1>1, <2>1, <3>1, NothingHeld DEF VectorSound, Holds, VI!Statements
    <3>2. CASE r.kb = k BY <1>1, <2>1, <3>2
    <3> QED BY <3>1, <3>2
  <2>2. CASE o # s
    <3>1. vtask'[o] = vtask[o] /\ VectorSound(vtask[o], vindex[vtask[o].kb], failed[vtask[o].kb]) BY <1>1, <2>2 DEF VectorMemory
    <3>2. CASE ~vtask[o].locked BY <1>2, <3>1, <3>2, SoundUnlocked
    <3>3. CASE vtask[o].locked /\ vtask[o].kb # k
      <4>1. vtask[o].kb \in KBs \ {k} BY <1>3, <3>3
      <4>2. vindex'[vtask[o].kb] = vindex[vtask[o].kb] /\ failed'[vtask[o].kb] = failed[vtask[o].kb] BY <4>1
      <4> QED BY <3>1, <4>2
    <3>4. CASE vtask[o].locked /\ vtask[o].kb = k
      <4>1. vindex'[k] = vindex[k] /\ failed'[k] <= failed[k] BY <1>5, <2>2, <3>4
      <4>2. failed[k] \in Nat /\ failed'[k] \in Nat BY DEF VectorTypes
      <4>3. VectorSound(vtask[o], vindex[k], failed[k]) BY <3>1, <3>4
      <4>4. VectorSound(vtask[o], vindex[k], failed'[k]) BY <1>2, <4>1, <4>2, <4>3, SoundFewer
      <4> QED BY <3>1, <3>4, <4>1, <4>4
    <3> QED BY <3>2, <3>3, <3>4
  <2> QED BY <2>1, <2>2
<1>8. Record'
  <2> SUFFICES ASSUME NEW j \in KBs PROVE Known(vindex'[j], failed'[j], j \in taken') /\ (~Carrier(j)' => failed'[j] <= vindex'[j].counts.fails)
    BY DEF Record
  <2>1. Carrier(j)' <=> \E o \in Threads : Holds(vtask'[o]) /\ vtask'[o].kb = j BY DEF Carrier, Holds
  <2>2. CASE j # k
    <3>1. vindex'[j] = vindex[j] /\ failed'[j] = failed[j] /\ (j \in taken' <=> j \in taken) BY <2>2
    <3>2. Carrier(j) => Carrier(j)'
      <4>1. \A o \in Threads : Holds(vtask[o]) /\ vtask[o].kb = j => o # s BY <2>2, NothingHeld DEF Holds
      <4> QED BY <1>1, <2>1, <4>1 DEF Carrier
    <3> QED BY <3>1, <3>2 DEF Record
  <2>3. CASE j = k
    <3>1. Holds(r) => Carrier(k)' BY <1>1, <2>1, <2>3, NothingHeld DEF Holds
    <3>2. CASE vindex'[k] = vindex[k] /\ failed'[k] <= failed[k] /\ ~Holds(vtask[s])
      <4>1. Carrier(k) => Carrier(k)' BY <1>1, <2>1, <2>3, <3>2 DEF Carrier
      <4>2. ~Carrier(k)' => failed[k] <= vindex[k].counts.fails BY <4>1 DEF Record
      <4>3. failed[k] \in Nat /\ failed'[k] \in Nat /\ vindex[k].counts.fails \in Nat BY DEF VectorTypes, Indexes, Counts
      <4> QED BY <2>3, <3>2, <4>2, <4>3
    <3> QED BY <2>3, <3>1, <3>2
  <2> QED BY <2>2, <2>3
<1> QED BY <1>4, <1>6, <1>7, <1>8

\* Nobody comes to a table that is taken.
LEMMA TableStep ==
    ASSUME VectorTypes, Table, NEW s \in Threads, NEW r, vtask' = [vtask EXCEPT ![s] = r], UNCHANGED <<others, foreign>>,
           r.held => vtask[s].held \/ ~VI!TableBusy
    PROVE  Table'
<1>1. vtask'[s] = r /\ \A o \in Threads : o # s => vtask'[o] = vtask[o] BY DEF VectorTypes
<1>2. ~VI!TableBusy => ~foreign /\ (\A k \in KBs : others[k] = "none") /\ \A o \in Threads : ~vtask[o].held BY DEF VI!TableBusy
<1> QED BY <1>1, <1>2 DEF Table

\* A step of one task: what it leaves of its index and where it is then, in the names of VectorStep.
LEMMA Moves ==
    ASSUME VectorInv, NEW s \in Threads, NEW k \in KBs, NEW r \in Records,
           vtask[s] = VI!Idle \/ vtask[s].kb = k, r = VI!Idle \/ r.kb = k, vtask' = [vtask EXCEPT ![s] = r],
           vindex' \in [KBs -> Indexes], failed' \in [KBs -> Nat], UNCHANGED <<others, foreign>>, size' \in [KBs -> Sizes],
           \A j \in KBs \ {k} : vindex'[j] = vindex[j] /\ failed'[j] = failed[j] /\ (j \in taken' <=> j \in taken),
           r.locked => vtask[s].locked \/ ~VI!IndexLocked(k), r.held => vtask[s].held \/ ~VI!TableBusy,
           (vindex'[k] = vindex[k] /\ failed'[k] <= failed[k]) \/ vtask[s].locked \/ ~VI!IndexLocked(k),
           VectorSound(r, vindex'[k], failed'[k]), Known(vindex'[k], failed'[k], k \in taken'),
           \/ Holds(r) \/ failed'[k] <= vindex'[k].counts.fails
           \/ vindex'[k] = vindex[k] /\ failed'[k] <= failed[k] /\ ~Holds(vtask[s])
    PROVE  VectorInv'
<1>1. VectorTypes' /\ Locks' /\ VectorMemory' /\ Record' BY VectorStep DEF VectorInv
<1>2. Table' BY TableStep DEF VectorInv
<1>3. VectorWorld' BY DEF VectorInv, VectorWorld
<1> QED BY <1>1, <1>2, <1>3 DEF VectorInv

\* A task that ends, retries or waits holds nothing.
LEMMA Away == ASSUME NEW s \in Threads, vtask \in [Threads -> Records], vtask[s] \in Queues \union VectorWorks, VI!End(s) \/ VI!Retry(s) \/ VI!Waits(s) \/ VI!Refused(s)
              PROVE  \E r \in {VI!Idle} \union Queues : vtask' = [vtask EXCEPT ![s] = r] /\ (r = VI!Idle \/ r.kb = vtask[s].kb)
<1>1. vtask[s].kind \in VectorKinds /\ vtask[s].kb \in KBs /\ vtask[s].retries \in Nat BY DEF Queues, VectorWorks
<1>2. \A num \in Nat : VI!Task(vtask[s].kind, vtask[s].kb, num) \in Queues /\ VI!Task(vtask[s].kind, vtask[s].kb, num).kb = vtask[s].kb
  BY <1>1 DEF VI!Task, Queues
<1>3. CASE VI!End(s) BY <1>3 DEF VI!End, VI!Set
<1>4. CASE VI!Retry(s)
  <2>1. vtask[s].retries + 1 \in Nat BY <1>1
  <2>2. CASE vtask[s].retries >= VectorRetries BY <1>4, <2>2 DEF VI!Retry, VI!Set
  <2>3. CASE ~(vtask[s].retries >= VectorRetries)
    <3>1. vtask' = [vtask EXCEPT ![s] = VI!Task(vtask[s].kind, vtask[s].kb, vtask[s].retries + 1)] BY <1>4, <2>3 DEF VI!Retry, VI!Set
    <3> QED BY <1>2, <2>1, <3>1
  <2> QED BY <2>2, <2>3
<1>5. CASE VI!Waits(s)
  <2>1. CASE VI!Set(s, VI!Task(vtask[s].kind, vtask[s].kb, vtask[s].retries)) BY <1>1, <1>2, <2>1 DEF VI!Set
  <2> QED BY <1>3, <1>5, <2>1 DEF VI!Waits
<1> QED BY <1>3, <1>4, <1>5 DEF VI!Refused

\* The task is over, or waits to be run again.
LEMMA GoesAway ==
    ASSUME VectorInv, NEW s \in Threads, NEW k \in KBs, vtask[s] \in Queues \union VectorWorks, vtask[s].kb = k,
           VI!End(s) \/ VI!Retry(s) \/ VI!Waits(s) \/ VI!Refused(s),
           vindex' \in [KBs -> Indexes], failed' \in [KBs -> Nat], UNCHANGED <<size, others, foreign>>,
           \A j \in KBs \ {k} : vindex'[j] = vindex[j] /\ failed'[j] = failed[j] /\ (j \in taken' <=> j \in taken),
           (vindex'[k] = vindex[k] /\ failed'[k] <= failed[k]) \/ vtask[s].locked \/ ~VI!IndexLocked(k),
           Known(vindex'[k], failed'[k], k \in taken'),
           \/ failed'[k] <= vindex'[k].counts.fails
           \/ vindex'[k] = vindex[k] /\ failed'[k] <= failed[k] /\ ~Holds(vtask[s])
    PROVE  VectorInv'
<1>1. vtask \in [Threads -> Records] BY DEF VectorInv, VectorTypes
<1>2. PICK r \in {VI!Idle} \union Queues : vtask' = [vtask EXCEPT ![s] = r] /\ (r = VI!Idle \/ r.kb = vtask[s].kb) BY <1>1, Away
<1>3. r \in Records BY <1>2 DEF Records
<1>4. ~r.locked /\ ~r.held /\ r.at \in {"idle", "queued"} BY <1>2, NothingHeld, Queued
<1>5. VectorSound(r, vindex'[k], failed'[k]) BY <1>4 DEF VectorSound, Holds, VI!Statements
<1>6. size' \in [KBs -> Sizes] BY DEF VectorInv, VectorWorld
<1> QED BY <1>2, <1>3, <1>4, <1>5, <1>6, Moves

\* Nothing becomes of the index.
LEMMA GoesAwayOnly ==
    ASSUME VectorInv, NEW s \in Threads, vtask[s] \in Queues \union VectorWorks, ~Holds(vtask[s]), VI!End(s) \/ VI!Retry(s) \/ VI!Waits(s) \/ VI!Refused(s),
           UNCHANGED <<size, vindex, others, foreign, taken, failed>>
    PROVE  VectorInv'
<1>1. vtask[s].kb \in KBs BY Queued, Worked
<1>2. vindex' \in [KBs -> Indexes] /\ failed' \in [KBs -> Nat] BY DEF VectorInv, VectorTypes
<1>3. vindex'[vtask[s].kb] = vindex[vtask[s].kb] /\ failed'[vtask[s].kb] <= failed[vtask[s].kb] BY <1>1 DEF VectorInv, VectorTypes
<1>4. Known(vindex'[vtask[s].kb], failed'[vtask[s].kb], vtask[s].kb \in taken') BY <1>1 DEF VectorInv, Record
<1> QED BY <1>1, <1>2, <1>3, <1>4, GoesAway

\* A task that issues its statement has the table.
LEMMA Issued == ASSUME NEW t \in VectorWorks, NEW a \in VI!Statements
                PROVE  LET r == [t EXCEPT !.at = a, !.locked = TRUE, !.held = TRUE]
                       IN  r \in VectorWorks /\ r.at = a /\ r.locked /\ r.held /\ r.kb = t.kb /\ r.prior = t.prior /\ r.many = t.many /\ r.def = t.def
BY DEF VectorWorks, Steps

\* What a task has read is what is there.
LEMMA ReadWork == ASSUME NEW s \in Threads, NEW k \in KBs, vtask[s] \in VectorWorks, vindex[k] \in Indexes
                  PROVE  /\ VI!Read(s, k) \in VectorWorks /\ VI!Read(s, k).at = vtask[s].at /\ VI!Read(s, k).locked = vtask[s].locked /\ VI!Read(s, k).held = vtask[s].held
                         /\ VI!Read(s, k).kb = vtask[s].kb /\ VI!Read(s, k).many = (size[k] = "many") /\ VI!Read(s, k).prior = vindex[k].counts
                         /\ VI!Read(s, k).def = vtask[s].def
<1>1. vindex[k].counts \in Counts /\ (size[k] = "many") \in BOOLEAN BY DEF Indexes
<1> QED BY <1>1 DEF VectorWorks, VI!Read

\* Counts, by their parts.
LEMMA CountsFacts == \A c \in Counts : c.fails \in Nat /\ c.breaks \in Nat /\ c.rebuilds \in Nat
BY DEF Counts

\* Indexes, by their parts.
LEMMA IndexFacts == \A i \in Indexes : i.state \in {"absent", "invalid", "ready"} /\ i.def \in Named /\ i.recorded \in Named /\ i.counts \in Counts /\ i.counts.fails \in Nat
BY DEF Indexes, Counts

\* No index, and nothing counted.
LEMMA NothingIs == /\ VI!NoCounts \in Counts /\ VI!NoCounts.fails = 0 /\ VI!NoIndex \in Indexes
                   /\ VI!NoIndex.state = "absent" /\ VI!NoIndex.counts = VI!NoCounts /\ VI!NoIndex.recorded = Unknown
BY DEF VI!NoCounts, Counts, VI!NoIndex, Indexes, Named

-----------------------------------------------------------------------------
\* A task starts with the lock of its index or does not.
LEMMA VectorStartInv == ASSUME VectorInv, NEW s \in Threads, NEW d \in Definitions, VI!Start(s, d) PROVE VectorInv'
<1> DEFINE k == vtask[s].kb
           r == [at |-> "survey", locked |-> TRUE, held |-> FALSE, kind |-> vtask[s].kind, kb |-> k, retries |-> vtask[s].retries,
                 def |-> d, many |-> FALSE, place |-> FALSE, prior |-> VI!NoCounts]
<1>1. vtask[s] \in Queues
  <2>1. vtask[s] \in Records /\ vtask[s].at = "queued" BY DEF VI!Start, VectorInv, VectorTypes
  <2> QED BY <2>1, NothingHeld, Worked DEF Records, Steps, VI!Statements
<1>2. ~Holds(vtask[s]) /\ k \in KBs BY <1>1, Queued DEF Holds
<1>3. UNCHANGED <<size, vindex, others, foreign, taken, failed>> BY DEF VI!Start
<1>4. CASE VI!End(s) \/ VI!Retry(s) BY <1>1, <1>2, <1>3, <1>4, GoesAwayOnly
<1>5. CASE ~VI!IndexLocked(k) /\ VI!Set(s, r)
  <2>1. r \in VectorWorks /\ r.kb = k /\ r.locked /\ ~r.held /\ r.at = "survey" BY <1>1, NothingIs DEF Queues, VectorWorks, Steps
  <2> HIDE DEF r, k
  <2>2. r \in Records /\ vtask' = [vtask EXCEPT ![s] = r] BY <1>5, <2>1 DEF Records, VI!Set
  <2>3. vindex' \in [KBs -> Indexes] /\ failed' \in [KBs -> Nat] /\ size' \in [KBs -> Sizes] BY <1>3 DEF VectorInv, VectorTypes, VectorWorld
  <2>4. vindex'[k] = vindex[k] /\ failed'[k] <= failed[k] BY <1>2, <1>3 DEF VectorInv, VectorTypes
  <2>5. Known(vindex'[k], failed'[k], k \in taken') BY <1>2, <1>3 DEF VectorInv, Record
  <2>6. VectorSound(r, vindex'[k], failed'[k]) BY <2>1 DEF VectorSound, Holds, VI!Statements, Carrying
  <2>7. vtask[s].kb = k BY DEF k
  <2> QED BY <1>2, <1>3, <1>5, <2>1, <2>2, <2>3, <2>4, <2>5, <2>6, <2>7, Moves
<1> QED BY <1>4, <1>5 DEF VI!Start

\* A survey is made under the lock.
LEMMA AtSurvey == ASSUME VectorInv, NEW s \in Threads, vtask[s].at = "survey"
                  PROVE  /\ vtask[s] \in VectorWorks /\ vtask[s].locked /\ ~Holds(vtask[s]) /\ vtask[s].kb \in KBs
                         /\ failed[vtask[s].kb] <= vindex[vtask[s].kb].counts.fails
<1>1. vtask[s] \in VectorWorks /\ vtask[s].kb \in KBs
  <2>1. vtask[s] \in Records BY DEF VectorInv, VectorTypes
  <2>2. vtask[s] \in VectorWorks BY <2>1, AtWork
  <2> QED BY <2>2, Worked
<1>2. vtask[s].locked BY DEF VectorInv, VectorMemory, VectorSound
<1>3. ~Carrier(vtask[s].kb) BY <1>2 DEF VectorInv, Locks, Carrier, Holds, Carrying
<1> QED BY <1>1, <1>2, <1>3 DEF VectorInv, Record, Holds, Carrying

\* A statement is issued on the index of a task that has its lock, or gets it.
LEMMA Issues ==
    ASSUME VectorInv, NEW s \in Threads, NEW k \in KBs, vtask[s].kb = k, NEW t \in VectorWorks, t.kb = k, NEW a \in VI!Statements,
           VI!Issue(s, t, a), vtask[s].held \/ ~VI!TableBusy, vtask[s].locked \/ ~VI!IndexLocked(k), UNCHANGED <<size, others, foreign, taken, failed>>,
           vindex' \in [KBs -> Indexes], \A j \in KBs \ {k} : vindex'[j] = vindex[j],
           a \in {"repair", "build"} => failed[k] <= t.prior.fails,
           a = "replace" => failed[k] = 0 /\ t.prior.fails = 0,
           a = "build" \/ (a = "repair" /\ t.many) => t.prior.fails < MaxFailures,
           a \in {"repair", "build"} => vindex'[k].state = "invalid", a = "build" => vindex'[k].def = t.def,
           a \in {"drop", "replace"} => failed[k] <= vindex'[k].counts.fails,
           Known(vindex'[k], failed[k], k \in taken)
    PROVE  VectorInv'
<1> DEFINE r == [t EXCEPT !.at = a, !.locked = TRUE, !.held = TRUE]
<1>1. r \in VectorWorks /\ r.at = a /\ r.locked /\ r.held /\ r.kb = t.kb /\ r.prior = t.prior /\ r.many = t.many /\ r.def = t.def
  BY Issued
<1>2. vtask' = [vtask EXCEPT ![s] = r] BY DEF VI!Issue, VI!Set
<1> HIDE DEF r
<1>3. r \in Records BY <1>1 DEF Records
<1>4. failed' \in [KBs -> Nat] /\ size' \in [KBs -> Sizes] BY DEF VectorInv, VectorTypes, VectorWorld
<1>5. VectorSound(r, vindex'[k], failed'[k]) BY <1>1 DEF VectorSound, Holds, Carrying, VI!Statements
<1>6. Holds(r) \/ failed'[k] <= vindex'[k].counts.fails BY <1>1 DEF Holds, Carrying, VI!Statements
<1> QED BY <1>1, <1>2, <1>3, <1>4, <1>5, <1>6, Moves

-----------------------------------------------------------------------------
\* One index changes.
LEMMA IndexSet == ASSUME VectorTypes, NEW k \in KBs, NEW x \in Indexes, vindex' = [vindex EXCEPT ![k] = x]
                  PROVE  vindex' \in [KBs -> Indexes] /\ vindex'[k] = x /\ \A j \in KBs \ {k} : vindex'[j] = vindex[j]
BY DEF VectorTypes

\* One count changes.
LEMMA FailedSet == ASSUME VectorTypes, NEW k \in KBs, NEW num \in Nat, failed' = [failed EXCEPT ![k] = num]
                   PROVE  failed' \in [KBs -> Nat] /\ failed'[k] = num /\ \A j \in KBs \ {k} : failed'[j] = failed[j]
BY DEF VectorTypes

\* An index that is settled has nothing against it.
LEMMA Settles == ASSUME NEW i \in Indexes
                 PROVE  /\ VI!Settled(i) \in Indexes /\ VI!Settled(i).state = i.state /\ VI!Settled(i).def = i.def /\ VI!Settled(i).recorded = i.recorded
                        /\ VI!Settled(i).counts.fails = i.counts.fails
BY DEF VI!Settled, Indexes, Counts

\* A failure is counted.
LEMMA CountsOne == ASSUME NEW i \in Indexes
                   PROVE  /\ VI!Counted(i) \in Indexes /\ VI!Counted(i).state = i.state /\ VI!Counted(i).def = i.def /\ VI!Counted(i).recorded = i.recorded
                          /\ VI!Counted(i).counts.fails = 0
BY DEF VI!Counted, VI!NoCounts, Indexes, Counts

\* An index that is marked is the index it was.
LEMMA Marks == ASSUME NEW i \in Indexes, NEW x \in {"absent", "invalid", "ready"}
               PROVE  LET m == [i EXCEPT !.state = x]
                      IN  m \in Indexes /\ m.state = x /\ m.def = i.def /\ m.recorded = i.recorded /\ m.counts = i.counts
BY DEF Indexes

\* A survey ends, or goes on with what it has read.
LEMMA SurveyInv == ASSUME VectorBound, VectorInv, NEW s \in Threads, VI!Survey(s) PROVE VectorInv'
<1> DEFINE k == vtask[s].kb
<1>1. /\ vtask[s] \in VectorWorks /\ vtask[s].locked /\ ~Holds(vtask[s]) /\ k \in KBs /\ vtask[s].at = "survey"
      /\ failed[k] <= vindex[k].counts.fails
  BY AtSurvey DEF VI!Survey
<1>2. vindex[k] \in Indexes /\ failed[k] \in Nat /\ vindex[k].counts.fails \in Nat BY <1>1, IndexFacts DEF VectorInv, VectorTypes
<1>3. Known(vindex[k], failed[k], k \in taken) BY <1>1 DEF VectorInv, Record
<1>4. /\ VI!Read(s, k) \in VectorWorks /\ VI!Read(s, k).at = "survey" /\ VI!Read(s, k).locked = vtask[s].locked /\ VI!Read(s, k).held = vtask[s].held
      /\ VI!Read(s, k).kb = k /\ VI!Read(s, k).many = (size[k] = "many") /\ VI!Read(s, k).prior = vindex[k].counts /\ VI!Read(s, k).def = vtask[s].def
  BY <1>1, <1>2, ReadWork
<1>5. UNCHANGED <<size, others, foreign, taken>> BY DEF VI!Survey
<1>6. (VI!End(s) \/ VI!Retry(s) \/ VI!Waits(s) \/ VI!Refused(s)) /\ UNCHANGED <<vindex, failed>> => VectorInv'
  BY <1>1, <1>5, GoesAwayOnly
<1>7. vindex' = vindex => vindex' \in [KBs -> Indexes] /\ \A j \in KBs \ {k} : vindex'[j] = vindex[j] BY DEF VectorInv, VectorTypes
<1>8. MaxFailures \in Nat BY DEF VectorBound
<1>9. ASSUME VI!SurveyInvalid(s, k), UNCHANGED failed PROVE VectorInv'
  <2>1. UNCHANGED vindex BY <1>9 DEF VI!SurveyInvalid
  <2>2. CASE ~VI!TableBusy /\ VI!Issue(s, VI!Read(s, k), "repair") /\ ~(VI!GivenUp(vindex[k].counts) /\ ~VI!Small(k))
    <3>1. VI!Read(s, k).many => VI!Read(s, k).prior.fails < MaxFailures
      <4>1. size[k] = "many" => ~VI!Small(k) BY DEF VI!Small
      <4>2. VI!Read(s, k).many => size[k] = "many" BY <1>4
      <4>3. size[k] = "many" => ~VI!GivenUp(vindex[k].counts) BY <2>2, <4>1
      <4>4. ~VI!GivenUp(vindex[k].counts) => ~(vindex[k].counts.fails >= MaxFailures) BY DEF VI!GivenUp
      <4>5. ~(vindex[k].counts.fails >= MaxFailures) => vindex[k].counts.fails < MaxFailures BY <1>2, <1>8
      <4> QED BY <1>4, <4>2, <4>3, <4>4, <4>5
    <3>2. vindex'[k] = vindex[k] BY <2>1
    <3>3. failed[k] <= VI!Read(s, k).prior.fails BY <1>1, <1>4
    <3>4. "repair" \in VI!Statements /\ vindex[k].state = "invalid" BY <1>9 DEF VI!Statements, VI!SurveyInvalid
    <3> QED BY <1>1, <1>3, <1>4, <1>5, <1>7, <1>9, <2>1, <2>2, <3>1, <3>2, <3>3, <3>4, Issues
  <2> QED BY <1>6, <1>9, <2>1, <2>2 DEF VI!SurveyInvalid
<1>10. ASSUME VI!SurveyDrop(s, k), UNCHANGED failed PROVE VectorInv'
  <2>1. UNCHANGED vindex BY <1>10 DEF VI!SurveyDrop
  <2>2. CASE ~VI!TableBusy /\ VI!Issue(s, VI!Read(s, k), "drop")
    <3>1. "drop" \in VI!Statements /\ vindex'[k] = vindex[k] BY <2>1 DEF VI!Statements
    <3> QED BY <1>1, <1>3, <1>4, <1>5, <1>7, <1>10, <2>1, <2>2, <3>1, Issues
  <2> QED BY <1>6, <1>10, <2>1, <2>2 DEF VI!SurveyDrop
<1>11. ASSUME VI!SurveyReady(s, k), UNCHANGED failed PROVE VectorInv'
  <2>1. vindex[k].state = "ready" /\ failed[k] = 0 BY <1>3, <1>11 DEF VI!SurveyReady, Known
  <2>2. CASE VI!End(s) /\ vindex' = [vindex EXCEPT ![k] = VI!Settled(vindex[k])]
    <3>1. /\ VI!Settled(vindex[k]) \in Indexes /\ VI!Settled(vindex[k]).state = vindex[k].state /\ VI!Settled(vindex[k]).def = vindex[k].def
          /\ VI!Settled(vindex[k]).recorded = vindex[k].recorded /\ VI!Settled(vindex[k]).counts.fails = vindex[k].counts.fails
      BY <1>2, Settles
    <3>2. vindex' \in [KBs -> Indexes] /\ vindex'[k] = VI!Settled(vindex[k]) /\ \A j \in KBs \ {k} : vindex'[j] = vindex[j]
      BY <1>1, <2>2, <3>1, IndexSet DEF VectorInv
    <3>3. Known(vindex'[k], failed'[k], k \in taken') BY <1>3, <1>5, <1>11, <3>1, <3>2 DEF Known
    <3>4. failed'[k] <= vindex'[k].counts.fails BY <1>1, <1>11, <3>1, <3>2
    <3>5. failed' \in [KBs -> Nat] /\ (\A j \in KBs \ {k} : failed'[j] = failed[j] /\ (j \in taken' <=> j \in taken)) BY <1>5, <1>11 DEF VectorInv, VectorTypes
    <3> QED BY <1>1, <1>5, <2>2, <3>2, <3>3, <3>4, <3>5, GoesAway
  <2>3. CASE /\ ~VI!TableBusy /\ vindex' = [vindex EXCEPT ![k] = VI!Counted(vindex[k])]
             /\ VI!Issue(s, [VI!Read(s, k) EXCEPT !.prior = VI!Counted(vindex[k]).counts, !.place = TRUE], "replace")
    <3> DEFINE t == [VI!Read(s, k) EXCEPT !.prior = VI!Counted(vindex[k]).counts, !.place = TRUE]
    <3>1. /\ VI!Counted(vindex[k]) \in Indexes /\ VI!Counted(vindex[k]).state = vindex[k].state /\ VI!Counted(vindex[k]).def = vindex[k].def
          /\ VI!Counted(vindex[k]).recorded = vindex[k].recorded /\ VI!Counted(vindex[k]).counts.fails = 0
      BY <1>2, CountsOne
    <3>2. vindex' \in [KBs -> Indexes] /\ vindex'[k] = VI!Counted(vindex[k]) /\ \A j \in KBs \ {k} : vindex'[j] = vindex[j]
      BY <1>1, <2>3, <3>1, IndexSet DEF VectorInv
    <3>3. VI!Counted(vindex[k]).counts \in Counts BY <3>1, IndexFacts
    <3>4. t \in VectorWorks /\ t.kb = k /\ t.prior = VI!Counted(vindex[k]).counts BY <1>4, <3>3 DEF VectorWorks
    <3> HIDE DEF t
    <3>5. Known(vindex'[k], failed[k], k \in taken) BY <1>3, <3>1, <3>2 DEF Known
    <3>6. failed[k] = 0 /\ t.prior.fails = 0 /\ vindex'[k].counts.fails = 0 BY <2>1, <3>1, <3>2, <3>4
    <3>7. "replace" \in VI!Statements BY DEF VI!Statements
    <3>8. VI!Issue(s, t, "replace") BY <2>3 DEF t
    <3> QED BY <1>1, <1>5, <1>11, <2>3, <3>2, <3>4, <3>5, <3>6, <3>7, <3>8, Issues, SMTT(60)
  <2> QED BY <1>6, <1>11, <2>2, <2>3 DEF VI!SurveyReady
<1>12. ASSUME VI!SurveyAbsent(s, k) PROVE VectorInv'
  <2>1. vindex' = vindex /\ failed' = [failed EXCEPT ![k] = 0] BY <1>12 DEF VI!SurveyAbsent
  <2>2. failed' \in [KBs -> Nat] /\ failed'[k] = 0 /\ \A j \in KBs \ {k} : failed'[j] = failed[j] BY <1>1, <2>1, FailedSet DEF VectorInv
  <2>3. Known(vindex'[k], failed'[k], k \in taken') BY <1>3, <1>5, <1>8, <2>1, <2>2 DEF Known
  <2>4. failed'[k] <= vindex'[k].counts.fails /\ failed'[k] <= failed[k] /\ vindex'[k] = vindex[k] BY <1>2, <2>1, <2>2
  <2>5. CASE VI!End(s) BY <1>1, <1>5, <1>7, <2>1, <2>2, <2>3, <2>4, <2>5, GoesAway
  <2>6. CASE VI!Set(s, [VI!Read(s, k) EXCEPT !.at = "gate"])
    <3> DEFINE r == [VI!Read(s, k) EXCEPT !.at = "gate"]
    <3>1. r \in VectorWorks /\ r.at = "gate" /\ r.kb = k /\ r.locked = vtask[s].locked /\ r.held = vtask[s].held /\ r.prior = vindex[k].counts
      BY <1>4 DEF VectorWorks, Steps
    <3>2. vtask' = [vtask EXCEPT ![s] = r] BY <2>6 DEF VI!Set
    <3> HIDE DEF r
    <3>3. r \in Records BY <3>1 DEF Records
    <3>4. vindex[k].counts.fails = 0 BY <1>3, <1>12 DEF Known, VI!SurveyAbsent
    <3>5. VectorSound(r, vindex'[k], failed'[k]) BY <1>1, <1>8, <2>2, <3>1, <3>4 DEF VectorSound, Holds, VI!Statements, VectorBound
    <3>6. size' \in [KBs -> Sizes] BY <1>5 DEF VectorInv, VectorWorld
    <3> QED BY <1>1, <1>5, <1>7, <2>1, <2>2, <2>3, <2>4, <3>1, <3>2, <3>3, <3>5, <3>6, Moves
  <2> QED BY <1>12, <2>5, <2>6 DEF VI!SurveyAbsent
<1> QED BY <1>9, <1>10, <1>11, <1>12 DEF VI!Survey

-----------------------------------------------------------------------------
\* A statement is issued under the lock, on a table that was taken.
LEMMA AtStatement == ASSUME VectorInv, NEW s \in Threads, vtask[s].at \in VI!Statements
                     PROVE  /\ vtask[s] \in VectorWorks /\ vtask[s].locked /\ vtask[s].held /\ vtask[s].kb \in KBs /\ vindex[vtask[s].kb] \in Indexes
                            /\ failed[vtask[s].kb] \in Nat /\ vtask[s].prior \in Counts /\ vtask[s].def \in Definitions
<1>1. vtask[s] \in VectorWorks
  <2>1. vtask[s] \in Records BY DEF VectorInv, VectorTypes
  <2> QED BY <2>1, AtWork DEF VI!Statements
<1>2. vtask[s].kb \in KBs /\ vtask[s].prior \in Counts /\ vtask[s].def \in Definitions BY <1>1, Worked
<1> QED BY <1>1, <1>2 DEF VectorInv, VectorMemory, VectorSound, VectorTypes

\* A record that was dropped with its index is with the task.
LEMMA DroppedInv == ASSUME VectorBound, VectorInv, NEW s \in Threads, VI!Dropped(s) PROVE VectorInv'
<1> DEFINE k == vtask[s].kb
<1>1. /\ vtask[s] \in VectorWorks /\ vtask[s].locked /\ vtask[s].held /\ k \in KBs /\ vindex[k] \in Indexes /\ failed[k] \in Nat
      /\ vtask[s].at \in {"repair", "drop", "replace"}
  BY AtStatement DEF VI!Dropped, VI!Statements
<1>2. UNCHANGED <<size, others, foreign>> /\ vindex' = [vindex EXCEPT ![k] = VI!NoIndex] /\ taken' = taken \ {k} BY DEF VI!Dropped
<1>3. vindex' \in [KBs -> Indexes] /\ vindex'[k] = VI!NoIndex /\ \A j \in KBs \ {k} : vindex'[j] = vindex[j] BY <1>1, <1>2, NothingIs, IndexSet DEF VectorInv
<1>4. \A j \in KBs \ {k} : j \in taken' <=> j \in taken BY <1>2
<1>5. ASSUME NEW f \in Nat, f <= failed[k] PROVE Known(VI!NoIndex, f, k \in taken')
  <2>1. failed[k] <= MaxFailures BY <1>1 DEF VectorInv, Record, Known
  <2> QED BY <1>1, <1>5, <2>1, NothingIs DEF Known, VectorBound
<1>6. size' \in [KBs -> Sizes] BY <1>2 DEF VectorInv, VectorWorld
<1>7. failed' = [failed EXCEPT ![k] = 0] => failed' \in [KBs -> Nat] /\ failed'[k] = 0 /\ \A j \in KBs \ {k} : failed'[j] = failed[j]
  BY <1>1, FailedSet DEF VectorInv
<1>8. CASE VI!End(s) /\ failed' = [failed EXCEPT ![k] = 0]
  <2>1. failed'[k] <= vindex'[k].counts.fails /\ Known(vindex'[k], failed'[k], k \in taken') BY <1>1, <1>3, <1>5, <1>7, <1>8, NothingIs
  <2> QED BY <1>1, <1>2, <1>3, <1>4, <1>7, <1>8, <2>1, GoesAway
<1>9. CASE vtask[s].at # "drop" /\ VI!Set(s, [vtask[s] EXCEPT !.at = "next"]) /\ UNCHANGED failed
  <2> DEFINE r == [vtask[s] EXCEPT !.at = "next"]
  <2>1. /\ r \in VectorWorks /\ r.at = "next" /\ r.kb = k /\ r.locked = vtask[s].locked /\ r.held = vtask[s].held /\ r.prior = vtask[s].prior
        /\ r.many = vtask[s].many
    BY <1>1 DEF VectorWorks, Steps
  <2>2. vtask' = [vtask EXCEPT ![s] = r] BY <1>9 DEF VI!Set
  <2> HIDE DEF r
  <2>3. r \in Records /\ Holds(r) BY <1>1, <2>1 DEF Records, Holds, Carrying
  <2>4. VectorSound(vtask[s], vindex[k], failed[k]) BY DEF VectorInv, VectorMemory
  <2>5. failed[k] <= vtask[s].prior.fails BY <1>1, <1>9, <2>4 DEF VectorSound, Holds, Carrying
  <2>6. r.many => r.prior.fails < MaxFailures BY <1>1, <1>9, <2>1, <2>4 DEF VectorSound, VectorBound
  <2>7. VectorSound(r, vindex'[k], failed'[k]) BY <1>1, <1>9, <2>1, <2>5, <2>6 DEF VectorSound, VI!Statements
  <2>8. Known(vindex'[k], failed'[k], k \in taken') BY <1>1, <1>3, <1>5, <1>9
  <2>9. failed' \in [KBs -> Nat] /\ \A j \in KBs \ {k} : failed'[j] = failed[j] BY <1>9 DEF VectorInv, VectorTypes
  <2>10. \A j \in KBs \ {k} : vindex'[j] = vindex[j] /\ failed'[j] = failed[j] /\ (j \in taken' <=> j \in taken) BY <1>3, <1>4, <2>9
  <2>11. vtask[s].kb = k /\ r.kb = k /\ (r.locked => vtask[s].locked) /\ (r.held => vtask[s].held) BY <2>1
  <2> HIDE DEF k
  <2> QED BY <1>1, <1>2, <1>3, <1>6, <2>2, <2>3, <2>7, <2>8, <2>9, <2>10, <2>11, Moves
<1>10. CASE /\ vtask[s].at # "drop" /\ VI!Set(s, [vtask[s] EXCEPT !.at = "next", !.locked = FALSE, !.held = FALSE])
            /\ failed' = [failed EXCEPT ![k] = 0]
  <2> DEFINE r == [vtask[s] EXCEPT !.at = "next", !.locked = FALSE, !.held = FALSE]
  <2>1. /\ r \in VectorWorks /\ r.at = "next" /\ r.kb = k /\ ~r.locked /\ ~r.held /\ r.prior = vtask[s].prior /\ r.many = vtask[s].many
    BY <1>1 DEF VectorWorks, Steps
  <2>2. vtask' = [vtask EXCEPT ![s] = r] BY <1>10 DEF VI!Set
  <2> HIDE DEF r
  <2>3. r \in Records BY <2>1 DEF Records
  <2>4. VectorSound(vtask[s], vindex[k], failed[k]) BY DEF VectorInv, VectorMemory
  <2>6. r.many => r.prior.fails < MaxFailures BY <1>1, <1>10, <2>1, <2>4 DEF VectorSound, VectorBound
  <2>7. VectorSound(r, vindex'[k], failed'[k]) BY <2>1, <2>6 DEF VectorSound, Holds, VI!Statements
  <2>8. Known(vindex'[k], failed'[k], k \in taken') /\ failed'[k] <= vindex'[k].counts.fails BY <1>1, <1>3, <1>5, <1>7, <1>10, NothingIs
  <2> QED BY <1>1, <1>2, <1>3, <1>4, <1>6, <1>7, <1>10, <2>1, <2>2, <2>3, <2>7, <2>8, Moves
<1> QED BY <1>1, <1>8, <1>9, <1>10 DEF VI!Dropped

\* An attempt that fails is counted, where it was no passing failure.
LEMMA Attempts == ASSUME NEW c \in Counts, NEW transient \in BOOLEAN
                  PROVE  /\ VI!Attempt(c, transient) \in Counts /\ VI!Attempt(c, transient).fails >= c.fails
                         /\ ~transient => VI!Attempt(c, transient).fails = c.fails + 1
BY DEF VI!Attempt, Counts

\* A DROP that fails leaves the index and its record.
LEMMA DropFailsInv == ASSUME VectorBound, VectorInv, NEW s \in Threads, NEW transient \in BOOLEAN, VI!DropFails(s, transient) PROVE VectorInv'
<1> DEFINE k == vtask[s].kb
<1>1. /\ vtask[s] \in VectorWorks /\ vtask[s].locked /\ vtask[s].held /\ k \in KBs /\ vindex[k] \in Indexes /\ failed[k] \in Nat
      /\ vtask[s].at \in {"repair", "drop", "replace"} /\ vtask[s].prior \in Counts
  BY AtStatement DEF VI!DropFails, VI!Statements
<1>2. UNCHANGED <<size, others, foreign, taken, failed>> /\ (VI!End(s) \/ VI!Retry(s)) BY DEF VI!DropFails
<1>3. Known(vindex[k], failed[k], k \in taken) BY <1>1 DEF VectorInv, Record
<1>4. VectorSound(vtask[s], vindex[k], failed[k]) BY DEF VectorInv, VectorMemory
<1>5. failed' \in [KBs -> Nat] /\ \A j \in KBs \ {k} : failed'[j] = failed[j] /\ (j \in taken' <=> j \in taken) BY <1>2 DEF VectorInv, VectorTypes
<1>6. ASSUME NEW x \in Indexes, vindex' = [vindex EXCEPT ![k] = x], Known(x, failed[k], k \in taken), failed[k] <= x.counts.fails PROVE VectorInv'
  <2>1. vindex' \in [KBs -> Indexes] /\ vindex'[k] = x /\ \A j \in KBs \ {k} : vindex'[j] = vindex[j] BY <1>1, <1>6, IndexSet DEF VectorInv
  <2>2. Known(vindex'[k], failed'[k], k \in taken') /\ failed'[k] <= vindex'[k].counts.fails BY <1>2, <1>6, <2>1
  <2> QED BY <1>1, <1>2, <1>5, <2>1, <2>2, GoesAway
<1>7. CASE vtask[s].at = "repair" /\ vindex' = [vindex EXCEPT ![k] = VI!RepairFailed(@, vtask[s], transient)]
  <2> DEFINE c == VI!Attempt(vtask[s].prior, transient)
             x == [vindex[k] EXCEPT !.counts = c]
  <2>1. c \in Counts /\ c.fails >= vtask[s].prior.fails BY <1>1, Attempts
  <2>2. failed[k] <= vtask[s].prior.fails BY <1>1, <1>4, <1>7 DEF VectorSound, Holds, Carrying
  <2>3. failed[k] <= c.fails BY <1>1, <2>1, <2>2, CountsFacts
  <2> HIDE DEF c
  <2>4. x \in Indexes /\ x.state = vindex[k].state /\ x.def = vindex[k].def /\ x.recorded = vindex[k].recorded /\ x.counts = c
    BY <1>1, <2>1 DEF Indexes
  <2>5. vindex' = [vindex EXCEPT ![k] = x] BY <1>1, <1>7 DEF VI!RepairFailed, c, VectorInv, VectorTypes
  <2> HIDE DEF x
  <2>6. vindex[k].state # "absent" BY <1>4, <1>7 DEF VectorSound
  <2>7. Known(x, failed[k], k \in taken) BY <1>3, <2>4, <2>6 DEF Known
  <2> QED BY <1>6, <2>3, <2>4, <2>5, <2>7
<1>8. CASE vtask[s].at # "repair" /\ \E after \in {vindex[k].state, "invalid"} : vindex' = [vindex EXCEPT ![k].state = after]
  <2>1. PICK after \in {vindex[k].state, "invalid"} : vindex' = [vindex EXCEPT ![k].state = after] BY <1>8
  <2> DEFINE x == [vindex[k] EXCEPT !.state = after]
  <2>2. after \in {"absent", "invalid", "ready"} BY <1>1, IndexFacts
  <2>3. x \in Indexes /\ x.state = after /\ x.def = vindex[k].def /\ x.recorded = vindex[k].recorded /\ x.counts = vindex[k].counts
    BY <1>1, <2>2, Marks
  <2>4. vindex' = [vindex EXCEPT ![k] = x] BY <1>1, <2>1 DEF VectorInv, VectorTypes
  <2> HIDE DEF x
  <2>5. Known(x, failed[k], k \in taken) BY <1>3, <2>3 DEF Known
  <2>6. ~Carrier(k)
    <3>1. ~Holds(vtask[s]) BY <1>1, <1>8 DEF Holds, Carrying
    <3>2. \A o \in Threads : vtask[o].locked /\ vtask[o].kb = k => o = s BY <1>1 DEF VectorInv, Locks
    <3> QED BY <3>1, <3>2 DEF Carrier, Holds
  <2>7. failed[k] <= x.counts.fails BY <1>1, <2>3, <2>6 DEF VectorInv, Record
  <2> QED BY <1>6, <2>3, <2>4, <2>5, <2>7
<1> QED BY <1>7, <1>8 DEF VI!DropFails

-----------------------------------------------------------------------------
\* The next statement needs the table.
LEMMA NextStatementInv == ASSUME VectorBound, VectorInv, NEW s \in Threads, VI!Next_(s) PROVE VectorInv'
<1> DEFINE k == vtask[s].kb
<1>1. vtask[s] \in VectorWorks /\ k \in KBs /\ vtask[s].at = "next"
  <2>1. vtask[s] \in Records /\ vtask[s].at = "next" BY DEF VectorInv, VectorTypes, VI!Next_
  <2> QED BY <2>1, AtWork, Worked
<1>2. vindex[k] \in Indexes /\ failed[k] \in Nat /\ vindex[k].counts.fails \in Nat BY <1>1, IndexFacts DEF VectorInv, VectorTypes
<1>3. UNCHANGED <<size, vindex, others, foreign, taken>> BY DEF VI!Next_
<1>4. Known(vindex[k], failed[k], k \in taken) /\ VectorSound(vtask[s], vindex[k], failed[k]) BY <1>1 DEF VectorInv, Record, VectorMemory
<1>5. vindex' \in [KBs -> Indexes] /\ \A j \in KBs \ {k} : vindex'[j] = vindex[j] /\ (j \in taken' <=> j \in taken) BY <1>3 DEF VectorInv, VectorTypes
<1>6. CASE VI!End(s) /\ failed' = [failed EXCEPT ![k] = 0]
  <2>1. failed' \in [KBs -> Nat] /\ failed'[k] = 0 /\ \A j \in KBs \ {k} : failed'[j] = failed[j] BY <1>1, <1>6, FailedSet DEF VectorInv
  <2>2. Known(vindex'[k], failed'[k], k \in taken') BY <1>3, <1>4, <2>1 DEF Known, VectorBound
  <2>3. vindex'[k] = vindex[k] /\ failed'[k] <= failed[k] /\ failed'[k] <= vindex'[k].counts.fails BY <1>2, <1>3, <2>1
  <2> QED BY <1>1, <1>3, <1>5, <1>6, <2>1, <2>2, <2>3, GoesAway
<1>7. CASE vtask[s].many /\ VI!Set(s, [vtask[s] EXCEPT !.at = "gate"]) /\ UNCHANGED failed
  <2> DEFINE r == [vtask[s] EXCEPT !.at = "gate"]
  <2>1. r \in VectorWorks /\ r.at = "gate" /\ r.kb = k /\ r.locked = vtask[s].locked /\ r.held = vtask[s].held /\ r.prior = vtask[s].prior
    BY <1>1 DEF VectorWorks, Steps
  <2>2. vtask' = [vtask EXCEPT ![s] = r] BY <1>7 DEF VI!Set
  <2> HIDE DEF r
  <2>3. r \in Records /\ (Holds(r) <=> Holds(vtask[s])) BY <1>1, <2>1 DEF Records, Holds, Carrying
  <2>4. VectorSound(r, vindex'[k], failed'[k]) BY <1>1, <1>3, <1>4, <1>7, <2>1 DEF VectorSound, Holds, Carrying, VI!Statements
  <2>5. Known(vindex'[k], failed'[k], k \in taken') BY <1>3, <1>4, <1>7
  <2>6. failed' \in [KBs -> Nat] /\ size' \in [KBs -> Sizes] /\ vindex'[k] = vindex[k] /\ failed'[k] <= failed[k]
    BY <1>2, <1>3, <1>7 DEF VectorInv, VectorTypes, VectorWorld
  <2>7. \A j \in KBs \ {k} : vindex'[j] = vindex[j] /\ failed'[j] = failed[j] /\ (j \in taken' <=> j \in taken) BY <1>5, <1>7
  <2>8. vtask[s].kb = k /\ r.kb = k /\ (r.locked => vtask[s].locked) /\ (r.held => vtask[s].held) BY <2>1
  <2> HIDE DEF k
  <2> QED BY <1>1, <1>3, <1>5, <2>2, <2>3, <2>4, <2>5, <2>6, <2>7, <2>8, Moves
<1> QED BY <1>1, <1>6, <1>7, Worked DEF VI!Next_

\* Without a carrier the record is on the index.
LEMMA NotCarried == ASSUME VectorInv, NEW k \in KBs, ~VI!IndexLocked(k) PROVE failed[k] <= vindex[k].counts.fails
BY DEF VectorInv, Record, Carrier, Holds, VI!IndexLocked

\* The gate opens below the limit of failures.
LEMMA GateInv == ASSUME VectorBound, VectorInv, NEW s \in Threads, VI!Gate(s) PROVE VectorInv'
<1> DEFINE k == vtask[s].kb
           t == vtask[s]
<1>1. vtask[s] \in VectorWorks /\ k \in KBs /\ vtask[s].at = "gate" /\ vtask[s].prior \in Counts /\ vtask[s].def \in Definitions
  <2>1. vtask[s] \in Records /\ vtask[s].at = "gate" BY DEF VectorInv, VectorTypes, VI!Gate
  <2> QED BY <2>1, AtWork, Worked
<1>2. vindex[k] \in Indexes /\ failed[k] \in Nat /\ vindex[k].counts.fails \in Nat BY <1>1, IndexFacts DEF VectorInv, VectorTypes
<1>3. UNCHANGED <<size, others, foreign>> BY DEF VI!Gate
<1>4. Known(vindex[k], failed[k], k \in taken) /\ VectorSound(t, vindex[k], failed[k]) BY <1>1 DEF VectorInv, Record, VectorMemory
<1>5. failed' = [failed EXCEPT ![k] = 0] => failed' \in [KBs -> Nat] /\ failed'[k] = 0 /\ \A j \in KBs \ {k} : failed'[j] = failed[j]
  BY <1>1, FailedSet DEF VectorInv
<1>6. CASE VI!GateRefused(s, k)
  <2>1. vindex' = vindex /\ taken' = taken /\ failed' = [failed EXCEPT ![k] = 0] /\ (VI!End(s) \/ VI!Refused(s)) BY <1>6 DEF VI!GateRefused
  <2>2. Known(vindex'[k], failed'[k], k \in taken') BY <1>4, <1>5, <2>1 DEF Known, VectorBound
  <2>3. vindex'[k] = vindex[k] /\ failed'[k] <= failed[k] /\ failed'[k] <= vindex'[k].counts.fails BY <1>2, <1>5, <2>1
  <2>4. vindex' \in [KBs -> Indexes] BY <2>1 DEF VectorInv, VectorTypes
  <2> QED BY <1>1, <1>3, <1>5, <2>1, <2>2, <2>3, <2>4, GoesAway
<1>7. CASE /\ vtask[s].held \/ ((vtask[s].locked \/ ~VI!IndexLocked(k)) /\ ~VI!TableBusy)
           /\ VI!Build(s, k)
  <2>1. (vtask[s].held \/ ~VI!TableBusy) /\ (vtask[s].locked \/ ~VI!IndexLocked(k)) BY <1>4, <1>7 DEF VectorSound
  <2>2. CASE /\ vindex[k].state = "absent" /\ VI!Issue(s, t, "build") /\ UNCHANGED <<taken, failed>>
             /\ vindex' = [vindex EXCEPT ![k] = [VI!NoIndex EXCEPT !.state = "invalid", !.def = t.def]]
    <3> DEFINE x == [VI!NoIndex EXCEPT !.state = "invalid", !.def = t.def]
    <3>1. x \in Indexes /\ x.state = "invalid" /\ x.def = t.def /\ x.recorded = Unknown
      BY <1>1 DEF VI!NoIndex, Indexes, Named, VI!NoCounts, Counts
    <3>2. vindex' = [vindex EXCEPT ![k] = x] BY <2>2
    <3> HIDE DEF x
    <3>3. vindex' \in [KBs -> Indexes] /\ vindex'[k] = x /\ \A j \in KBs \ {k} : vindex'[j] = vindex[j] BY <1>1, <3>1, <3>2, IndexSet DEF VectorInv
    <3>4. failed[k] <= t.prior.fails
      <4>1. CASE vtask[s].locked BY <1>1, <1>4, <4>1 DEF VectorSound, Holds, Carrying
      <4>2. CASE ~VI!IndexLocked(k)
        <5>1. failed[k] <= vindex[k].counts.fails /\ vindex[k].counts.fails = 0 BY <1>1, <1>4, <2>2, <4>2, NotCarried DEF Known
        <5>2. t.prior.fails \in Nat BY <1>1, Worked
        <5> QED BY <1>2, <5>1, <5>2
      <4> QED BY <2>1, <4>1, <4>2
    <3>5. t.prior.fails < MaxFailures BY <1>1, <1>4 DEF VectorSound
    <3>6. Known(vindex'[k], failed[k], k \in taken) BY <1>4, <3>1, <3>3 DEF Known
    <3>7. "build" \in VI!Statements BY DEF VI!Statements
    <3>8. VI!Issue(s, t, "build") BY <2>2
    <3> QED BY <1>1, <1>3, <2>1, <2>2, <3>1, <3>3, <3>4, <3>5, <3>6, <3>7, <3>8, Issues
  <2>3. CASE /\ vindex[k].state # "absent" /\ VI!End(s) /\ taken' = taken \union {k} /\ failed' = [failed EXCEPT ![k] = 0]
             /\ vindex' = [vindex EXCEPT ![k].recorded = t.def, ![k].counts = [VI!NoCounts EXCEPT !.rebuilds = t.prior.rebuilds]]
    <3> DEFINE c == [VI!NoCounts EXCEPT !.rebuilds = t.prior.rebuilds]
               x == [vindex[k] EXCEPT !.recorded = t.def, !.counts = c]
    <3>1. c \in Counts /\ c.fails = 0 BY <1>1 DEF VI!NoCounts, Counts
    <3> HIDE DEF c
    <3>2. x \in Indexes /\ x.state = vindex[k].state /\ x.counts = c BY <1>1, <1>2, <3>1 DEF Indexes, Named
    <3>3. vindex' = [vindex EXCEPT ![k] = x] BY <1>1, <2>3 DEF VectorInv, VectorTypes, c
    <3> HIDE DEF x
    <3>4. vindex' \in [KBs -> Indexes] /\ vindex'[k] = x /\ \A j \in KBs \ {k} : vindex'[j] = vindex[j] BY <1>1, <3>2, <3>3, IndexSet DEF VectorInv
    <3>5. failed'[k] = 0 /\ k \in taken' BY <1>5, <2>3
    <3>6. Known(vindex'[k], failed'[k], k \in taken') BY <2>3, <3>2, <3>4, <3>5 DEF Known, VectorBound
    <3>7. failed'[k] <= vindex'[k].counts.fails BY <3>1, <3>2, <3>4, <3>5
    <3>8. \A j \in KBs \ {k} : j \in taken' <=> j \in taken BY <2>3
    <3> QED BY <1>1, <1>3, <1>5, <2>1, <2>3, <3>4, <3>6, <3>7, <3>8, GoesAway
  <2> QED BY <1>7, <2>2, <2>3 DEF VI!Build
<1> QED BY <1>6, <1>7 DEF VI!Gate

\* A build that ends well settles the index.
LEMMA BuiltInv == ASSUME VectorBound, VectorInv, NEW s \in Threads, VI!Built(s) PROVE VectorInv'
<1> DEFINE k == vtask[s].kb
           c == [VI!NoCounts EXCEPT !.rebuilds = vtask[s].prior.rebuilds]
           x == [state |-> "ready", def |-> vtask[s].def, recorded |-> vtask[s].def, counts |-> c]
<1>1. /\ vtask[s] \in VectorWorks /\ vtask[s].locked /\ k \in KBs /\ vindex[k] \in Indexes /\ failed[k] \in Nat /\ vtask[s].def \in Definitions
      /\ vtask[s].prior \in Counts
  BY AtStatement DEF VI!Built, VI!Statements
<1>2. c \in Counts /\ c.fails = 0 BY <1>1 DEF VI!NoCounts, Counts
<1>3. vindex' = [vindex EXCEPT ![k] = x] /\ failed' = [failed EXCEPT ![k] = 0] /\ UNCHANGED <<size, others, foreign, taken>> /\ VI!End(s)
  BY DEF VI!Built
<1> HIDE DEF c
<1>4. x \in Indexes /\ x.state = "ready" /\ x.recorded = x.def /\ x.counts = c BY <1>1, <1>2 DEF Indexes, Named
<1> HIDE DEF x
<1>5. vindex' \in [KBs -> Indexes] /\ vindex'[k] = x /\ \A j \in KBs \ {k} : vindex'[j] = vindex[j] BY <1>1, <1>3, <1>4, IndexSet DEF VectorInv
<1>6. failed' \in [KBs -> Nat] /\ failed'[k] = 0 /\ \A j \in KBs \ {k} : failed'[j] = failed[j] BY <1>1, <1>3, FailedSet DEF VectorInv
<1>7. Known(vindex'[k], failed'[k], k \in taken') /\ failed'[k] <= vindex'[k].counts.fails BY <1>2, <1>4, <1>5, <1>6 DEF Known, VectorBound
<1> QED BY <1>1, <1>3, <1>5, <1>6, <1>7, GoesAway

\* One that fails leaves an INVALID index with the record on it.
LEMMA BuildFailsInv == ASSUME VectorBound, VectorInv, NEW s \in Threads, NEW transient \in BOOLEAN, VI!BuildFails(s, transient) PROVE VectorInv'
<1> DEFINE k == vtask[s].kb
           c == VI!Attempt(VI!Carried(vtask[s]), transient)
<1>1. /\ vtask[s] \in VectorWorks /\ vtask[s].locked /\ k \in KBs /\ vindex[k] \in Indexes /\ failed[k] \in Nat /\ vtask[s].def \in Definitions
      /\ vtask[s].prior \in Counts /\ vtask[s].at = "build"
  BY AtStatement DEF VI!BuildFails, VI!Statements
<1>2. (VI!End(s) \/ VI!Retry(s)) /\ UNCHANGED <<size, others, foreign, taken>> BY DEF VI!BuildFails
<1>3. Known(vindex[k], failed[k], k \in taken) /\ VectorSound(vtask[s], vindex[k], failed[k]) BY <1>1 DEF VectorInv, Record, VectorMemory
<1>4. failed[k] <= vtask[s].prior.fails /\ vtask[s].prior.fails < MaxFailures /\ vindex[k].state = "invalid" /\ vindex[k].def = vtask[s].def
  BY <1>1, <1>3 DEF VectorSound, Holds, Carrying
<1>5. c \in Counts /\ c.fails >= vtask[s].prior.fails /\ (~transient => c.fails = vtask[s].prior.fails + 1) BY <1>1, Attempts DEF VI!Carried
<1>6. CASE /\ vindex' = [vindex EXCEPT ![k].counts = c, ![k].recorded = vtask[s].def]
           /\ failed' = IF transient THEN failed ELSE [failed EXCEPT ![k] = @ + 1]
  <2> DEFINE x == [vindex[k] EXCEPT !.counts = c, !.recorded = vtask[s].def]
             num == IF transient THEN failed[k] ELSE failed[k] + 1
  <2>1. num \in Nat /\ num <= c.fails /\ num <= MaxFailures BY <1>1, <1>4, <1>5, CountsFacts DEF VectorBound
  <2> HIDE DEF c
  <2>2. vtask[s].def \in Named BY <1>1 DEF Named
  <2>3. x \in Indexes /\ x.state = "invalid" /\ x.def = vtask[s].def /\ x.recorded = vtask[s].def /\ x.counts = c
    BY <1>1, <1>4, <1>5, <2>2 DEF Indexes
  <2>4. vindex' = [vindex EXCEPT ![k] = x] BY <1>1, <1>6 DEF VectorInv, VectorTypes
  <2>5. failed' = [failed EXCEPT ![k] = num] BY <1>1, <1>6 DEF VectorInv, VectorTypes
  <2> HIDE DEF x, num
  <2>6. vindex' \in [KBs -> Indexes] /\ vindex'[k] = x /\ \A j \in KBs \ {k} : vindex'[j] = vindex[j] BY <1>1, <2>3, <2>4, IndexSet DEF VectorInv
  <2>7. failed' \in [KBs -> Nat] /\ failed'[k] = num /\ \A j \in KBs \ {k} : failed'[j] = failed[j] BY <1>1, <2>1, <2>5, FailedSet DEF VectorInv
  <2>8. Known(vindex'[k], failed'[k], k \in taken') /\ failed'[k] <= vindex'[k].counts.fails BY <2>1, <2>3, <2>6, <2>7 DEF Known
  <2> QED BY <1>1, <1>2, <2>6, <2>7, <2>8, GoesAway
<1>7. CASE vindex' = [vindex EXCEPT ![k] = VI!NoIndex] /\ failed' = [failed EXCEPT ![k] = 0]
  <2>1. vindex' \in [KBs -> Indexes] /\ vindex'[k] = VI!NoIndex /\ \A j \in KBs \ {k} : vindex'[j] = vindex[j] BY <1>1, <1>7, NothingIs, IndexSet DEF VectorInv
  <2>2. failed' \in [KBs -> Nat] /\ failed'[k] = 0 /\ \A j \in KBs \ {k} : failed'[j] = failed[j] BY <1>1, <1>7, FailedSet DEF VectorInv
  <2>3. Known(vindex'[k], failed'[k], k \in taken') /\ failed'[k] <= vindex'[k].counts.fails BY <2>1, <2>2, NothingIs DEF Known, VectorBound
  <2> QED BY <1>1, <1>2, <2>1, <2>2, <2>3, GoesAway
<1> QED BY <1>6, <1>7 DEF VI!BuildFails

-----------------------------------------------------------------------------
\* A killed worker leaves its statement to its session.
LEMMA VectorKillInv == ASSUME VectorBound, VectorInv, NEW s \in Threads, VI!Kill(s) PROVE VectorInv'
<1> DEFINE k == vtask[s].kb
           r == VI!Task(vtask[s].kind, vtask[s].kb, vtask[s].retries)
           x == [vindex[k] EXCEPT !.state = "invalid"]
<1>1. vtask[s] \in VectorWorks /\ k \in KBs /\ vtask[s].kind \in VectorKinds /\ vtask[s].retries \in Nat
  <2>1. vtask[s] \in Records /\ vtask[s].at \notin {"idle", "queued"} BY DEF VectorInv, VectorTypes, VI!Kill
  <2> QED BY <2>1, AtWork, Worked
<1>2. r \in Queues /\ r.kb = k /\ r \in Records BY <1>1 DEF VI!Task, Queues, Records
<1>3. vtask' = [vtask EXCEPT ![s] = r] BY DEF VI!Kill, VI!Set
<1>4. r.at = "queued" /\ ~r.locked /\ ~r.held BY <1>2, Queued
<1> HIDE DEF r
<1>5. vindex[k] \in Indexes /\ failed[k] \in Nat /\ vindex[k].counts.fails \in Nat BY <1>1, IndexFacts DEF VectorInv, VectorTypes
<1>6. Known(vindex[k], failed[k], k \in taken) /\ VectorSound(vtask[s], vindex[k], failed[k]) BY <1>1 DEF VectorInv, Record, VectorMemory
<1>7. /\ failed' = IF vtask[s].at = "survey" THEN failed ELSE [failed EXCEPT ![k] = 0]
      /\ UNCHANGED <<size, foreign, taken>>
  BY DEF VI!Kill
<1>8. failed' \in [KBs -> Nat] /\ failed'[k] \in {0, failed[k]} /\ \A j \in KBs \ {k} : failed'[j] = failed[j]
  <2>1. CASE vtask[s].at = "survey" BY <1>7, <2>1 DEF VectorInv, VectorTypes
  <2>2. CASE vtask[s].at # "survey"
    <3>1. failed' = [failed EXCEPT ![k] = 0] BY <1>7, <2>2
    <3> QED BY <1>1, <3>1, FailedSet DEF VectorInv
  <2> QED BY <2>1, <2>2
<1>9. vtask[s].at # "survey" => failed'[k] = 0
  BY <1>1, <1>7, FailedSet DEF VectorInv
<1>10. failed'[k] <= failed[k] BY <1>5, <1>8
<1>11. Holds(vtask[s]) => failed'[k] = 0 BY <1>9 DEF Holds, Carrying
<1>12. x \in Indexes /\ x.state = "invalid" /\ x.def = vindex[k].def /\ x.recorded = vindex[k].recorded /\ x.counts = vindex[k].counts
  BY <1>5, Marks
<1>13. VectorSound(r, vindex'[k], failed'[k]) BY <1>4 DEF VectorSound, Holds, VI!Statements
<1>14. \A j \in KBs \ {k} : j \in taken' <=> j \in taken BY <1>7
<1>15. ASSUME UNCHANGED vindex PROVE VectorTypes' /\ Locks' /\ VectorMemory' /\ Record'
  <2>1. vindex' \in [KBs -> Indexes] /\ vindex'[k] = vindex[k] /\ \A j \in KBs \ {k} : vindex'[j] = vindex[j] BY <1>15 DEF VectorInv, VectorTypes
  <2>2. failed'[k] <= MaxFailures /\ (failed[k] = 0 => failed'[k] = 0) BY <1>5, <1>6, <1>8 DEF Known, VectorBound
  <2>3. Known(vindex'[k], failed'[k], k \in taken') BY <1>6, <1>7, <2>1, <2>2 DEF Known
  <2>4. failed'[k] <= vindex'[k].counts.fails \/ ~Holds(vtask[s]) BY <1>5, <1>11, <2>1
  <2>5. vtask[s].kb = k OBVIOUS
  <2>6. \A j \in KBs \ {k} : vindex'[j] = vindex[j] /\ failed'[j] = failed[j] /\ (j \in taken' <=> j \in taken) BY <1>8, <1>14, <2>1
  <2> HIDE DEF k
  <2> QED BY <1>1, <1>2, <1>3, <1>4, <1>8, <1>10, <1>13, <1>14, <2>1, <2>3, <2>4, <2>5, <2>6, VectorStep DEF VectorInv
<1>16. ASSUME vtask[s].at \in VI!Statements, vindex' = [vindex EXCEPT ![k].state = "invalid"] PROVE VectorTypes' /\ Locks' /\ VectorMemory' /\ Record'
  <2>1. vindex' = [vindex EXCEPT ![k] = x] BY <1>1, <1>16 DEF VectorInv, VectorTypes
  <2> HIDE DEF x
  <2>2. vindex' \in [KBs -> Indexes] /\ vindex'[k] = x /\ \A j \in KBs \ {k} : vindex'[j] = vindex[j] BY <1>1, <1>12, <2>1, IndexSet DEF VectorInv
  <2>3. failed'[k] = 0 BY <1>9, <1>16 DEF VI!Statements
  <2>4. Known(vindex'[k], failed'[k], k \in taken') BY <1>6, <1>7, <1>12, <2>2, <2>3 DEF Known, VectorBound
  <2>5. failed'[k] <= vindex'[k].counts.fails BY <1>5, <1>12, <2>2, <2>3
  <2>6. vtask[s].locked BY <1>6, <1>16 DEF VectorSound
  <2>7. vtask[s].kb = k OBVIOUS
  <2>8. \A j \in KBs \ {k} : vindex'[j] = vindex[j] /\ failed'[j] = failed[j] /\ (j \in taken' <=> j \in taken) BY <1>8, <1>14, <2>2
  <2> HIDE DEF k
  <2> QED BY <1>1, <1>2, <1>3, <1>4, <1>8, <1>13, <1>14, <2>2, <2>4, <2>5, <2>6, <2>7, <2>8, VectorStep DEF VectorInv
<1>17. VectorTypes' /\ Locks' /\ VectorMemory' /\ Record'
  <2>1. UNCHANGED vindex \/ (vtask[s].at \in VI!Statements /\ vindex' = [vindex EXCEPT ![vtask[s].kb].state = "invalid"]) BY DEF VI!Kill
  <2> QED BY <1>15, <1>16, <2>1
<1>18. \/ others' = others
       \/ vtask[s].at \in VI!Statements /\ \E z \in {"building", "dropping"} : others' = [others EXCEPT ![k] = z]
  <2>1. \/ others' = [others EXCEPT ![k] = IF vtask[s].at = "build" THEN "building" ELSE IF vtask[s].at \in VI!Statements THEN "dropping" ELSE @]
        \/ UNCHANGED others
    BY DEF VI!Kill
  <2> QED BY <1>1, <2>1 DEF VectorInv, VectorWorld, VI!Statements
<1>19. VectorWorld' /\ Table'
  <2>1. vtask'[s] = r /\ \A o \in Threads : o # s => vtask'[o] = vtask[o] BY <1>3 DEF VectorInv, VectorTypes
  <2>2. CASE others' = others BY <1>4, <1>7, <2>1, <2>2 DEF VectorInv, VectorWorld, Table
  <2>3. CASE vtask[s].at \in VI!Statements /\ \E z \in {"building", "dropping"} : others' = [others EXCEPT ![k] = z]
    <3>1. vtask[s].held BY <1>6, <2>3 DEF VectorSound
    <3>2. ~foreign /\ (\A j \in KBs : others[j] = "none") /\ \A o \in Threads : o # s => ~vtask[o].held BY <3>1 DEF VectorInv, Table
    <3>3. \A o \in Threads : ~vtask'[o].held BY <1>4, <2>1, <3>2
    <3>4. PICK z \in {"building", "dropping"} : others' = [others EXCEPT ![k] = z] BY <2>3
    <3>5. \A j \in KBs : j # k => others'[j] = "none" BY <3>2, <3>4 DEF VectorInv, VectorWorld
    <3>6. others' \in [KBs -> Sessions] BY <3>4 DEF VectorInv, VectorWorld, Sessions
    <3> QED BY <1>7, <3>2, <3>3, <3>5, <3>6 DEF VectorInv, VectorWorld, Table
  <2> QED BY <1>18, <2>2, <2>3
<1> QED BY <1>17, <1>19 DEF VectorInv

\* A session that lost its worker ends its statement.
LEMMA BackendEndsInv == ASSUME VectorBound, VectorInv, NEW k \in KBs, VI!BackendEnds(k) PROVE VectorInv'
<1>1. /\ others[k] # "none" /\ others' = [others EXCEPT ![k] = "none"] /\ failed' = [failed EXCEPT ![k] = 0]
      /\ UNCHANGED <<size, vtask, foreign, taken>>
  BY DEF VI!BackendEnds
<1>2. \A s \in Threads : ~vtask[s].held BY <1>1 DEF VectorInv, Table
<1>3. vindex[k] \in Indexes /\ failed[k] \in Nat BY DEF VectorInv, VectorTypes
<1>4. Known(vindex[k], failed[k], k \in taken) BY DEF VectorInv, Record
<1>5. failed' \in [KBs -> Nat] /\ failed'[k] = 0 /\ \A j \in KBs \ {k} : failed'[j] = failed[j] BY <1>1, FailedSet DEF VectorInv
<1>6. \E x \in Indexes : vindex' = [vindex EXCEPT ![k] = x] /\ Known(x, 0, k \in taken)
  <2>1. CASE vindex' = [vindex EXCEPT ![k] = VI!NoIndex]
    <3>1. Known(VI!NoIndex, 0, k \in taken) BY NothingIs DEF Known, VectorBound
    <3> QED BY <2>1, <3>1, NothingIs
  <2>2. ASSUME NEW z \in {"invalid", "ready"}, vindex' = [vindex EXCEPT ![k].state = z]
        PROVE  \E x \in Indexes : vindex' = [vindex EXCEPT ![k] = x] /\ Known(x, 0, k \in taken)
    <3> DEFINE x == [vindex[k] EXCEPT !.state = z]
    <3>1. x \in Indexes /\ x.state = z /\ x.def = vindex[k].def /\ x.recorded = vindex[k].recorded /\ x.counts = vindex[k].counts
      <4>1. z \in {"absent", "invalid", "ready"} BY <2>2
      <4> QED BY <1>3, <4>1, Marks
    <3>2. vindex' = [vindex EXCEPT ![k] = x] BY <2>2 DEF VectorInv, VectorTypes
    <3> HIDE DEF x
    <3>3. Known(x, 0, k \in taken) BY <1>4, <2>2, <3>1 DEF Known, VectorBound
    <3> QED BY <3>1, <3>2, <3>3
  <2>3. CASE UNCHANGED vindex
    <3>1. vindex' = [vindex EXCEPT ![k] = vindex[k]] BY <2>3 DEF VectorInv, VectorTypes
    <3>2. Known(vindex[k], 0, k \in taken) BY <1>4 DEF Known, VectorBound
    <3> QED BY <1>3, <3>1, <3>2
  <2> QED BY <2>1, <2>2, <2>3 DEF VI!BackendEnds
<1>7. PICK x \in Indexes : vindex' = [vindex EXCEPT ![k] = x] /\ Known(x, 0, k \in taken) BY <1>6
<1>8. vindex' \in [KBs -> Indexes] /\ vindex'[k] = x /\ \A j \in KBs \ {k} : vindex'[j] = vindex[j] BY <1>7, IndexSet DEF VectorInv
<1>9. VectorTypes' BY <1>1, <1>5, <1>8 DEF VectorInv, VectorTypes
<1>10. VectorWorld' BY <1>1 DEF VectorInv, VectorWorld, Sessions
<1>11. Locks' BY <1>1 DEF VectorInv, Locks
<1>12. Table' BY <1>1 DEF VectorInv, Table, VectorWorld
<1>13. VectorMemory'
  <2> SUFFICES ASSUME NEW o \in Threads PROVE VectorSound(vtask[o], vindex'[vtask[o].kb], failed'[vtask[o].kb]) BY <1>1 DEF VectorMemory
  <2>1. VectorSound(vtask[o], vindex[vtask[o].kb], failed[vtask[o].kb]) /\ vtask[o].at \notin VI!Statements /\ vtask[o] \in Records
    BY <1>2 DEF VectorInv, VectorMemory, VectorSound, VectorTypes
  <2>2. CASE ~vtask[o].locked BY <2>1, <2>2, SoundUnlocked
  <2>3. CASE vtask[o].locked
    <3>1. vtask[o].kb \in KBs /\ vtask[o].prior.fails \in Nat BY <2>1, <2>3, LockedWorks, Worked
    <3>2. CASE vtask[o].kb = k BY <1>5, <2>1, <3>1, <3>2 DEF VectorSound, VI!Statements
    <3>3. CASE vtask[o].kb # k
      <4>1. vindex'[vtask[o].kb] = vindex[vtask[o].kb] /\ failed'[vtask[o].kb] = failed[vtask[o].kb] BY <1>5, <1>8, <3>1, <3>3
      <4> QED BY <2>1, <4>1
    <3> QED BY <3>2, <3>3
  <2> QED BY <2>2, <2>3
<1>14. Record'
  <2> SUFFICES ASSUME NEW j \in KBs PROVE Known(vindex'[j], failed'[j], j \in taken') /\ (~Carrier(j)' => failed'[j] <= vindex'[j].counts.fails)
    BY DEF Record
  <2>1. Carrier(j)' <=> Carrier(j) BY <1>1 DEF Carrier, Holds
  <2>2. CASE j = k
    <3>1. vindex'[k].counts.fails \in Nat BY <1>8, IndexFacts
    <3> QED BY <1>1, <1>5, <1>7, <1>8, <2>2, <3>1
  <2>3. CASE j # k BY <1>1, <1>5, <1>8, <2>1, <2>3 DEF VectorInv, Record
  <2> QED BY <2>2, <2>3
<1> QED BY <1>9, <1>10, <1>11, <1>12, <1>13, <1>14 DEF VectorInv

\* A dispatch changes nothing.
LEMMA Sends == ASSUME VectorInv, NEW kind \in VectorKinds, NEW k \in KBs, VI!Send(kind, k), UNCHANGED <<vindex, others, foreign, taken, failed>>,
                      size' \in [KBs -> Sizes]
               PROVE  VectorInv'
<1>1. PICK s \in Threads : vtask[s].at = "idle" /\ VI!Set(s, VI!Task(kind, k, 0)) BY DEF VI!Send
<1> DEFINE r == VI!Task(kind, k, 0)
<1>2. r \in Queues /\ r.kb = k /\ r \in Records BY DEF VI!Task, Queues, Records
<1>3. vtask' = [vtask EXCEPT ![s] = r] BY <1>1 DEF VI!Set
<1> HIDE DEF r
<1>4. r.at = "queued" /\ ~r.locked /\ ~r.held BY <1>2, Queued
<1>5. vtask[s] = VI!Idle
  <2>1. vtask[s] \in Records BY DEF VectorInv, VectorTypes
  <2> QED BY <1>1, <2>1, Queued, Worked DEF Records, Steps, VI!Statements
<1>6. VectorSound(r, vindex'[k], failed'[k]) BY <1>4 DEF VectorSound, Holds, VI!Statements
<1>7. Known(vindex'[k], failed'[k], k \in taken') BY DEF VectorInv, Record
<1>8. vindex'[k] = vindex[k] /\ failed'[k] <= failed[k] /\ ~Holds(vtask[s]) BY <1>5, NothingHeld DEF VectorInv, VectorTypes, Holds
<1>9. vindex' \in [KBs -> Indexes] /\ failed' \in [KBs -> Nat] BY DEF VectorInv, VectorTypes
<1> QED BY <1>2, <1>3, <1>4, <1>5, <1>6, <1>7, <1>8, <1>9, Moves

\* Sizes and dispatches change no index.
LEMMA OthersInv == ASSUME VectorInv, NEW k \in KBs, VI!Reindex(k) \/ VI!Resize(k) PROVE VectorInv'
<1>1. CASE VI!Reindex(k)
  <2>1. ~foreign /\ (\A j \in KBs : others[j] = "none") /\ \A s \in Threads : ~vtask[s].held BY <1>1 DEF VI!Reindex, VI!TableBusy
  <2>2. others' = [others EXCEPT ![k] = "bare"] /\ UNCHANGED <<size, vindex, vtask, foreign, taken, failed>> BY <1>1 DEF VI!Reindex
  <2> QED BY <2>1, <2>2 DEF VectorInv, VectorWorld, VectorTypes, Locks, Table, VectorMemory, Record, Carrier, Holds, VectorSound, Known, Sessions
<1>2. CASE VI!Resize(k)
  <2>1. size' \in [KBs -> Sizes] /\ UNCHANGED <<vindex, vtask, others, foreign, taken, failed>> BY <1>2 DEF VI!Resize, VectorInv, VectorWorld, Sizes
  <2> QED BY <2>1 DEF VectorInv, VectorWorld, VectorTypes, Locks, Table, VectorMemory, Record, Carrier, Holds, VectorSound, Known
<1> QED BY <1>1, <1>2

\* Another module takes a table that is free.
LEMMA ForeignInv == ASSUME VectorInv, VI!Foreign PROVE VectorInv'
<1>1. foreign \/ ((\A j \in KBs : others[j] = "none") /\ \A s \in Threads : ~vtask[s].held) BY DEF VI!Foreign, VI!TableBusy
<1>2. foreign' = ~foreign /\ UNCHANGED <<size, vindex, vtask, others, taken, failed>> BY DEF VI!Foreign
<1> QED BY <1>1, <1>2 DEF VectorInv, VectorWorld, VectorTypes, Locks, Table, VectorMemory, Record, Carrier, Holds, VectorSound, Known

\* Nothing is built at first.
LEMMA VectorInitInv == ASSUME VectorBound, VI!Init PROVE VectorInv
<1>1. \A s \in Threads : vtask[s] = VI!Idle BY DEF VI!Init
<1>2. VectorWorld BY DEF VI!Init, VectorWorld, Sizes, Sessions
<1>3. VectorTypes BY NothingIs DEF VI!Init, VectorTypes, Records
<1>4. Locks /\ Table BY <1>1, NothingHeld DEF VI!Init, Locks, Table
<1>5. VectorMemory BY <1>1, NothingHeld DEF VectorMemory, VectorSound, Holds, VI!Statements
<1>6. Record BY NothingIs DEF VI!Init, Record, Known, VectorBound
<1> QED BY <1>2, <1>3, <1>4, <1>5, <1>6 DEF VectorInv

\* The invariant is inductive.
LEMMA VectorNextInv == ASSUME VectorBound, VectorInv, [VI!Next]_(VI!vars) PROVE VectorInv'
<1>1. CASE UNCHANGED VI!vars
  BY <1>1 DEF VI!vars, VectorInv, VectorWorld, VectorTypes, Locks, Table, VectorMemory, Record, Carrier, Holds, VectorSound, Known
<1>2. ASSUME NEW s \in Threads, NEW d \in Definitions, VI!Start(s, d) PROVE VectorInv' BY <1>2, VectorStartInv
<1>3. ASSUME NEW s \in Threads, VI!Survey(s) \/ VI!Dropped(s) \/ VI!Next_(s) \/ VI!Gate(s) \/ VI!Built(s) \/ VI!Kill(s) PROVE VectorInv'
  BY <1>3, SurveyInv, DroppedInv, NextStatementInv, GateInv, BuiltInv, VectorKillInv
<1>4. ASSUME NEW s \in Threads, NEW transient \in BOOLEAN, VI!DropFails(s, transient) \/ VI!BuildFails(s, transient) PROVE VectorInv'
  BY <1>4, DropFailsInv, BuildFailsInv
<1>5. ASSUME NEW k \in KBs, NEW d \in Definitions, VI!Dispatch(k, d) \/ VI!StartUp(k, d) PROVE VectorInv'
  <2>1. VI!Send("ensure", k) /\ UNCHANGED <<size, vindex, others, foreign, taken, failed>> BY <1>5 DEF VI!Dispatch, VI!StartUp
  <2>2. size' \in [KBs -> Sizes] /\ "ensure" \in VectorKinds BY <2>1 DEF VectorInv, VectorWorld, VectorKinds
  <2> QED BY <2>1, <2>2, Sends
<1>6. ASSUME NEW k \in KBs, VI!Delete(k) PROVE VectorInv'
  <2>1. VI!Send("drop", k) /\ UNCHANGED <<vindex, others, foreign, taken, failed>> BY <1>6 DEF VI!Delete
  <2>2. size' \in [KBs -> Sizes] /\ "drop" \in VectorKinds BY <1>6 DEF VI!Delete, VectorInv, VectorWorld, VectorKinds, Sizes
  <2> QED BY <2>1, <2>2, Sends
<1>7. ASSUME NEW k \in KBs, VI!BackendEnds(k) PROVE VectorInv' BY <1>7, BackendEndsInv
<1>8. ASSUME NEW k \in KBs, VI!Reindex(k) \/ VI!Resize(k) PROVE VectorInv' BY <1>8, OthersInv
<1>9. CASE VI!Foreign BY <1>9, ForeignInv
<1> QED BY <1>1, <1>2, <1>3, <1>4, <1>5, <1>6, <1>7, <1>8, <1>9 DEF VI!Next

\* One piece of work on the table: the sets that OneStatement counts have one element between them.
LEMMA TwoAreOne == ASSUME NEW S, \A a, b \in S : a = b PROVE Cardinality(S) \in {0, 1} /\ (S = {} => Cardinality(S) = 0)
<1>1. CASE S = {} BY <1>1, FS_EmptySet
<1>2. CASE S # {}
  <2>1. PICK x \in S : TRUE BY <1>2
  <2>2. S = {x} BY <2>1
  <2> QED BY <1>2, <2>2, FS_Singleton
<1> QED BY <1>1, <1>2

\* A component counts as its composition does.
LEMMA VectorCounts == \A S : VI!Cardinality(S) = Cardinality(S)
  BY DEF VI!Cardinality, Cardinality
\* A table that is taken once has one statement.
LEMMA TableIsOne == ASSUME VectorInv PROVE VI!OneStatement
<1> DEFINE T == {s \in Threads : vtask[s].at \in VI!Statements}
           O == {k \in KBs : others[k] # "none"}
<1>1. \A s \in T : vtask[s].held BY DEF VectorInv, VectorMemory, VectorSound
<1>2. (\A a, b \in T : a = b) /\ (\A a, b \in O : a = b) BY <1>1 DEF VectorInv, Table
<1>3. (T # {} => O = {} /\ ~foreign) /\ (foreign => O = {}) BY <1>1 DEF VectorInv, Table
<1>4. Cardinality(T) \in {0, 1} /\ (T = {} => Cardinality(T) = 0) BY <1>2, TwoAreOne
<1>5. Cardinality(O) \in {0, 1} /\ (O = {} => Cardinality(O) = 0) BY <1>2, TwoAreOne
<1> HIDE DEF T, O
<1>6. Cardinality(T) + Cardinality(O) + (IF foreign THEN 1 ELSE 0) <= 1 BY <1>3, <1>4, <1>5
<1> QED BY <1>6, VectorCounts DEF VI!OneStatement, T, O

\* One statement on a table at a time, failures that stay counted, and no stale certificate.
THEOREM IndexesAreKept ==
    ASSUME MaxFailures \in Nat \ {0}
    PROVE  VI!Spec => [](VI!TypeOK /\ VI!OneStatement /\ VI!BuildsBounded /\ VI!StaleNotCertified)
<1>1. VectorBound BY DEF VectorBound
<1>2. VI!Init => VectorInv BY <1>1, VectorInitInv
<1>3. VectorInv /\ [VI!Next]_(VI!vars) => VectorInv' BY <1>1, VectorNextInv
<1>4. ASSUME VectorInv PROVE VI!TypeOK
  <2>1. \A k \in KBs : vindex[k] \in Indexes BY <1>4 DEF VectorInv, VectorTypes
  <2>2. ASSUME NEW s \in Threads PROVE vtask[s].at \in {"idle", "queued", "survey", "next", "gate"} \union VI!Statements
    <3>1. vtask[s] \in Records BY <1>4 DEF VectorInv, VectorTypes
    <3> QED BY <3>1, NothingHeld, Queued, Worked DEF Records, Steps
  <2>3. \A s \in Threads : vtask[s].held => vtask[s].locked BY <1>4 DEF VectorInv, VectorMemory, VectorSound
  <2>4. \A k \in KBs : size[k] \in Sizes /\ others[k] \in Sessions BY <1>4 DEF VectorInv, VectorWorld
  <2> QED BY <2>1, <2>2, <2>3, <2>4, IndexFacts DEF VI!TypeOK, Named, Sizes, Sessions
<1>5. ASSUME VectorInv PROVE VI!BuildsBounded /\ VI!StaleNotCertified
  BY <1>5 DEF VectorInv, Record, Known, VI!BuildsBounded, VI!StaleNotCertified
<1>6. VectorInv => VI!TypeOK /\ VI!OneStatement /\ VI!BuildsBounded /\ VI!StaleNotCertified BY <1>4, <1>5, TableIsOne
<1> QED BY <1>2, <1>3, <1>6, PTL DEF VI!Spec

-----------------------------------------------------------------------------
(* Dispatches that wait for a table. *)

Stations == {"idle", "queued", "mark", "look", "survey", "claim", "late", "work", "release", "again"}
\* The task that has the marker has not gone past it, and one task works at a time.
Waits == /\ marker \in Waiters \union {None} /\ table \in {"free", "others", "ours"}
         /\ wtask \in [Waiters -> [at : Stations, looks : Nat]]
         /\ \A s \in Waiters : marker = s => wtask[s].at \in {"queued", "survey", "claim", "work", "release", "again"}
         /\ \A s, t \in Waiters : wtask[s].at = "work" /\ wtask[t].at = "work" => s = t
         /\ table = "ours" <=> \E s \in Waiters : wtask[s].at = "work"
\* A task that will survey yet, or leave an excuse, whatever it finds, or that will
\* find the flag of those that left it to it.
WillServe(s) == \/ wtask[s].at \in {"queued", "mark", "survey", "claim", "late", "again"}
                \/ wtask[s].at = "look" /\ (pending \/ ~VW!Waiter(s))
                \/ wtask[s].at \in {"work", "release"} /\ marker = s /\ pending
Carried == owed /\ excuse = {} => \E s \in Waiters : WillServe(s)

\* A task goes on to where no work is done, and no marker is left behind.
LEMMA WaitsMove == ASSUME None \notin Waiters, Waits, NEW s \in Waiters, wtask' \in [Waiters -> [at : Stations, looks : Nat]],
                          \A t \in Waiters \ {s} : wtask'[t] = wtask[t], wtask'[s].at # "work",
                          (wtask[s].at # "work" /\ table' = table) \/ (wtask[s].at = "work" /\ table' = "free"),
                          marker' \in {marker, None, s},
                          marker' = s => wtask'[s].at \in {"queued", "survey", "claim", "release", "again"}
                   PROVE Waits'
<1>1. marker' \in Waiters \union {None} /\ \A t \in Waiters : marker' = t => wtask'[t].at \in {"queued", "survey", "claim", "work", "release", "again"}
  <2>1. marker' \in Waiters \union {None}
    BY DEF Waits
  <2>2. ASSUME NEW t \in Waiters \ {s}, marker' = t PROVE marker = t /\ wtask'[t] = wtask[t]
    BY <2>2 DEF Waits
  <2> QED BY <2>1, <2>2 DEF Waits
<1>2. \A t, u \in Waiters : wtask'[t].at = "work" /\ wtask'[u].at = "work" => t = u
  BY DEF Waits
<1>3. (\E t \in Waiters : wtask'[t].at = "work") <=> (\E t \in Waiters \ {s} : wtask[t].at = "work")
  OBVIOUS
<1>4. CASE wtask[s].at # "work" /\ table' = table
  BY <1>1, <1>2, <1>3, <1>4 DEF Waits
<1>5. CASE wtask[s].at = "work" /\ table' = "free"
  <2>1. \A t \in Waiters \ {s} : wtask[t].at # "work"
    BY <1>5 DEF Waits
  <2> QED BY <1>1, <1>2, <1>3, <1>5, <2>1 DEF Waits
<1> QED BY <1>4, <1>5

\* What a task that goes on looks like.
LEMMA Gone == ASSUME Waits, NEW s \in Waiters, NEW to \in Stations, VW!Go(s, to)
              PROVE /\ wtask' \in [Waiters -> [at : Stations, looks : Nat]] /\ \A t \in Waiters \ {s} : wtask'[t] = wtask[t]
                    /\ wtask'[s].at = to
  BY DEF VW!Go, Waits

\* A task that goes on with looks left.
LEMMA Sent == ASSUME Waits, NEW s \in Waiters, NEW to \in Stations, NEW looks \in Nat, wtask' = [wtask EXCEPT ![s] = [at |-> to, looks |-> looks]]
              PROVE /\ wtask' \in [Waiters -> [at : Stations, looks : Nat]] /\ \A t \in Waiters \ {s} : wtask'[t] = wtask[t]
                    /\ wtask'[s].at = to
  BY DEF Waits

\* The marker and the table are where their tasks are.
LEMMA WaitsStep == ASSUME None \notin Waiters, Waits, [VW!Next]_(VW!vars) PROVE Waits'
<1> USE DEF VW!Spend
<1>3. CASE UNCHANGED <<marker, table, wtask>>
  BY <1>3 DEF Waits
<1>4. ASSUME UNCHANGED wtask, marker' \in {marker, None}, (table' = table) \/ (table # "ours" /\ table' \in {"free", "others"}) PROVE Waits'
  BY <1>4 DEF Waits
<1>5. CASE VW!Others
  BY <1>4, <1>5 DEF VW!Others, Waits
<1>6. CASE VW!MarkerLapses \/ VW!PendingLapses
  BY <1>4, <1>6 DEF VW!MarkerLapses, VW!PendingLapses
<1>7. ASSUME NEW s \in Waiters, VW!Dispatch(s) PROVE Waits'
  <2>1. wtask' = [wtask EXCEPT ![s] = [at |-> "queued", looks |-> 0]] /\ 0 \in Nat /\ "queued" \in Stations
    BY <1>7 DEF VW!Dispatch, Stations
  <2>2. wtask' \in [Waiters -> [at : Stations, looks : Nat]] /\ (\A t \in Waiters \ {s} : wtask'[t] = wtask[t]) /\ wtask'[s].at = "queued"
    BY <2>1, Sent
  <2>3. marker' = marker /\ table' = table /\ wtask[s].at = "idle"
    BY <1>7 DEF VW!Dispatch
  <2>4. marker' # s
    BY <2>3 DEF Waits
  <2>5. marker' \in {marker, None, s}
    BY <2>3
  <2> QED BY <2>2, <2>3, <2>4, <2>5, WaitsMove
<1>8. ASSUME NEW s \in Waiters, NEW to \in Stations \ {"work"}, VW!Go(s, to),
             (UNCHANGED marker /\ marker # s) \/ (marker' \in {s, None} /\ to \in {"queued", "survey", "claim", "release", "again"}) \/ (UNCHANGED marker /\ to \in {"queued", "survey", "claim", "release", "again"}),
             (wtask[s].at # "work" /\ table' = table) \/ (wtask[s].at = "work" /\ table' = "free")
      PROVE Waits'
  BY <1>8, Gone, WaitsMove
<1>9. ASSUME NEW s \in Waiters, VW!Enter(s) \/ VW!Mark(s) \/ VW!Look(s) \/ VW!WorkEnds(s) \/ VW!Late(s) \/ VW!Kill(s) PROVE Waits'
  <2>1. CASE VW!Enter(s)
    BY <1>8, <2>1 DEF VW!Enter, Stations, VW!Waiter
  <2>2. CASE VW!Mark(s)
    BY <1>8, <2>2 DEF VW!Mark, Stations, Waits
  <2>3. CASE VW!Look(s)
    BY <1>8, <2>3 DEF VW!Look, Stations, Waits
  <2>4. CASE VW!WorkEnds(s)
    BY <1>8, <2>4 DEF VW!WorkEnds, Stations
  <2>5. CASE VW!Late(s)
    BY <1>8, <2>5 DEF VW!Late, Stations, Waits
  <2>6. CASE VW!Kill(s)
    BY <1>8, <2>6 DEF VW!Kill, Stations
  <2> QED BY <1>9, <2>1, <2>2, <2>3, <2>4, <2>5, <2>6
<1>11. ASSUME NEW s \in Waiters, VW!Survey(s) PROVE Waits'
  <2>1. CASE table # "free"
    BY <1>8, <1>11, <2>1 DEF VW!Survey, Stations, Waits
  <2>2. CASE table = "free"
    <3>1. VW!Go(s, "work") /\ "work" \in Stations /\ table' = "ours" /\ marker' = marker
      BY <1>11, <2>2 DEF VW!Survey, Stations
    <3>2. \A t \in Waiters : wtask[t].at # "work"
      BY <2>2 DEF Waits
    <3>3. wtask' \in [Waiters -> [at : Stations, looks : Nat]] /\ (\A t \in Waiters \ {s} : wtask'[t] = wtask[t]) /\ wtask'[s].at = "work"
      BY <3>1, Gone
    <3> QED BY <3>1, <3>2, <3>3 DEF Waits
  <2> QED BY <2>1, <2>2
<1>12. ASSUME NEW s \in Waiters, VW!SurveyFails(s) PROVE Waits'
  BY <1>8, <1>12 DEF VW!SurveyFails, Stations
<1>14. ASSUME NEW s \in Waiters, VW!Claim(s) PROVE Waits'
  <2>1. CASE VW!Waiter(s) /\ VW!Go(s, "late") /\ UNCHANGED marker
    BY <1>8, <1>14, <2>1 DEF VW!Claim, Stations, VW!Waiter
  <2>2. CASE marker' = s /\ wtask' = [wtask EXCEPT ![s] = [at |-> "queued", looks |-> @.looks + 1]]
    <3>1. wtask[s].looks + 1 \in Nat /\ "queued" \in Stations
      BY DEF Waits, Stations
    <3>2. wtask' \in [Waiters -> [at : Stations, looks : Nat]] /\ (\A t \in Waiters \ {s} : wtask'[t] = wtask[t]) /\ wtask'[s].at = "queued"
      BY <2>2, <3>1 DEF Waits
    <3> QED BY <1>14, <2>2, <3>2, WaitsMove DEF VW!Claim
  <2>3. CASE marker' = s /\ VW!Go(s, "release")
    BY <1>8, <1>14, <2>3 DEF VW!Claim, Stations
  <2> QED BY <1>14, <2>1, <2>2, <2>3 DEF VW!Claim
<1>16. ASSUME NEW s \in Waiters, VW!Release(s) PROVE Waits'
  <2>1. marker' # s /\ marker' \in {marker, None} /\ table' = table /\ wtask[s].at # "work"
    BY <1>16 DEF VW!Release
  <2>2. PICK to \in {"queued", "idle"}, looks \in Nat : wtask' = [wtask EXCEPT ![s] = [at |-> to, looks |-> looks]]
    <3>1. wtask[s].looks + 1 \in Nat /\ 0 \in Nat
      BY DEF Waits
    <3> QED BY <1>16, <3>1 DEF VW!Release, VW!Idle
  <2>3. to \in Stations /\ to # "work"
    BY DEF Stations
  <2>4. wtask' \in [Waiters -> [at : Stations, looks : Nat]] /\ (\A t \in Waiters \ {s} : wtask'[t] = wtask[t]) /\ wtask'[s].at = to
    BY <2>2, <2>3, Sent
  <2> QED BY <2>1, <2>3, <2>4, WaitsMove
<1> QED BY <1>3, <1>5, <1>6, <1>7, <1>9, <1>11, <1>12, <1>14, <1>16 DEF VW!Next, VW!Step, VW!vars

(* What was dispatched is carried by a task until a survey covers it. *)
LEMMA CarriedStep == ASSUME None \notin Waiters, Waits, Carried, [VW!Next]_(VW!vars) PROVE Carried'
<1> USE DEF VW!Spend
<1>1. SUFFICES ASSUME owed', excuse' = {} PROVE \E s \in Waiters : WillServe(s)'
  BY DEF Carried
<1>2. CASE UNCHANGED VW!vars
  BY <1>1, <1>2 DEF Carried, WillServe, VW!Waiter, VW!vars
<1>3. CASE VW!Others
  BY <1>1, <1>3 DEF VW!Others, Carried, WillServe, VW!Waiter
<1>4. CASE VW!MarkerLapses \/ VW!PendingLapses
  <2>1. ~owed
    BY <1>1, <1>4 DEF VW!MarkerLapses, VW!PendingLapses, VW!Says
  <2> QED BY <1>1, <1>4, <2>1 DEF VW!MarkerLapses, VW!PendingLapses
\* One that goes on carries itself; one that does not leaves the others as they were.
<1>5. ASSUME NEW s \in Waiters, wtask'[s].at \in {"queued", "mark", "survey", "claim", "late", "again"} PROVE \E t \in Waiters : WillServe(t)'
  BY <1>5 DEF WillServe
<1>6. ASSUME NEW s \in Waiters, NEW to \in Stations, VW!Go(s, to) PROVE wtask'[s].at = to /\ \A t \in Waiters \ {s} : wtask'[t] = wtask[t]
  BY <1>6, Gone
<1>7. ASSUME NEW s \in Waiters, VW!Dispatch(s) PROVE \E t \in Waiters : WillServe(t)'
  <2>1. wtask'[s].at = "queued"
    BY <1>7 DEF VW!Dispatch, Waits
  <2> QED BY <1>5, <2>1
<1>8. ASSUME NEW s \in Waiters, VW!Enter(s) PROVE \E t \in Waiters : WillServe(t)'
  <2>1. wtask'[s].at \in {"mark", "survey"}
    BY <1>6, <1>8 DEF VW!Enter, Stations
  <2> QED BY <1>5, <2>1
<1>9. ASSUME NEW s \in Waiters, VW!Mark(s) PROVE \E t \in Waiters : WillServe(t)'
  <2>1. wtask'[s].at = "look" /\ pending'
    BY <1>6, <1>9 DEF VW!Mark, Stations
  <2> QED BY <2>1 DEF WillServe
<1>10. ASSUME NEW s \in Waiters, VW!Look(s) PROVE \E t \in Waiters : WillServe(t)'
  <2>1. CASE ~VW!Waiter(s)
    <3>1. wtask'[s].at = "survey"
      BY <1>6, <1>10, <2>1 DEF VW!Look, Stations
    <3> QED BY <1>5, <3>1
  <2>2. CASE VW!Waiter(s) /\ pending
    <3>1. marker \in Waiters \ {s} /\ marker' = marker /\ pending' /\ wtask'[marker] = wtask[marker]
      BY <1>6, <1>10, <2>2 DEF VW!Look, Stations, VW!Waiter, Waits
    <3> QED BY <3>1 DEF WillServe, Waits
  <2>3. CASE VW!Waiter(s) /\ ~pending
    <3>1. PICK t \in Waiters : WillServe(t)
      BY <1>1, <1>10 DEF VW!Look, Carried
    <3>2. t # s
      BY <1>10, <2>3, <3>1 DEF VW!Look, WillServe
    <3>3. wtask'[t] = wtask[t] /\ UNCHANGED <<marker, pending>>
      BY <1>6, <1>10, <2>3, <3>2 DEF VW!Look, Stations
    <3> QED BY <3>1, <3>3 DEF WillServe, VW!Waiter
  <2> QED BY <2>1, <2>2, <2>3
<1>11. ASSUME NEW s \in Waiters, VW!Survey(s) PROVE \E t \in Waiters : WillServe(t)'
  <2>1. wtask'[s].at = "claim"
    BY <1>1, <1>6, <1>11 DEF VW!Survey, Stations
  <2> QED BY <1>5, <2>1
<1>12. ASSUME NEW s \in Waiters, VW!SurveyFails(s) PROVE \E t \in Waiters : WillServe(t)'
  <2>1. VW!Go(s, "again")
    BY <1>1, <1>12 DEF VW!SurveyFails, VW!Says
  <2>2. wtask'[s].at = "again"
    BY <1>6, <2>1 DEF Stations
  <2> QED BY <1>5, <2>2
<1>13. ASSUME NEW s \in Waiters, VW!WorkEnds(s) PROVE \E t \in Waiters : WillServe(t)'
  <2>1. wtask'[s].at = "release" /\ \A t \in Waiters \ {s} : wtask'[t] = wtask[t]
    BY <1>6, <1>13 DEF VW!WorkEnds, Stations
  <2>2. PICK t \in Waiters : WillServe(t)
    BY <1>1, <1>13 DEF VW!WorkEnds, Carried
  <2>3. UNCHANGED <<marker, pending>>
    BY <1>13 DEF VW!WorkEnds
  <2>4. CASE t = s
    BY <1>13, <2>1, <2>2, <2>3, <2>4 DEF WillServe, VW!WorkEnds
  <2>5. CASE t # s
    BY <2>1, <2>2, <2>3, <2>5 DEF WillServe, VW!Waiter
  <2> QED BY <2>4, <2>5
<1>14. ASSUME NEW s \in Waiters, VW!Claim(s) PROVE \E t \in Waiters : WillServe(t)'
  <2>1. wtask'[s].at \in {"late", "queued"}
    <3>1. CASE VW!Go(s, "late")
      BY <1>6, <3>1 DEF Stations
    <3>2. CASE wtask' = [wtask EXCEPT ![s] = [at |-> "queued", looks |-> @.looks + 1]]
      BY <3>2 DEF Waits
    <3> QED BY <1>1, <1>14, <3>1, <3>2 DEF VW!Claim, VW!Says
  <2> QED BY <1>5, <2>1
<1>15. ASSUME NEW s \in Waiters, VW!Late(s) PROVE \E t \in Waiters : WillServe(t)'
  BY <1>1, <1>15 DEF VW!Late, VW!Says
<1>16. ASSUME NEW s \in Waiters, VW!Release(s) PROVE \E t \in Waiters : WillServe(t)'
  <2>1. CASE wtask[s].at = "again" \/ (marker = s /\ pending)
    <3>1. wtask'[s].at = "queued"
      BY <1>16, <2>1 DEF VW!Release, Waits
    <3> QED BY <1>5, <3>1
  <2>2. CASE ~(wtask[s].at = "again" \/ (marker = s /\ pending))
    <3>1. PICK t \in Waiters : WillServe(t)
      BY <1>1, <1>16 DEF VW!Release, Carried
    <3>2. t # s /\ wtask'[t] = wtask[t] /\ (pending => UNCHANGED <<marker, pending>>) /\ marker' \in {marker, None}
      BY <1>16, <2>2, <3>1 DEF VW!Release, WillServe, Waits
    <3> QED BY <3>1, <3>2 DEF WillServe, VW!Waiter
  <2> QED BY <2>1, <2>2
<1>17. ASSUME NEW s \in Waiters, VW!Kill(s) PROVE \E t \in Waiters : WillServe(t)'
  <2>1. wtask'[s].at = "queued"
    BY <1>6, <1>17 DEF VW!Kill, Stations
  <2> QED BY <1>5, <2>1
<1> QED BY <1>2, <1>3, <1>4, <1>7, <1>8, <1>9, <1>10, <1>11, <1>12, <1>13, <1>14, <1>15, <1>16, <1>17 DEF VW!Next, VW!Step

(* What was dispatched has been surveyed when no task is left, but where a key
   lapsed, a claim was lost, or a run ended in an error of its own. *)
THEOREM DispatchesAreServed == ASSUME None \notin Waiters PROVE VW!Spec => [](VW!TypeOK /\ VW!OwedIsServed)
<1>1. VW!Init => Waits /\ Carried
  BY DEF VW!Init, Waits, Carried, VW!Idle, Stations
<1>2. Waits /\ Carried /\ [VW!Next]_(VW!vars) => (Waits /\ Carried)'
  BY WaitsStep, CarriedStep
<1>3. Waits /\ Carried => VW!TypeOK /\ VW!OwedIsServed
  BY DEF Waits, Carried, WillServe, VW!TypeOK, VW!OwedIsServed, VW!Quiet, Stations
<1> QED BY <1>1, <1>2, <1>3, PTL DEF VW!Spec

=============================================================================
