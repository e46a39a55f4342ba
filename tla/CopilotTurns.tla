---------------------------- MODULE CopilotTurns ----------------------------
(* Turns of a copilot session (routes/copilot.py for a workflow,
   routes/project_copilot.py for the project; the two differ in the repair of the
   history). A turn takes the session's lock in Redis, commits the user's message,
   reads the recent ones, and leaves the answer to a thread; the thread saves the
   reply, or words in its place, and frees the lock. Messages are read in the order
   of created_at, which is the time their transaction began: at the turn's first
   query, which is before the lock, and at the thread's first query. *)
EXTENDS Naturals, FiniteSets, Sequences

CONSTANTS Turns, Window,  \* turns asked for; messages of history read (40 in the code)
          Events,         \* bound: clients that leave, lapses, failures, restarts, deletions
          None

VARIABLES copilot,   \* "workflow" or "project"
          turn,      \* per turn: where it is
          lock,      \* the turn whose token the session's lock holds
          rows,      \* committed messages: role, turn and time
          begun,     \* per turn: when its transaction began, then its thread's
          seen,      \* per turn: the roles and turns of the history its engine is given
          reply,     \* per turn: what was saved for it
          trouble,   \* per turn: failures its thread met
          excused,   \* turns whose lock was freed or lost while they ran
          exists,    \* the session's row exists
          clock, left

vars == <<copilot, turn, lock, rows, begun, seen, reply, trouble, excused, exists, clock, left>>
Init == /\ copilot \in {"workflow", "project"} /\ turn = [t \in Turns |-> "none"] /\ lock = None /\ rows = {}
        /\ begun = [t \in Turns |-> 0] /\ seen = [t \in Turns |-> <<>>] /\ reply = [t \in Turns |-> "none"]
        /\ trouble = [t \in Turns |-> 0] /\ excused = {} /\ exists = TRUE /\ clock = 1 /\ left = Events

Working == {"held", "asked", "read", "answering", "saving", "placing", "apologizing", "releasing"}
Spend == left > 0 /\ left' = left - 1
(* The request looks the session up: its transaction begins. *)
Ask(t) == /\ turn[t] = "none" /\ exists /\ turn' = [turn EXCEPT ![t] = "found"]
          /\ begun' = [begun EXCEPT ![t] = clock] /\ clock' = clock + 1
          /\ UNCHANGED <<copilot, lock, rows, seen, reply, trouble, excused, exists, left>>
\* Mutant: the lock is written over the one there is (SET without NX).
NoMatter == TRUE
Free == lock = None
(* The lock, or a refusal (409). *)
Acquire(t) == /\ turn[t] = "found" /\ turn' = [turn EXCEPT ![t] = IF Free THEN "held" ELSE "refused"]
              /\ lock' = IF Free THEN t ELSE lock
              /\ UNCHANGED <<copilot, rows, begun, seen, reply, trouble, excused, exists, clock, left>>
(* Redis does not answer: the turn goes on without a lock. *)
FailOpen(t) == /\ turn[t] = "found" /\ Spend /\ turn' = [turn EXCEPT ![t] = "held"] /\ excused' = excused \cup {t}
               /\ UNCHANGED <<copilot, lock, rows, begun, seen, reply, trouble, exists, clock>>
Freed(t) == IF lock = t THEN None ELSE lock
(* The credit gate or a statement raises before the thread exists: the lock is freed. *)
Gated(t) == /\ turn[t] \in {"held", "asked"} /\ Spend /\ turn' = [turn EXCEPT ![t] = "refused"] /\ lock' = Freed(t)
            /\ UNCHANGED <<copilot, rows, begun, seen, reply, trouble, excused, exists, clock>>
Message(t) == /\ turn[t] = "held" /\ exists /\ turn' = [turn EXCEPT ![t] = "asked"]
              /\ rows' = rows \cup {[role |-> "user", turn |-> t, at |-> begun[t]]}
              /\ UNCHANGED <<copilot, lock, begun, seen, reply, trouble, excused, exists, clock, left>>

\* By time: the n-th has n - 1 before it, and no two transactions begin at once.
InOrder(set) == [n \in 1..Cardinality(set) |-> CHOOSE m \in set : Cardinality({q \in set : q.at < m.at}) = n - 1]
LastOf(s) == IF Len(s) > Window THEN SubSeq(s, Len(s) - Window + 1, Len(s)) ELSE s
Trimmed(s) == LET users == {i \in DOMAIN s: s[i].role = "user"}
              IN IF users = {} THEN <<>> ELSE SubSeq(s, CHOOSE i \in users: \A j \in users: i <= j, Len(s))
(* Words of an assistant between two messages of the user, for a workflow. *)
Said == [role |-> "assistant", turn |-> None, at |-> 0]
\* Where a message of the user follows one, and where each message goes, past what was put in before it.
Gaps(s) == {i \in 2..Len(s): s[i - 1].role = "user" /\ s[i].role = "user"}
Moved(s, i) == i + Cardinality({g \in Gaps(s): g <= i})
Repaired(s) == IF copilot = "project" THEN s
               ELSE [k \in 1..Len(s) + Cardinality(Gaps(s)) |-> IF \E i \in DOMAIN s: Moved(s, i) = k THEN s[CHOOSE i \in DOMAIN s: Moved(s, i) = k] ELSE Said]
Read(t) == /\ turn[t] = "asked" /\ turn' = [turn EXCEPT ![t] = "read"]
           /\ seen' = [seen EXCEPT ![t] = [i \in DOMAIN Repaired(Trimmed(LastOf(InOrder(rows)))) |-> LET m == Repaired(Trimmed(LastOf(InOrder(rows))))[i] IN <<m.role, m.turn>>]]
           /\ UNCHANGED <<copilot, lock, rows, begun, reply, trouble, excused, exists, clock, left>>

(* The response is iterated: the thread starts, and reads the provider's key. *)
Answer(t) == /\ turn[t] = "read" /\ turn' = [turn EXCEPT ![t] = "answering"]
             /\ begun' = [begun EXCEPT ![t] = clock] /\ clock' = clock + 1
             /\ UNCHANGED <<copilot, lock, rows, seen, reply, trouble, excused, exists, left>>
(* The agent answers, or raises. *)
Answered(t) == /\ turn[t] = "answering" /\ turn' = [turn EXCEPT ![t] = "saving"]
               /\ UNCHANGED <<copilot, lock, rows, begun, seen, reply, trouble, excused, exists, clock, left>>
Raises(t) == /\ turn[t] = "answering" /\ Spend /\ turn' = [turn EXCEPT ![t] = "apologizing"]
             /\ trouble' = [trouble EXCEPT ![t] = @ + 1]
             /\ UNCHANGED <<copilot, lock, rows, begun, seen, reply, excused, exists, clock>>
(* The thread's message: the reply, words for a reply that could not be saved, or
   an apology. *)
Save(t) == /\ turn[t] \in {"saving", "placing", "apologizing"} /\ exists
           /\ turn' = [turn EXCEPT ![t] = "releasing"] /\ reply' = [reply EXCEPT ![t] = turn[t]]
           /\ rows' = rows \cup {[role |-> "assistant", turn |-> t, at |-> begun[t]]}
           /\ UNCHANGED <<copilot, lock, begun, seen, trouble, excused, exists, clock, left>>
\* Mutant: a reply that could not be saved is given up.
GiveUp(t) == "releasing"
AfterFailure(t) == IF turn[t] = "saving" THEN "placing" ELSE "releasing"
SaveFails(t) == /\ turn[t] \in {"saving", "placing", "apologizing"}
                /\ \/ exists /\ Spend /\ trouble' = [trouble EXCEPT ![t] = @ + 1]
                   \/ ~exists /\ UNCHANGED <<left, trouble>>
                /\ turn' = [turn EXCEPT ![t] = AfterFailure(t)]
                /\ begun' = [begun EXCEPT ![t] = clock] /\ clock' = clock + 1  \* after the rollback
                /\ UNCHANGED <<copilot, lock, rows, seen, reply, excused, exists>>
Release(t) == /\ turn[t] = "releasing" /\ turn' = [turn EXCEPT ![t] = "done"] /\ lock' = Freed(t)
              /\ UNCHANGED <<copilot, rows, begun, seen, reply, trouble, excused, exists, clock, left>>

(* The response is closed: its client left, before or after the thread was started,
   or 300 seconds passed without an event. The lock is freed, the thread goes on. *)
Close(t) == /\ turn[t] \in {"read", "answering", "saving", "placing", "apologizing", "releasing"} /\ Spend
            /\ turn' = [turn EXCEPT ![t] = IF @ = "read" THEN "done" ELSE @]
            /\ lock' = Freed(t) /\ excused' = excused \cup {t}
            /\ UNCHANGED <<copilot, rows, begun, seen, reply, trouble, exists, clock>>
(* The lock's time is up (360 seconds), or Redis lost it. *)
Lapse == /\ lock # None /\ Spend /\ lock' = None /\ excused' = excused \cup {lock}
         /\ UNCHANGED <<copilot, turn, rows, begun, seen, reply, trouble, exists, clock>>
(* The process dies with its turn; the lock stays. *)
Crash(t) == /\ turn[t] \in Working /\ Spend /\ turn' = [turn EXCEPT ![t] = "dead"]
            /\ UNCHANGED <<copilot, lock, rows, begun, seen, reply, trouble, excused, exists, clock>>
(* The session is deleted with its messages. *)
Delete == /\ exists /\ Spend /\ exists' = FALSE /\ rows' = {}
          /\ UNCHANGED <<copilot, turn, lock, begun, seen, reply, trouble, excused, clock>>

TurnStep(t) == \/ Ask(t) \/ Acquire(t) \/ FailOpen(t) \/ Gated(t) \/ Message(t) \/ Read(t) \/ Answer(t) \/ Answered(t)
               \/ Raises(t) \/ Save(t) \/ SaveFails(t) \/ Release(t) \/ Close(t) \/ Crash(t)
Next == (\E t \in Turns: TurnStep(t)) \/ Lapse \/ Delete
Spec == Init /\ [][Next]_vars

TypeOK == /\ \A t \in Turns: /\ turn[t] \in Working \cup {"none", "found", "refused", "done", "dead"} /\ begun[t] < clock
                             /\ reply[t] \in {"none", "saving", "placing", "apologizing"}
          /\ lock \in Turns \cup {None} /\ exists \in BOOLEAN

(* A turn whose client stays, whose lock is in time and for which Redis answered
   holds the lock from its first statement to its last: no other turn, ending
   early, late or twice, can free it. *)
LockHeld == \A t \in Turns \ excused: turn[t] \in Working => lock = t
(* So such turns never work at the same time. *)
TurnsApart == \A s, t \in Turns \ excused: s # t => ~(turn[s] \in Working /\ turn[t] \in Working)
\* Both: the lock is whose turn it is.
TurnsAreApart == LockHeld /\ TurnsApart
(* What the model is given begins with the user, and is no longer than the window
   and the words put in between; in a workflow's copilot no two messages of the
   user follow each other, whatever rows earlier turns left. *)
SeenWellFormed == \A t \in Turns: seen[t] # <<>> =>
    /\ seen[t][1][1] = "user" /\ Len(seen[t]) <= 2 * Window
    /\ copilot = "workflow" => \A i \in 1..(Len(seen[t]) - 1): ~(seen[t][i][1] = "user" /\ seen[t][i + 1][1] = "user")
(* A thread that ended left an answer for the user's message, a reply or words for
   it, unless two things failed in that turn or the session is gone. *)
EndsAnswered == \A t \in Turns: turn[t] = "done" /\ seen[t] # <<>> /\ t \notin excused /\ trouble[t] < 2 /\ exists => reply[t] # "none"

(* The lock is there so that no two rows of the user follow each other, says the
   comment of routes/project_copilot.py; at least while nothing fails and nobody leaves. *)
UserRowsApart == left = Events => \A a, b \in rows: a.role = "user" /\ b.role = "user" /\ a.at < b.at =>
                     \E m \in rows: m.role = "assistant" /\ a.at < m.at /\ m.at < b.at
=============================================================================
