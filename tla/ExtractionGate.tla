--------------------------- MODULE ExtractionGate ---------------------------
(***************************************************************************)
(* LargeExtractionGate: a counting semaphore kept in Redis as a sorted set *)
(* of leases.  The holder of a slot renews its lease from a heartbeat      *)
(* thread; a holder that is killed, or hung for longer than MaxHold, stops *)
(* renewing and loses its slot when the lease runs out.                    *)
(*                                                                         *)
(* Time advances in units of RENEW_SECONDS.  Every clock is kept as what   *)
(* is left of it, so that the model has no absolute time: the Redis clock  *)
(* for the leases, time.monotonic() for the heartbeat, and the broker's    *)
(* for the age of a delivery.  Each Lua script is one atomic step.         *)
(***************************************************************************)
EXTENDS Naturals, FiniteSets

CONSTANTS
    Deliveries,  \* deliveries of extraction tasks, each with a token of its own
    MaxHolders,  \* EXTRACTION_LARGE_MAX_CONCURRENT
    Lease,       \* LEASE_SECONDS / RENEW_SECONDS
    TimeLimit,   \* task_time_limit_seconds(), also the broker's visibility timeout
    Wait,        \* longest time from a worker's taking a message to its acquiring
    Cut          \* those whose host may starve the heartbeat or lose Redis

Margin == 1      \* the minute max_hold_seconds leaves
\* Seeded bug: a slot is kept renewed up to the time limit itself.
HoldToTheLimit == TimeLimit - Margin

MaxHold == TimeLimit - Lease - Margin

ASSUME GateAssumption ==
    /\ IsFiniteSet(Deliveries)
    /\ {MaxHolders, Lease, TimeLimit, Wait} \subseteq Nat
    /\ MaxHolders > 0 /\ Lease > 1
    /\ TimeLimit > Lease + Margin
    /\ Wait < TimeLimit
    /\ Cut \subseteq Deliveries

VARIABLES
    run,      \* how far each delivery has come
    age,      \* time since the broker handed it out, up to TimeLimit
    lease,    \* what is left of its lease; 0 when it has none
    hold,     \* what is left until give_up_at
    due,      \* what is left of the heartbeat's wait
    beating   \* deliveries whose heartbeat thread runs

vars == <<run, age, lease, hold, due, beating>>

Runs == {"none", "fetched", "holding", "ungated"}

TypeOK ==
    /\ run \in [Deliveries -> Runs]
    /\ age \in [Deliveries -> 0..TimeLimit]
    /\ lease \in [Deliveries -> 0..Lease]
    /\ hold \in [Deliveries -> 0..MaxHold]
    /\ due \in [Deliveries -> 0..1]
    /\ beating \subseteq Deliveries

Init ==
    /\ run = [d \in Deliveries |-> "none"]
    /\ age = [d \in Deliveries |-> 0]
    /\ lease = [d \in Deliveries |-> 0]
    /\ hold = [d \in Deliveries |-> 0]
    /\ due = [d \in Deliveries |-> 0]
    /\ beating = {}

-----------------------------------------------------------------------------
\* The scores that ZREMRANGEBYSCORE would leave, and is_live.
Live == {d \in Deliveries : lease[d] > 0}

\* A worker takes a message: a first delivery, or one that waits out its
\* countdown in the worker.
Fetch(d) ==
    /\ run[d] = "none"
    /\ lease[d] = 0 /\ d \notin beating
    /\ run' = [run EXCEPT ![d] = "fetched"]
    /\ age' = [age EXCEPT ![d] = 0]
    /\ UNCHANGED <<lease, hold, due, beating>>

\* try_acquire.  With no free slot the delivery ends: its task is sent again.
TryAcquire(d) ==
    /\ run[d] = "fetched"
    /\ IF Cardinality(Live) < MaxHolders
       THEN /\ run' = [run EXCEPT ![d] = "holding"]
            /\ lease' = [lease EXCEPT ![d] = Lease]
            /\ hold' = [hold EXCEPT ![d] = MaxHold]
            /\ due' = [due EXCEPT ![d] = 1]
            /\ beating' = beating \cup {d}
       ELSE /\ run' = [run EXCEPT ![d] = "none"]
            /\ UNCHANGED <<lease, hold, due, beating>>
    /\ UNCHANGED age

\* try_acquire without Redis: the extraction goes ahead, holding nothing.
FailOpen(d) ==
    /\ d \in Cut
    /\ run[d] = "fetched"
    /\ run' = [run EXCEPT ![d] = "ungated"]
    /\ UNCHANGED <<age, lease, hold, due, beating>>

\* Seeded bug: a renewal adds a lease to what is left.
BeatAdds(d) ==
    /\ d \in beating
    /\ due[d] = 0
    /\ IF hold[d] > 0 /\ lease[d] > 0
       THEN /\ lease' = [lease EXCEPT ![d] = @ + Lease]
            /\ due' = [due EXCEPT ![d] = 1]
            /\ UNCHANGED beating
       ELSE /\ beating' = beating \ {d}
            /\ UNCHANGED <<lease, due>>
    /\ UNCHANGED <<run, age, hold>>

\* Seeded bug: ZADD without looking whether the lease has run out.
BeatRevives(d) ==
    /\ d \in beating
    /\ due[d] = 0
    /\ IF hold[d] > 0
       THEN /\ lease' = [lease EXCEPT ![d] = Lease]
            /\ due' = [due EXCEPT ![d] = 1]
            /\ UNCHANGED beating
       ELSE /\ beating' = beating \ {d}
            /\ UNCHANGED <<lease, due>>
    /\ UNCHANGED <<run, age, hold>>

\* Seeded bug: the heartbeat renews once and returns.
BeatOnce(d) ==
    /\ d \in beating
    /\ due[d] = 0
    /\ lease' = [lease EXCEPT ![d] = IF @ > 0 THEN Lease ELSE 0]
    /\ beating' = beating \ {d}
    /\ UNCHANGED <<run, age, hold, due>>

\* Seeded bug: a hung extraction is renewed for ever.
BeatForEver(d) ==
    /\ d \in beating
    /\ due[d] = 0
    /\ IF lease[d] > 0
       THEN /\ lease' = [lease EXCEPT ![d] = Lease]
            /\ due' = [due EXCEPT ![d] = 1]
            /\ UNCHANGED beating
       ELSE /\ beating' = beating \ {d}
            /\ UNCHANGED <<lease, due>>
    /\ UNCHANGED <<run, age, hold>>

\* _renew_until_released, one turn: past give_up_at it stops, a lease that has
\* run out is not revived, and an error waits for the next turn.
Beat(d) ==
    /\ d \in beating
    /\ due[d] = 0
    /\ IF hold[d] > 0 /\ lease[d] > 0
       THEN /\ \/ lease' = [lease EXCEPT ![d] = Lease]
               \/ d \in Cut /\ UNCHANGED lease
            /\ due' = [due EXCEPT ![d] = 1]
            /\ UNCHANGED beating
       ELSE /\ beating' = beating \ {d}
            /\ UNCHANGED <<lease, due>>
    /\ UNCHANGED <<run, age, hold>>

\* The end of the task: LargeExtractionSlot.release, whose zrem may fail.
Release(d) ==
    /\ run[d] \in {"holding", "ungated"}
    /\ run' = [run EXCEPT ![d] = "none"]
    /\ beating' = beating \ {d}
    /\ \/ lease' = [lease EXCEPT ![d] = 0]
       \/ d \in Cut /\ UNCHANGED lease
    /\ UNCHANGED <<age, hold, due>>

\* The worker's process is killed; nothing is released.
Die(d) ==
    /\ run[d] # "none"
    /\ run' = [run EXCEPT ![d] = "none"]
    /\ beating' = beating \ {d}
    /\ UNCHANGED <<age, lease, hold, due>>

\* A delivery acquires within Wait, and a heartbeat takes its turn when it is
\* due, unless it is starved.
Timely ==
    /\ \A d \in Deliveries : run[d] = "fetched" => age[d] < Wait
    /\ \A d \in beating \ Cut : due[d] > 0

Less(n) == IF n = 0 THEN 0 ELSE n - 1

Pass ==
    /\ Timely
    /\ age' = [d \in Deliveries |-> IF age[d] = TimeLimit THEN TimeLimit ELSE age[d] + 1]
    /\ lease' = [d \in Deliveries |-> Less(lease[d])]
    /\ hold' = [d \in Deliveries |-> Less(hold[d])]
    /\ due' = [d \in Deliveries |-> Less(due[d])]
    /\ UNCHANGED <<run, beating>>

Next ==
    \/ \E d \in Deliveries : \/ Fetch(d) \/ TryAcquire(d) \/ FailOpen(d)
                             \/ Beat(d) \/ Release(d) \/ Die(d)
    \/ Pass

Spec == Init /\ [][Next]_vars

\* Time passes and heartbeats take their turns; extractions may hang for ever.
FairSpec ==
    /\ Spec
    /\ WF_vars(Pass)
    /\ \A d \in Deliveries : WF_vars(Beat(d)) /\ WF_vars(TryAcquire(d))

-----------------------------------------------------------------------------
(* Properties *)

\* At most MaxHolders leases are alive at once, whatever is starved, killed or
\* cut off from Redis: renewing never brings back a lease that has run out.
SlotsBound == Cardinality(Live) <= MaxHolders

\* A holder whose heartbeat takes its turns keeps its slot until it gives up, so
\* no other large extraction starts beside it.
TimelyKeepsLease ==
    \A d \in Deliveries \ Cut :
        (run[d] = "holding" /\ hold[d] > 0) => lease[d] > 0

\* When the broker hands an unfinished task out again, the lease of the delivery
\* before it has lapsed (max_hold_seconds): the redelivery is not kept waiting.
RedeliveryFindsLapsed ==
    \A d \in Deliveries : age[d] = TimeLimit => lease[d] = 0

\* No slot is held for ever: not by a killed worker and not by a hung extraction.
SlotFrees ==
    \A d \in Deliveries : lease[d] > 0 ~> lease[d] = 0
=============================================================================
