------------------------ MODULE ExtractionGateProofs ------------------------
(***************************************************************************)
(* Theorems about ExtractionGate, for every number of slots and deliveries *)
(* and every length of a lease.                                            *)
(***************************************************************************)
EXTENDS ExtractionGate, FiniteSetTheorems, TLAPS

\* Type correctness.
THEOREM GateTypeCorrect == Spec => []TypeOK
<1>1. Init => TypeOK
  BY GateAssumption DEF Init, TypeOK, Runs, MaxHold, Margin
<1>2. TypeOK /\ [Next]_vars => TypeOK'
  <2> SUFFICES ASSUME TypeOK, [Next]_vars PROVE TypeOK'
    OBVIOUS
  <2> USE GateAssumption DEF TypeOK, Runs, MaxHold, Margin
  <2>1. ASSUME NEW d \in Deliveries, Fetch(d) \/ FailOpen(d) \/ Die(d) PROVE TypeOK'
    BY <2>1 DEF Fetch, FailOpen, Die
  <2>2. ASSUME NEW d \in Deliveries, TryAcquire(d) PROVE TypeOK'
    BY <2>2 DEF TryAcquire
  <2>3. ASSUME NEW d \in Deliveries, Beat(d) PROVE TypeOK'
    BY <2>3 DEF Beat
  <2>4. ASSUME NEW d \in Deliveries, Release(d) PROVE TypeOK'
    BY <2>4 DEF Release
  <2>5. CASE Pass
    BY <2>5 DEF Pass, Less
  <2>6. CASE UNCHANGED vars
    BY <2>6 DEF vars
  <2> QED BY <2>1, <2>2, <2>3, <2>4, <2>5, <2>6 DEF Next
<1> QED BY <1>1, <1>2, PTL DEF Spec

-----------------------------------------------------------------------------
\* A step after which no more leases are alive than before keeps the bound.
LEMMA FewerLeases ==
    ASSUME NEW S, NEW T \in SUBSET S, IsFiniteSet(S), Cardinality(S) <= MaxHolders
    PROVE  Cardinality(T) <= MaxHolders
  BY GateAssumption, FS_Subset, FS_CardinalityType

\* The gate never gives out more slots than it has, whatever dies, is starved or
\* loses Redis.
THEOREM BoundedSlots == Spec => []SlotsBound
<1>1. Init => SlotsBound
  <2> SUFFICES ASSUME Init PROVE Cardinality(Live) <= MaxHolders
    BY DEF SlotsBound
  <2>1. Live = {}
    BY DEF Init, Live
  <2> QED BY <2>1, FS_EmptySet, GateAssumption
<1>2. TypeOK /\ SlotsBound /\ [Next]_vars => SlotsBound'
  <2> SUFFICES ASSUME TypeOK, SlotsBound, [Next]_vars PROVE Cardinality(Live') <= MaxHolders
    BY DEF SlotsBound
  <2> USE GateAssumption DEF TypeOK, SlotsBound
  <2>1. IsFiniteSet(Live) /\ Cardinality(Live) \in Nat
    BY FS_Subset, FS_CardinalityType DEF Live
  <2>2. ASSUME Live' \subseteq Live PROVE Cardinality(Live') <= MaxHolders
    BY <2>1, <2>2, FewerLeases
  <2>3. ASSUME NEW d \in Deliveries, TryAcquire(d)
        PROVE  Cardinality(Live') <= MaxHolders
    <3>1. CASE Cardinality(Live) < MaxHolders
      <4>1. Live' \subseteq Live \cup {d}
        BY <2>3, <3>1 DEF TryAcquire, Live
      <4>2. /\ IsFiniteSet(Live \cup {d})
            /\ Cardinality(Live \cup {d}) <= MaxHolders
        <5>1. \/ Cardinality(Live \cup {d}) = Cardinality(Live)
              \/ Cardinality(Live \cup {d}) = Cardinality(Live) + 1
          BY <2>1, FS_AddElement
        <5>2. IsFiniteSet(Live \cup {d})
          BY <2>1, FS_AddElement
        <5> QED BY <2>1, <3>1, <5>1, <5>2
      <4> QED BY <4>1, <4>2, FewerLeases
    <3>2. CASE ~(Cardinality(Live) < MaxHolders)
      BY <2>2, <2>3, <3>2 DEF TryAcquire, Live
    <3> QED BY <3>1, <3>2
  <2>4. ASSUME NEW d \in Deliveries, Beat(d) PROVE Live' \subseteq Live
    BY <2>4 DEF Beat, Live
  <2>5. ASSUME NEW d \in Deliveries, Fetch(d) \/ FailOpen(d) \/ Release(d) \/ Die(d)
        PROVE  Live' \subseteq Live
    BY <2>5 DEF Fetch, FailOpen, Release, Die, Live
  <2>6. CASE Pass
    <3>1. Live' \subseteq Live
      BY <2>6 DEF Pass, Less, Live
    <3> QED BY <2>2, <3>1
  <2>7. CASE UNCHANGED vars
    <3>1. Live' \subseteq Live
      BY <2>7 DEF vars, Live
    <3> QED BY <2>2, <3>1
  <2> QED BY <2>2, <2>3, <2>4, <2>5, <2>6, <2>7 DEF Next
<1> QED BY <1>1, <1>2, GateTypeCorrect, PTL DEF Spec

-----------------------------------------------------------------------------
\* What keeps RedeliveryFindsLapsed: a heartbeat that is still allowed to renew
\* is young enough for a whole lease to fit in before the broker's timeout.
LapseInv ==
    /\ \A d \in Deliveries : run[d] = "fetched" => age[d] <= Wait
    /\ \A d \in Deliveries : hold[d] > 0 => age[d] + hold[d] <= Wait + MaxHold
    /\ \A d \in Deliveries : lease[d] > 0 => age[d] + lease[d] < TimeLimit

\* A task handed out again after the visibility timeout never finds the lease of
\* its last delivery alive, if that delivery acquired within the margin.
THEOREM RedeliveryLapsed ==
    ASSUME Wait <= Margin PROVE Spec => []RedeliveryFindsLapsed
<1>1. Init => LapseInv
  BY GateAssumption DEF Init, LapseInv
<1>2. TypeOK /\ LapseInv /\ [Next]_vars => LapseInv'
  <2> SUFFICES ASSUME TypeOK, LapseInv, [Next]_vars PROVE LapseInv'
    OBVIOUS
  <2> USE GateAssumption DEF TypeOK, LapseInv, MaxHold, Margin
  <2>1. ASSUME NEW d \in Deliveries, Fetch(d) \/ FailOpen(d) \/ Die(d) PROVE LapseInv'
    BY <2>1 DEF Fetch, FailOpen, Die
  <2>2. ASSUME NEW d \in Deliveries, TryAcquire(d) PROVE LapseInv'
    BY <2>2 DEF TryAcquire
  <2>3. ASSUME NEW d \in Deliveries, Beat(d) PROVE LapseInv'
    BY <2>3 DEF Beat
  <2>4. ASSUME NEW d \in Deliveries, Release(d) PROVE LapseInv'
    BY <2>4 DEF Release
  <2>5. CASE Pass
    <3> SUFFICES ASSUME NEW d \in Deliveries
                 PROVE  /\ run'[d] = "fetched" => age'[d] <= Wait
                        /\ hold'[d] > 0 => age'[d] + hold'[d] <= Wait + MaxHold
                        /\ lease'[d] > 0 => age'[d] + lease'[d] < TimeLimit
      BY DEF LapseInv
    <3>1. /\ run'[d] = run[d]
          /\ age'[d] = IF age[d] = TimeLimit THEN TimeLimit ELSE age[d] + 1
          /\ hold'[d] = IF hold[d] = 0 THEN 0 ELSE hold[d] - 1
          /\ lease'[d] = IF lease[d] = 0 THEN 0 ELSE lease[d] - 1
      BY <2>5 DEF Pass, Less
    <3>2. run[d] = "fetched" => age[d] < Wait
      BY <2>5 DEF Pass, Timely
    <3>3. /\ age[d] \in 0..TimeLimit /\ hold[d] \in Nat /\ lease[d] \in Nat
          /\ hold[d] > 0 => age[d] + hold[d] <= Wait + MaxHold
          /\ lease[d] > 0 => age[d] + lease[d] < TimeLimit
      OBVIOUS
    <3> QED BY <3>1, <3>2, <3>3
  <2>6. CASE UNCHANGED vars
    BY <2>6 DEF vars
  <2> QED BY <2>1, <2>2, <2>3, <2>4, <2>5, <2>6 DEF Next
<1>3. TypeOK /\ LapseInv => RedeliveryFindsLapsed
  BY GateAssumption DEF TypeOK, LapseInv, RedeliveryFindsLapsed
<1> QED BY <1>1, <1>2, <1>3, GateTypeCorrect, PTL DEF Spec

-----------------------------------------------------------------------------
\* What keeps TimelyKeepsLease: a holder that is not starved has its heartbeat
\* running and enough lease left to reach the heartbeat's next turn.
BeatInv ==
    \A d \in Deliveries \ Cut :
        run[d] = "holding" /\ hold[d] > 0 => d \in beating /\ lease[d] > due[d]

\* A holder whose heartbeat takes its turns keeps its slot until it gives up, for
\* any lease of more than one turn.
THEOREM TimelyKeeps == Spec => []TimelyKeepsLease
<1>1. Init => BeatInv
  BY DEF Init, BeatInv
<1>2. TypeOK /\ BeatInv /\ [Next]_vars => BeatInv'
  <2> SUFFICES ASSUME TypeOK, BeatInv, [Next]_vars PROVE BeatInv'
    OBVIOUS
  <2> USE GateAssumption DEF TypeOK, BeatInv
  <2>1. ASSUME NEW d \in Deliveries, Fetch(d) \/ FailOpen(d) \/ Release(d) \/ Die(d) PROVE BeatInv'
    BY <2>1 DEF Fetch, FailOpen, Release, Die
  <2>2. ASSUME NEW d \in Deliveries, TryAcquire(d) PROVE BeatInv'
    BY <2>2 DEF TryAcquire
  <2>3. ASSUME NEW d \in Deliveries, Beat(d) PROVE BeatInv'
    BY <2>3 DEF Beat
  <2>4. CASE Pass
    <3> SUFFICES ASSUME NEW d \in Deliveries \ Cut, run'[d] = "holding", hold'[d] > 0
                 PROVE  d \in beating' /\ lease'[d] > due'[d]
      BY DEF BeatInv
    <3>1. /\ run'[d] = run[d] /\ beating' = beating
          /\ hold'[d] = IF hold[d] = 0 THEN 0 ELSE hold[d] - 1
          /\ lease'[d] = IF lease[d] = 0 THEN 0 ELSE lease[d] - 1
          /\ due'[d] = IF due[d] = 0 THEN 0 ELSE due[d] - 1
      BY <2>4 DEF Pass, Less
    <3>2. d \in beating /\ lease[d] > due[d]
      BY <3>1
    <3>3. due[d] > 0
      BY <2>4, <3>2 DEF Pass, Timely
    <3> QED BY <3>1, <3>2, <3>3
  <2>5. CASE UNCHANGED vars
    BY <2>5 DEF vars
  <2> QED BY <2>1, <2>2, <2>3, <2>4, <2>5 DEF Next
<1>3. TypeOK /\ BeatInv => TimelyKeepsLease
  BY DEF TypeOK, BeatInv, TimelyKeepsLease
<1> QED BY <1>1, <1>2, <1>3, GateTypeCorrect, PTL DEF Spec
=============================================================================
