------------------------ MODULE ItemPartitionsProofs ------------------------
(* Theorems about ItemPartitions, for any knowledge bases and any versions of
   their rows: the partitions implement the table of ItemRows. *)
EXTENDS ItemPartitions, TLAPS

Fencing == {"emptyFenced", "validated", "fenced", "copied", "referenced"}

(* The rows of a knowledge base are in one place, the one its layout names; who
   has planned to write there still finds them there; and whoever found none
   either saw right or is looking again, at a partition that stays. *)
Placed(k) ==
    /\ clone[k] # "attached" => own[k] = {}
    /\ clone[k] = "attached" => default[k] = {}
    /\ api[k] # "none" => api[k] = Layout(k)
    /\ run[k] = "inserting" => plan[k] = Layout(k)
    /\ deletion[k] = "default" => clone[k] # "attached"
    /\ deletion[k] = "gone" => default[k] = {} /\ own[k] = {}
    /\ run[k] = "probing" => plan[k] = Layout(k) \/ clone[k] = "attached" \/ Visible(k) = {}
    /\ run[k] = "again" => clone[k] = "attached" \/ Visible(k) = {}
    /\ run[k] = "probingAgain" => (clone[k] = "attached" /\ plan[k] = "own") \/ Visible(k) = {}

(* A move has a bare clone, its check where it put one, and finds no rows that
   the check would have refused. *)
Moving(k) ==
    /\ move[k] \in Gated \union {"queued"} => clone[k] = "bare"
    /\ move[k] \in Fencing => k \in fence
    /\ move[k] = "validated" => default[k] = {}

(* What the locks keep apart. *)
Apart(k) ==
    /\ move[k] \in Gated => ~SharedGateHeld
    /\ move[k] \in OnParent => \A l \in KBs : api[l] = "none"
    /\ move[k] = "referenced" => ~Deleting

Inv == TypeOK /\ \A k \in KBs : Placed(k) /\ Moving(k) /\ Apart(k)
\* The types, with one move at a time.
LEMMA TypeStep ==
  ASSUME Inv, Next
  PROVE  TypeOK'
<1> USE DEF Inv, TypeOK, Places, Gated, RunPlaces, Layouts, Layout, rows, moving, indexing
\* A task that goes on is the one that was under way.
<1>1. ASSUME NEW l \in KBs, NEW from \in Places \ {"idle"}, NEW to \in Places, MoveGoes(l, from, to),
             clone' = clone \/ clone' = [clone EXCEPT ![l] = "attached"], fence' \subseteq KBs,
             default' \in [KBs -> SUBSET Versions], own' \in [KBs -> SUBSET Versions]
      PROVE  TypeOK'
  BY <1>1 DEF MoveGoes
<1>2. ASSUME NEW l \in KBs, TakeBuildLock(l) PROVE TypeOK'
  BY <1>2 DEF TakeBuildLock, BuildLockFree
<1>3. ASSUME NEW l \in KBs, Prepare(l) PROVE TypeOK'
  BY <1>3 DEF Prepare, MoveGoes
<1>4. ASSUME NEW l \in KBs, TakeGate(l) \/ LookForRows(l) PROVE TypeOK'
  BY <1>1, <1>4 DEF TakeGate, LookForRows
<1>5. ASSUME NEW l \in KBs, FenceEmpty(l) \/ ValidateEmpty(l) PROVE TypeOK'
  BY <1>1, <1>5 DEF FenceEmpty, ValidateEmpty
<1>6. ASSUME NEW l \in KBs, AttachEmpty(l) PROVE TypeOK'
  BY <1>1, <1>6 DEF AttachEmpty
<1>7. ASSUME NEW l \in KBs, LockParent(l) \/ FenceMove(l) \/ Copy(l) \/ LockReferenced(l) PROVE TypeOK'
  BY <1>1, <1>7 DEF LockParent, FenceMove, Copy, LockReferenced
<1>8. ASSUME NEW l \in KBs, Attach(l) PROVE TypeOK'
  BY <1>1, <1>8 DEF Attach
<1>9. ASSUME NEW l \in KBs, GiveUp(l) \/ DropCheck(l) \/ Kill(l) PROVE TypeOK'
  BY <1>1, <1>9 DEF GiveUp, DropCheck, Kill
<1>10. ASSUME NEW l \in KBs, DropPartition(l) PROVE TypeOK'
  BY <1>10 DEF DropPartition
<1>11. ASSUME NEW l \in KBs, \/ StartRun(l) \/ PlanProbe(l) \/ ReadProbe(l) \/ HoldGateToDelete(l) \/ DeleteRows(l)
                             \/ HoldGateToInsert(l) \/ InsertRows(l) \/ InsertFails(l) \/ ClearAfterRefusal(l)
       PROVE  TypeOK'
  BY <1>11 DEF StartRun, PlanProbe, ReadProbe, HoldGateToDelete, DeleteRows, HoldGateToInsert, InsertRows, InsertFails,
               ClearAfterRefusal, RunGoes, In, Fresh, Put
<1>12. ASSUME NEW l \in KBs, OpenUpdate(l) \/ Update(l) \/ OpenDelete(l) \/ CommitDelete(l) PROVE TypeOK'
  BY <1>12 DEF OpenUpdate, Update, OpenDelete, CommitDelete, Put, In, Fresh
<1>13. ASSUME ClearLeftovers PROVE TypeOK'
  BY <1>13 DEF ClearLeftovers
<1> QED BY <1>2, <1>3, <1>4, <1>5, <1>6, <1>7, <1>8, <1>9, <1>10, <1>11, <1>12, <1>13 DEF Next, MoveStep, RunStep

\* Rows stay where their layout says.
LEMMA PlacedStep ==
  ASSUME Inv, Next
  PROVE  \A k \in KBs : Placed(k)'
<1> USE DEF Inv, TypeOK, Placed, Layout, Visible, In, Places, Gated, OnParent, Fencing, Apart, Moving,
            SharedGateHeld, Deleting, ParentWritten, rows, moving, indexing
<1>1. ASSUME NEW l \in KBs, \/ TakeBuildLock(l) \/ Prepare(l) \/ TakeGate(l) \/ LookForRows(l) \/ FenceEmpty(l) \/ ValidateEmpty(l)
                            \/ LockParent(l) \/ FenceMove(l) \/ Copy(l) \/ LockReferenced(l) \/ DropCheck(l)
     PROVE  \A k \in KBs : Placed(k)'
  BY <1>1 DEF TakeBuildLock, Prepare, TakeGate, LookForRows, FenceEmpty, ValidateEmpty, LockParent, FenceMove,
             Copy, LockReferenced, DropCheck, BuildLockFree, MoveGoes, DefaultWritten
<1>2. ASSUME NEW l \in KBs, AttachEmpty(l) \/ Attach(l) \/ GiveUp(l) \/ Kill(l) PROVE \A k \in KBs : Placed(k)'
  BY <1>2 DEF AttachEmpty, Attach, GiveUp, Kill, MoveGoes, DefaultWritten
<1>3. ASSUME NEW l \in KBs, DropPartition(l) PROVE \A k \in KBs : Placed(k)'
  BY <1>3 DEF DropPartition, BuildLockFree
<1>4. ASSUME NEW l \in KBs, \/ StartRun(l) \/ PlanProbe(l) \/ ReadProbe(l)
                            \/ HoldGateToDelete(l) \/ HoldGateToInsert(l)
     PROVE  \A k \in KBs : Placed(k)'
  BY <1>4 DEF StartRun, PlanProbe, ReadProbe, HoldGateToDelete, HoldGateToInsert, RunGoes, SharedGateFree,
             ParentFree
<1>5. ASSUME NEW l \in KBs, DeleteRows(l) \/ InsertRows(l) \/ InsertFails(l) \/ ClearAfterRefusal(l) PROVE \A k \in KBs : Placed(k)'
  BY <1>5 DEF DeleteRows, InsertRows, InsertFails, ClearAfterRefusal, RunGoes, Put, Refused, Fresh, BuildLockFree
<1>6. ASSUME NEW l \in KBs, OpenUpdate(l) \/ Update(l) \/ OpenDelete(l) \/ CommitDelete(l) PROVE \A k \in KBs : Placed(k)'
  BY <1>6 DEF OpenUpdate, Update, OpenDelete, CommitDelete, ParentFree, Put, Fresh, DefaultFree, ReferencedFree
<1>7. ASSUME ClearLeftovers PROVE \A k \in KBs : Placed(k)'
  BY <1>7 DEF ClearLeftovers, BuildLockFree
<1> QED BY <1>1, <1>2, <1>3, <1>4, <1>5, <1>6, <1>7 DEF Next, MoveStep, RunStep

\* A move keeps its clone and its check.
LEMMA MovingStep ==
  ASSUME Inv, Next
  PROVE  \A k \in KBs : Moving(k)'
<1> USE DEF Inv, TypeOK, Placed, Moving, Apart, SharedGateHeld, Layout, Gated, OnParent, Fencing, rows, moving,
            indexing
<1>1. ASSUME NEW l \in KBs, \/ TakeBuildLock(l) \/ Prepare(l) \/ TakeGate(l) \/ LookForRows(l) \/ FenceEmpty(l) \/ ValidateEmpty(l)
                            \/ LockParent(l) \/ FenceMove(l) \/ Copy(l) \/ LockReferenced(l) \/ DropCheck(l)
     PROVE  \A k \in KBs : Moving(k)'
  BY <1>1 DEF TakeBuildLock, Prepare, TakeGate, LookForRows, FenceEmpty, ValidateEmpty, LockParent, FenceMove,
             Copy, LockReferenced, DropCheck, BuildLockFree, MoveGoes, DefaultWritten, ParentWritten, Deleting
<1>2. ASSUME NEW l \in KBs, AttachEmpty(l) \/ Attach(l) \/ GiveUp(l) \/ Kill(l) PROVE \A k \in KBs : Moving(k)'
  BY <1>2 DEF AttachEmpty, Attach, GiveUp, Kill, MoveGoes, Deleting, DefaultWritten
<1>3. ASSUME NEW l \in KBs, DropPartition(l) PROVE \A k \in KBs : Moving(k)'
  BY <1>3 DEF DropPartition, BuildLockFree, ParentWritten, Deleting
<1>4. ASSUME NEW l \in KBs, \/ StartRun(l) \/ PlanProbe(l) \/ ReadProbe(l)
                            \/ HoldGateToDelete(l) \/ HoldGateToInsert(l)
     PROVE  \A k \in KBs : Moving(k)'
  BY <1>4 DEF StartRun, PlanProbe, ReadProbe, HoldGateToDelete, HoldGateToInsert, RunGoes, In, SharedGateFree,
             ParentFree
<1>5. ASSUME NEW l \in KBs, DeleteRows(l) \/ InsertRows(l) \/ InsertFails(l) \/ ClearAfterRefusal(l) PROVE \A k \in KBs : Moving(k)'
  BY <1>5 DEF DeleteRows, InsertRows, InsertFails, ClearAfterRefusal, RunGoes, Put, Refused, In, Fresh,
             BuildLockFree
<1>6. ASSUME NEW l \in KBs, OpenUpdate(l) \/ Update(l) \/ OpenDelete(l) \/ CommitDelete(l) PROVE \A k \in KBs : Moving(k)'
  BY <1>6 DEF OpenUpdate, Update, OpenDelete, CommitDelete, ParentFree, Put, In, Fresh, DefaultFree, ReferencedFree
<1>7. ASSUME ClearLeftovers PROVE \A k \in KBs : Moving(k)'
  BY <1>7 DEF ClearLeftovers, BuildLockFree
<1> QED BY <1>1, <1>2, <1>3, <1>4, <1>5, <1>6, <1>7 DEF Next, MoveStep, RunStep

\* The locks keep moves and writers apart.
LEMMA ApartStep ==
  ASSUME Inv, Next
  PROVE  \A k \in KBs : Apart(k)'
<1> USE DEF Inv, TypeOK, Apart, SharedGateHeld, Deleting, Gated, OnParent, rows, moving, indexing
<1>1. ASSUME NEW l \in KBs, \/ TakeBuildLock(l) \/ Prepare(l) \/ TakeGate(l) \/ LookForRows(l) \/ FenceEmpty(l) \/ ValidateEmpty(l)
                            \/ LockParent(l) \/ FenceMove(l) \/ Copy(l) \/ LockReferenced(l) \/ DropCheck(l)
     PROVE  \A k \in KBs : Apart(k)'
  BY <1>1 DEF TakeBuildLock, Prepare, TakeGate, LookForRows, FenceEmpty, ValidateEmpty, LockParent, FenceMove,
             Copy, LockReferenced, DropCheck, BuildLockFree, MoveGoes, DefaultWritten, ParentWritten
<1>2. ASSUME NEW l \in KBs, AttachEmpty(l) \/ Attach(l) \/ GiveUp(l) \/ Kill(l) PROVE \A k \in KBs : Apart(k)'
  BY <1>2 DEF AttachEmpty, Attach, GiveUp, Kill, MoveGoes, DefaultWritten
<1>3. ASSUME NEW l \in KBs, DropPartition(l) PROVE \A k \in KBs : Apart(k)'
  BY <1>3 DEF DropPartition, BuildLockFree, ParentWritten
<1>4. ASSUME NEW l \in KBs, \/ StartRun(l) \/ PlanProbe(l) \/ ReadProbe(l)
                            \/ HoldGateToDelete(l) \/ HoldGateToInsert(l)
     PROVE  \A k \in KBs : Apart(k)'
  BY <1>4 DEF StartRun, PlanProbe, ReadProbe, HoldGateToDelete, HoldGateToInsert, RunGoes, In, SharedGateFree,
             ParentFree
<1>5. ASSUME NEW l \in KBs, DeleteRows(l) \/ InsertRows(l) \/ InsertFails(l) \/ ClearAfterRefusal(l) PROVE \A k \in KBs : Apart(k)'
  BY <1>5 DEF DeleteRows, InsertRows, InsertFails, ClearAfterRefusal, RunGoes, Put, Refused, In, Fresh,
             BuildLockFree
<1>6. ASSUME NEW l \in KBs, OpenUpdate(l) \/ Update(l) \/ OpenDelete(l) \/ CommitDelete(l) PROVE \A k \in KBs : Apart(k)'
  BY <1>6 DEF OpenUpdate, Update, OpenDelete, CommitDelete, ParentFree, Put, In, Fresh, DefaultFree, ReferencedFree
<1>7. ASSUME ClearLeftovers PROVE \A k \in KBs : Apart(k)'
  BY <1>7 DEF ClearLeftovers, BuildLockFree
<1> QED BY <1>1, <1>2, <1>3, <1>4, <1>5, <1>6, <1>7 DEF Next, MoveStep, RunStep

-----------------------------------------------------------------------------
\* What the locks, the checks and the layouts make of the rows is an invariant.
LEMMA Invariance == Spec => []Inv
<1>1. Init => Inv
  BY DEF Init, Inv, TypeOK, Placed, Moving, Apart, Layout, Visible, In, Fencing, Gated, OnParent, Places, RunPlaces, Layouts,
         SharedGateHeld, Deleting
<1>2. Inv /\ [Next]_vars => Inv'
  <2>1. ASSUME Inv, Next PROVE Inv'
    BY <2>1, TypeStep, PlacedStep, MovingStep, ApartStep DEF Inv
  <2>2. ASSUME Inv, UNCHANGED vars PROVE Inv'
    BY <2>2 DEF Inv, TypeOK, Placed, Moving, Apart, Layout, Visible, In, SharedGateHeld, Deleting, vars, moving, indexing
  <2> QED BY <2>1, <2>2
<1> QED BY <1>1, <1>2, PTL DEF Spec

\* Every variable keeps its type, and one task at a time is at work on the table.
THEOREM PartitionTypes == Spec => []TypeOK
<1>1. Inv => TypeOK
  BY DEF Inv
<1> QED BY <1>1, Invariance, PTL

\* A clone that is not attached is empty, wherever a move failed or was killed.
THEOREM ClonesStayEmpty == Spec => []CloneEmpty
<1>1. Inv => CloneEmpty
  BY DEF Inv, Placed, CloneEmpty
<1> QED BY <1>1, Invariance, PTL

\* Nobody drops the check of a move that is under way.
THEOREM ChecksOfMovesStay == Spec => LiveCheckStays
<1> DEFINE Stays == \A k \in KBs : k \in fence /\ move[k] \notin {"idle", "locked", "queued"} /\ UNCHANGED move => k \in fence'
<1>1. Inv /\ [Next]_vars => [Stays]_vars
  <2> SUFFICES ASSUME Inv, Next, UNCHANGED move PROVE Stays
    BY DEF vars
  <2> USE DEF Inv, TypeOK
  <2>1. ASSUME NEW l \in KBs, NEW from, NEW to, MoveGoes(l, from, to), from # to PROVE FALSE
    BY <2>1 DEF MoveGoes
  <2>2. ASSUME NEW l \in KBs, TakeBuildLock(l) \/ DropPartition(l) PROVE Stays
    BY <2>2 DEF TakeBuildLock, DropPartition, BuildLockFree
  <2>3. ASSUME NEW l \in KBs, MoveStep(l) \/ GiveUp(l) \/ Kill(l) PROVE FALSE
    BY <2>1, <2>3 DEF MoveStep, Prepare, TakeGate, LookForRows, FenceEmpty, ValidateEmpty, AttachEmpty, LockParent, FenceMove,
                      Copy, LockReferenced, Attach, DropCheck, GiveUp, Kill
  <2>4. ASSUME ClearLeftovers PROVE Stays
    BY <2>4 DEF ClearLeftovers, BuildLockFree
  <2>5. ASSUME NEW l \in KBs, StartRun(l) \/ RunStep(l) PROVE Stays
    BY <2>5 DEF StartRun, RunStep, PlanProbe, ReadProbe, HoldGateToDelete, DeleteRows, HoldGateToInsert, InsertRows, InsertFails,
                ClearAfterRefusal, RunGoes, BuildLockFree
  <2>6. ASSUME NEW l \in KBs, OpenUpdate(l) \/ Update(l) \/ OpenDelete(l) \/ CommitDelete(l) PROVE Stays
    BY <2>6 DEF OpenUpdate, Update, OpenDelete, CommitDelete
  <2> QED BY <2>2, <2>3, <2>4, <2>5, <2>6 DEF Next
<1>2. Spec => [][Stays]_vars
  BY <1>1, Invariance, PTL DEF Spec
<1> QED BY <1>2 DEF LiveCheckStays

-----------------------------------------------------------------------------
(* The refinement.  What ItemRows sees of a state: *)
Phase(k) == IF run[k] \in {"idle", "refused"} THEN "idle"
            ELSE IF run[k] \in {"cleared", "inserting"} THEN "writing" ELSE "clearing"
Shown == [k \in KBs |-> Visible(k)]
Phases == [k \in KBs |-> Phase(k)]
Opened == [k \in KBs |-> api[k] # "none"]
There == [k \in KBs |-> deletion[k] # "gone"]

\* A step in which nothing of that changes does not show.
LEMMA Hidden ==
  ASSUME \A k \in KBs : /\ Visible(k)' = Visible(k) /\ Phase(k)' = Phase(k)
                        /\ (api[k] # "none" <=> api'[k] # "none") /\ (deletion[k] # "gone" <=> deletion'[k] # "gone")
  PROVE  UNCHANGED Items!vars
<1>1. /\ Shown' = Shown /\ Phases' = Phases /\ Opened' = Opened /\ There' = There
  BY DEF Shown, Phases, Opened, There
<1> QED BY <1>1 DEF Items!vars, Shown, Phases, Opened, There, Phase

\* A step that changes the rows of one knowledge base.
LEMMA ShowsOne ==
  ASSUME NEW l \in KBs, NEW set, Visible(l)' = set, \A k \in KBs \ {l} : Visible(k)' = Visible(k)
  PROVE  Shown' = [Shown EXCEPT ![l] = set]
  BY DEF Shown

\* A task that prepares a partition shows nothing, and neither does its attaching,
\* with the rows or without any.
LEMMA MoveIsHidden ==
  ASSUME Inv, NEW l \in KBs, TakeBuildLock(l) \/ MoveStep(l) \/ GiveUp(l) \/ Kill(l) \/ DropPartition(l)
  PROVE  UNCHANGED Items!vars
<1> USE DEF Inv, TypeOK, Visible, In, Layout, rows, indexing, Phase
<1>1. ASSUME NEW from, NEW to, MoveGoes(l, from, to), UNCHANGED rows, clone'[l] = "attached" <=> clone[l] = "attached",
             \A k \in KBs \ {l} : clone'[k] = clone[k]
      PROVE  UNCHANGED Items!vars
  BY <1>1, Hidden DEF MoveGoes
<1>2. CASE TakeBuildLock(l)
  BY <1>2, Hidden DEF TakeBuildLock
<1>3. CASE Prepare(l)
  BY <1>1, <1>3 DEF Prepare
<1>4. CASE \/ TakeGate(l) \/ LookForRows(l) \/ FenceEmpty(l) \/ ValidateEmpty(l) \/ LockParent(l) \/ FenceMove(l)
           \/ Copy(l) \/ LockReferenced(l) \/ DropCheck(l) \/ GiveUp(l) \/ Kill(l)
  BY <1>1, <1>4 DEF TakeGate, LookForRows, FenceEmpty, ValidateEmpty, LockParent, FenceMove, Copy, LockReferenced, DropCheck,
                    GiveUp, Kill
<1>5. CASE AttachEmpty(l)
  BY <1>5, Hidden DEF AttachEmpty, MoveGoes, Placed, Moving, Gated
<1>6. CASE Attach(l)
  <2>1. clone[l] = "bare" /\ own[l] = {}
    BY <1>6 DEF Attach, MoveGoes, Placed, Moving, Gated
  <2>2. /\ own'[l] = default[l] /\ clone'[l] = "attached"
        /\ \A k \in KBs \ {l} : own'[k] = own[k] /\ default'[k] = default[k] /\ clone'[k] = clone[k]
    BY <1>6, <2>1 DEF Attach
  <2>3. \A k \in KBs : Visible(k)' = Visible(k)
    BY <2>1, <2>2
  <2>4. UNCHANGED <<indexing, api, deletion>>
    BY <1>6 DEF Attach, MoveGoes
  <2> QED BY <2>3, <2>4, Hidden
<1>7. CASE DropPartition(l)
  BY <1>7, Hidden DEF DropPartition, Placed, moving
<1> QED BY <1>2, <1>3, <1>4, <1>5, <1>6, <1>7 DEF MoveStep

\* What each step of ItemRows says, in these terms.
LEMMA ItemSteps ==
  ASSUME NEW k \in KBs
  PROVE  /\ Items!Start(k) <=> /\ Phases[k] = "idle" /\ Phases' = [Phases EXCEPT ![k] = "clearing"]
                               /\ UNCHANGED <<Shown, Opened, There>>
         /\ Items!Cleared(k) <=> /\ Phases[k] = "clearing" /\ Phases' = [Phases EXCEPT ![k] = "writing"]
                                 /\ Shown' = [Shown EXCEPT ![k] = {}] /\ UNCHANGED <<Opened, There>>
         /\ Items!Written(k) <=> /\ Phases[k] = "writing" /\ There[k] /\ Phases' = [Phases EXCEPT ![k] = "idle"]
                                 /\ \E v \in Versions \ Shown[k] : Shown' = [Shown EXCEPT ![k] = @ \union {v}]
                                 /\ UNCHANGED <<Opened, There>>
         /\ Items!Aborted(k) <=> /\ Phases[k] = "writing" /\ Phases' = [Phases EXCEPT ![k] = "idle"]
                                 /\ UNCHANGED <<Shown, Opened, There>>
         /\ Items!Open(k) <=> /\ ~Opened[k] /\ Opened' = [Opened EXCEPT ![k] = TRUE] /\ UNCHANGED <<Shown, Phases, There>>
         /\ Items!Update(k) <=> /\ Opened[k] /\ Opened' = [Opened EXCEPT ![k] = FALSE]
                                /\ \/ Shown[k] = {} /\ UNCHANGED Shown
                                   \/ /\ Shown[k] # {}
                                      /\ \E v \in Versions \ Shown[k] : Shown' = [Shown EXCEPT ![k] = {v}]
                                /\ UNCHANGED <<Phases, There>>
         /\ Items!Refuse(k) <=> Opened[k] /\ Opened' = [Opened EXCEPT ![k] = FALSE] /\ UNCHANGED <<Shown, Phases, There>>
         /\ Items!Remove(k) <=> /\ There[k] /\ There' = [There EXCEPT ![k] = FALSE]
                                /\ Shown' = [Shown EXCEPT ![k] = {}] /\ UNCHANGED <<Phases, Opened>>
  BY DEF Items!Start, Items!Cleared, Items!Written, Items!Aborted, Items!Open, Items!Update, Items!Refuse, Items!Remove,
         Shown, Phases, Phase, Opened, There

\* An indexing run starts, clears, writes or aborts; whatever else it does is hidden.
LEMMA RunIsARun ==
  ASSUME Inv, NEW l \in KBs, StartRun(l) \/ RunStep(l)
  PROVE  \/ Items!Start(l) \/ Items!Cleared(l) \/ Items!Written(l) \/ Items!Aborted(l)
         \/ UNCHANGED Items!vars
<1> USE DEF Inv, TypeOK, Visible, In, Layout, rows, Phase
\* What a step of a run leaves alone.
<1>1. ASSUME NEW from, NEW to \in RunPlaces, RunGoes(l, from, to), UNCHANGED rows
      PROVE  /\ Shown' = Shown /\ Opened' = Opened /\ There' = There /\ run[l] = from /\ run'[l] = to
             /\ \A k \in KBs : Visible(k)' = Visible(k) /\ api'[k] = api[k] /\ deletion'[k] = deletion[k]
             /\ \A k \in KBs \ {l} : run'[k] = run[k]
  BY <1>1 DEF RunGoes, Shown, Opened, There, RunPlaces
\* One that goes on in the same phase is hidden.
<1>2. ASSUME NEW from, NEW to \in RunPlaces, RunGoes(l, from, to), UNCHANGED rows, Phase(l)' = Phase(l)
      PROVE  UNCHANGED Items!vars
  <2>1. \A k \in KBs : Phase(k)' = Phase(k)
    BY <1>1, <1>2
  <2> QED BY <1>1, <1>2, <2>1, Hidden
\* One that goes to another phase.
<1>3. ASSUME NEW from, NEW to \in RunPlaces, RunGoes(l, from, to)
      PROVE  Phases' = [Phases EXCEPT ![l] = Phase(l)'] /\ Opened' = Opened /\ There' = There
  BY <1>3 DEF RunGoes, Phases, Opened, There
<1>4. CASE StartRun(l)
  <2>1. RunGoes(l, "idle", "probe") /\ UNCHANGED rows /\ "probe" \in RunPlaces
    BY <1>4 DEF StartRun, RunPlaces
  <2>2. Phases' = [Phases EXCEPT ![l] = "clearing"] /\ Phases[l] = "idle"
    BY <1>1, <1>3, <2>1 DEF Phases
  <2> QED BY <1>1, <2>1, <2>2, ItemSteps
<1>5. CASE PlanProbe(l)
  BY <1>1, <1>2, <1>5 DEF PlanProbe, RunPlaces
<1>6. CASE ReadProbe(l)
  <2>1. CASE RunGoes(l, "probingAgain", "cleared") /\ In(l, plan[l]) = {} /\ UNCHANGED rows
    <3>1. run[l] = "probingAgain" /\ run'[l] = "cleared" /\ Shown' = Shown
      BY <1>1, <2>1 DEF RunPlaces
    <3>2. Visible(l) = {}
      BY <2>1, <3>1 DEF Placed
    <3>3. Phases' = [Phases EXCEPT ![l] = "writing"] /\ Phases[l] = "clearing" /\ Opened' = Opened /\ There' = There
      BY <1>3, <2>1, <3>1 DEF Phases, RunPlaces
    <3>4. Shown' = [Shown EXCEPT ![l] = {}]
      BY <1>1, <2>1, <3>2, ShowsOne DEF RunPlaces
    <3> QED BY <3>3, <3>4, ItemSteps
  <2>2. CASE ~(RunGoes(l, "probingAgain", "cleared") /\ In(l, plan[l]) = {} /\ UNCHANGED rows)
    BY <1>1, <1>2, <1>6, <2>2 DEF ReadProbe, RunPlaces
  <2> QED BY <2>1, <2>2
<1>7. CASE HoldGateToDelete(l) \/ HoldGateToInsert(l)
  BY <1>1, <1>2, <1>7 DEF HoldGateToDelete, HoldGateToInsert, RunPlaces
<1>8. CASE DeleteRows(l)
  <2>1. RunGoes(l, "deleting", "cleared") /\ Put(l, Layout(l), {}) /\ clone' = clone
    BY <1>8 DEF DeleteRows, RunGoes
  <2>2. Shown' = [Shown EXCEPT ![l] = {}]
    BY <2>1 DEF Put, Shown
  <2>3. Phases' = [Phases EXCEPT ![l] = "writing"] /\ Phases[l] = "clearing" /\ Opened' = Opened /\ There' = There
    BY <1>3, <2>1 DEF Phases, RunPlaces, RunGoes
  <2> QED BY <2>2, <2>3, ItemSteps
<1>9. CASE InsertRows(l)
  <2>1. RunGoes(l, "inserting", "idle") /\ clone' = clone /\ deletion[l] = "none" /\ run[l] = "inserting"
    BY <1>9 DEF InsertRows, RunGoes
  <2>2. plan[l] = Layout(l)
    BY <2>1 DEF Placed
  <2>3. PICK v \in Fresh(l) : Put(l, plan[l], In(l, plan[l]) \union {v})
    BY <1>9 DEF InsertRows
  <2>6. v \in Versions \ Visible(l) /\ Shown[l] = Visible(l)
    BY <2>3 DEF Fresh, Shown
  <2>7. Visible(l)' = Visible(l) \union {v} /\ \A k \in KBs \ {l} : Visible(k)' = Visible(k)
    BY <2>1, <2>2, <2>3 DEF Put
  <2>4. v \in Versions \ Shown[l] /\ Shown' = [Shown EXCEPT ![l] = Shown[l] \union {v}]
    BY <2>6, <2>7, ShowsOne
  <2>5. Phases' = [Phases EXCEPT ![l] = "idle"] /\ Phases[l] = "writing" /\ Opened' = Opened /\ There' = There /\ There[l]
    BY <1>3, <2>1 DEF Phases, RunPlaces, RunGoes, There
  <2> QED BY <2>4, <2>5, ItemSteps
<1>10. CASE InsertFails(l)
  <2>1. PICK to \in {"refused", "idle"} : RunGoes(l, "inserting", to) /\ UNCHANGED rows
    BY <1>10 DEF InsertFails
  <2>2. Phases' = [Phases EXCEPT ![l] = "idle"] /\ Phases[l] = "writing"
    BY <1>1, <1>3, <2>1 DEF Phases, RunPlaces
  <2>3. Shown' = Shown /\ Opened' = Opened /\ There' = There
    BY <1>1, <2>1 DEF RunPlaces
  <2> QED BY <2>2, <2>3, ItemSteps
<1>11. CASE ClearAfterRefusal(l)
  BY <1>11, Hidden DEF ClearAfterRefusal
<1> QED BY <1>4, <1>5, <1>6, <1>7, <1>8, <1>9, <1>10, <1>11 DEF RunStep

\* A writer of the API and the removal of a source do what ItemRows says of them.
LEMMA WritersWrite ==
  ASSUME Inv, NEW l \in KBs, OpenUpdate(l) \/ Update(l) \/ OpenDelete(l) \/ CommitDelete(l)
  PROVE  \/ Items!Open(l) \/ Items!Update(l) \/ Items!Refuse(l) \/ Items!Remove(l)
         \/ UNCHANGED Items!vars
<1> USE DEF Inv, TypeOK, Visible, In, Layout, rows, indexing
<1>1. CASE OpenUpdate(l)
  <2>1. ~Opened[l] /\ Opened' = [Opened EXCEPT ![l] = TRUE] /\ UNCHANGED <<Shown, Phases, There>>
    BY <1>1 DEF OpenUpdate, Opened, Shown, Phases, Phase, There, Layouts
  <2> QED BY <2>1, ItemSteps
<1>2. CASE Update(l)
  <2>1. /\ Opened[l] /\ Opened' = [Opened EXCEPT ![l] = FALSE] /\ UNCHANGED <<Phases, There>> /\ clone' = clone
        /\ In(l, api[l]) = Shown[l] /\ api[l] = Layout(l)
    BY <1>2 DEF Update, Placed, Opened, Shown, Phases, Phase, There
  <2>2. CASE UNCHANGED rows
    <3>1. Shown' = Shown
      BY <2>1, <2>2 DEF Shown
    <3> QED BY <2>1, <3>1, ItemSteps
  <2>3. CASE ~UNCHANGED rows
    <3>1. PICK v \in Fresh(l) : Put(l, api[l], {v}) /\ Shown[l] # {}
      BY <1>2, <2>1, <2>3 DEF Update
    <3>3. v \in Versions \ Visible(l) /\ Shown[l] = Visible(l)
      BY <3>1 DEF Fresh, Shown
    <3>4. Visible(l)' = {v} /\ \A k \in KBs \ {l} : Visible(k)' = Visible(k)
      BY <2>1, <3>1 DEF Put
    <3>2. v \in Versions \ Shown[l] /\ Shown' = [Shown EXCEPT ![l] = {v}]
      BY <3>3, <3>4, ShowsOne
    <3> QED BY <2>1, <3>1, <3>2, ItemSteps
  <2> QED BY <2>2, <2>3
<1>3. CASE OpenDelete(l)
  BY <1>3, Hidden DEF OpenDelete, Phase
<1>4. CASE CommitDelete(l)
  <2>1. There[l] /\ There' = [There EXCEPT ![l] = FALSE] /\ UNCHANGED <<Phases, Opened>>
    BY <1>4 DEF CommitDelete, There, Phases, Phase, Opened
  <2>2. Shown' = [Shown EXCEPT ![l] = {}]
    BY <1>4 DEF CommitDelete, Shown, Placed
  <2> QED BY <2>1, <2>2, ItemSteps
<1> QED BY <1>1, <1>2, <1>3, <1>4

\* The partitions, the moves between them and their failures implement the plain
\* table of ItemRows: no update, delete or run sees or leaves anything else.
THEOREM PartitionsImplementRows == Spec => Implements
<1>1. Init => Items!Init
  <2> SUFFICES ASSUME Init PROVE Items!Init
    OBVIOUS
  <2>1. \A k \in KBs : Visible(k) = {} /\ run[k] = "idle" /\ api[k] = "none" /\ deletion[k] = "none"
    BY DEF Init, Visible, In, Layout
  <2>2. [k \in KBs |-> Visible(k)] = [k \in KBs |-> {}]
    BY <2>1
  <2>3. \A k \in KBs : (api[k] # "none") = FALSE /\ (deletion[k] # "gone") = TRUE
    BY <2>1
  <2> QED BY <2>1, <2>2, <2>3 DEF Items!Init
<1>2. Inv /\ [Next]_vars => [Items!Next]_(Items!vars)
  <2> SUFFICES ASSUME Inv, [Next]_vars PROVE [Items!Next]_(Items!vars)
    OBVIOUS
  <2>1. ASSUME NEW l \in KBs, TakeBuildLock(l) \/ MoveStep(l) \/ GiveUp(l) \/ Kill(l) \/ DropPartition(l)
        PROVE  UNCHANGED Items!vars
    BY <2>1, MoveIsHidden
  <2>2. ASSUME NEW l \in KBs, StartRun(l) \/ RunStep(l) PROVE [Items!Next]_(Items!vars)
    BY <2>2, RunIsARun DEF Items!Next
  <2>3. ASSUME NEW l \in KBs, OpenUpdate(l) \/ Update(l) \/ OpenDelete(l) \/ CommitDelete(l) PROVE [Items!Next]_(Items!vars)
    BY <2>3, WritersWrite DEF Items!Next
  <2>4. CASE ClearLeftovers
    BY <2>4, Hidden DEF ClearLeftovers, Visible, In, Layout, Phase, rows, moving, indexing
  <2>5. CASE UNCHANGED vars
    BY <2>5, Hidden DEF vars, Visible, In, Layout, Phase, rows, moving, indexing
  <2> QED BY <2>1, <2>2, <2>3, <2>4, <2>5 DEF Next
<1> QED BY <1>1, <1>2, Invariance, PTL DEF Spec, Implements, Items!Spec
=============================================================================
