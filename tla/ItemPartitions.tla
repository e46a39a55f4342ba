--------------------------- MODULE ItemPartitions ---------------------------
(* The partitions of one item table (services/pg_bm25_index.py): the DEFAULT
   partition, a partition per knowledge base, and the move of a knowledge
   base's rows from the one into the other while indexing runs, writers of the
   API and the removal of sources go on. Each knowledge base has one source.

   A move is a task that may fail or be killed at any step. What it holds
   follows from its place: the build lock in every place but "idle", the move
   gate in Gated, SHARE on the parent in OnParent, SHARE on DEFAULT in OnDefault
   and the referenced tables in "referenced". An indexing run holds the gate,
   shared, in "deleting" and "inserting". *)
EXTENDS Naturals, FiniteSets

CONSTANTS KBs,       \* the knowledge bases with rows in the table
          Touched,   \* those whose rows the API updates and whose sources are deleted
          Versions   \* what the rows of a source may be; an indexing run writes a new one
ASSUME TouchedAssumption == Touched \subseteq KBs
ASSUME VersionsAssumption == Cardinality(Versions) >= 2

VARIABLES default,    \* default[k]: k's rows in the DEFAULT partition
          own,        \* own[k]: the rows in k's clone or partition
          clone,      \* clone[k]: "absent", "bare" (a clone not attached) or "attached"
          fence,      \* the knowledge bases whose bm25_move_<kb> check is on DEFAULT
          move,       \* move[k]: where the task that gives k its partition is
          mayMove,    \* mayMove[k]: that task was asked to move rows (POST /build-bm25)
          run,        \* run[k]: where the indexing run of k's source is
          plan,       \* plan[k]: the layout its statement was planned against
          api,        \* api[k]: "none", or the layout an open update was planned against
          deletion    \* deletion[k]: "none", what an open delete cascades into, or "gone"
moving == <<move, mayMove>>
indexing == <<run, plan>>
rows == <<default, own>>
vars == <<default, own, clone, fence, moving, indexing, api, deletion>>

Gated == {"gated", "empty", "emptyFenced", "validated", "rows", "parent", "fenced", "copied", "referenced"}
OnParent == {"parent", "fenced", "copied", "referenced"}
OnDefault == {"copied", "referenced"}
Places == {"idle", "locked", "queued", "cleanup"} \union Gated
RunPlaces == {"idle", "probe", "probing", "again", "probingAgain", "found", "deleting", "cleared", "inserting", "refused"}
Layouts == {"default", "own"}

\* The build lock leaves one task at a time at work on the table.
TypeOK == /\ \A k, l \in KBs : move[k] # "idle" /\ move[l] # "idle" => k = l
          /\ default \in [KBs -> SUBSET Versions] /\ own \in [KBs -> SUBSET Versions]
          /\ clone \in [KBs -> {"absent", "bare", "attached"}]
          /\ fence \subseteq KBs
          /\ move \in [KBs -> Places] /\ mayMove \in [KBs -> BOOLEAN]
          /\ run \in [KBs -> RunPlaces] /\ plan \in [KBs -> Layouts]
          /\ api \in [KBs -> Layouts \union {"none"}]
          /\ deletion \in [KBs -> {"none", "default", "both", "gone"}]

Layout(k) == IF clone[k] = "attached" THEN "own" ELSE "default"
In(k, layout) == IF layout = "own" THEN own[k] ELSE default[k]
Visible(k) == In(k, Layout(k))
\* Rows that no reader sees yet carry a version none of the visible ones has.
Fresh(k) == Versions \ (default[k] \union own[k])
Put(k, layout, set) == IF layout = "own" THEN own' = [own EXCEPT ![k] = set] /\ UNCHANGED default
                                         ELSE default' = [default EXCEPT ![k] = set] /\ UNCHANGED own

Init == /\ default = [k \in KBs |-> {}] /\ own = [k \in KBs |-> {}]
        /\ clone = [k \in KBs |-> "absent"]
        /\ fence = {}
        /\ move = [k \in KBs |-> "idle"] /\ mayMove = [k \in KBs |-> FALSE]
        /\ run = [k \in KBs |-> "idle"] /\ plan = [k \in KBs |-> "default"]
        /\ api = [k \in KBs |-> "none"]
        /\ deletion = [k \in KBs |-> "none"]

-----------------------------------------------------------------------------
(* Locks *)
BuildLockFree == \A k \in KBs : move[k] = "idle"
SharedGateHeld == \E k \in KBs : run[k] \in {"deleting", "inserting"}
\* Mutant: shared requests do not queue behind an exclusive one.
SharedGateFreeUntilHeld == \A k \in KBs : move[k] \notin Gated
\* A queued request for the gate makes later shared requests wait behind it.
SharedGateFree == \A k \in KBs : move[k] \notin Gated \union {"queued"}
ParentWritten == \E k \in KBs : api[k] # "none" \/ run[k] = "inserting"
ParentFree == \A k \in KBs : move[k] \notin OnParent
DefaultWritten == \E k \in KBs : api[k] = "default" \/ (run[k] = "inserting" /\ plan[k] = "default")
DefaultFree == \A k \in KBs : move[k] \notin OnDefault
Deleting == \E k \in KBs : deletion[k] \in {"default", "both"}
ReferencedFree == \A k \in KBs : move[k] # "referenced"

MoveGoes(k, from, to) == /\ move[k] = from
                         /\ move' = [move EXCEPT ![k] = to]
                         /\ mayMove' = [mayMove EXCEPT ![k] = @ /\ to # "idle"]
                         /\ UNCHANGED <<indexing, api, deletion>>
RunGoes(k, from, to) == /\ run[k] = from
                        /\ run' = [run EXCEPT ![k] = to]
                        /\ UNCHANGED <<clone, fence, moving, api, deletion>>

-----------------------------------------------------------------------------
(* The task that gives a knowledge base its partition *)
\* The build lock is only tried, for a bounded time.
TakeBuildLock(k) == /\ BuildLockFree
                    /\ move' = [move EXCEPT ![k] = "locked"]
                    /\ \E may \in BOOLEAN : mayMove' = [mayMove EXCEPT ![k] = may]
                    /\ UNCHANGED <<rows, clone, fence, indexing, api, deletion>>
\* Checks that earlier moves left go first; a partition already attached needs nothing.
Prepare(k) == /\ MoveGoes(k, "locked", IF clone[k] = "attached" THEN "idle" ELSE "queued")
              /\ fence = {} \/ ~DefaultWritten
              /\ fence' = {}
              /\ clone' = [clone EXCEPT ![k] = IF @ = "absent" THEN "bare" ELSE @]
              /\ UNCHANGED rows
TakeGate(k) == /\ ~SharedGateHeld
               /\ MoveGoes(k, "queued", "gated")
               /\ UNCHANGED <<rows, clone, fence>>
LookForRows(k) == /\ MoveGoes(k, "gated", IF default[k] = {} THEN "empty" ELSE IF mayMove[k] THEN "rows" ELSE "idle")
                  /\ UNCHANGED <<rows, clone, fence>>

\* No rows: the check goes up, is validated and lets the bare clone be attached.
FenceEmpty(k) == /\ ~DefaultWritten
                 /\ MoveGoes(k, "empty", "emptyFenced")
                 /\ fence' = fence \union {k}
                 /\ UNCHANGED <<rows, clone>>
ValidateEmpty(k) == /\ MoveGoes(k, "emptyFenced", IF default[k] = {} THEN "validated"
                                                  ELSE IF mayMove[k] THEN "rows" ELSE "idle")
                    /\ fence' = IF default[k] = {} THEN fence ELSE fence \ {k}
                    /\ UNCHANGED <<rows, clone>>
AttachEmpty(k) == /\ ~Deleting /\ ~DefaultWritten
                  /\ MoveGoes(k, "validated", "idle")
                  /\ clone' = [clone EXCEPT ![k] = "attached"]
                  /\ fence' = fence \ {k}
                  /\ UNCHANGED rows

\* Rows: one transaction holds the writers of the whole table off until they have moved.
LockParent(k) == /\ ~ParentWritten
                 /\ MoveGoes(k, "rows", "parent")
                 /\ UNCHANGED <<rows, clone, fence>>
\* On a second connection, which commits.
FenceMove(k) == /\ ~DefaultWritten
                /\ MoveGoes(k, "parent", "fenced")
                /\ fence' = fence \union {k}
                /\ UNCHANGED <<rows, clone>>
Copy(k) == /\ ~DefaultWritten
           /\ MoveGoes(k, "fenced", "copied")
           /\ UNCHANGED <<rows, clone, fence>>
LockReferenced(k) == /\ ~Deleting
                     /\ MoveGoes(k, "copied", "referenced")
                     /\ UNCHANGED <<rows, clone, fence>>
Attach(k) == /\ MoveGoes(k, "referenced", "idle")
             /\ own' = [own EXCEPT ![k] = @ \union default[k]]
             /\ default' = [default EXCEPT ![k] = {}]
             /\ clone' = [clone EXCEPT ![k] = "attached"]
             /\ fence' = fence \ {k}

\* A step that fails rolls its transaction back; a check that is up has still to go.
GiveUp(k) == /\ move[k] \notin {"idle", "cleanup"}
             /\ MoveGoes(k, move[k], IF k \in fence THEN "cleanup" ELSE "idle")
             /\ UNCHANGED <<rows, clone, fence>>
\* For a bounded time, with the gate and then without it.
DropCheck(k) == /\ MoveGoes(k, "cleanup", "idle")
                /\ \/ ~DefaultWritten /\ fence' = fence \ {k}
                   \/ UNCHANGED fence
                /\ UNCHANGED <<rows, clone>>
\* The server rolls the open transaction back and frees the locks.
Kill(k) == /\ move[k] # "idle"
           /\ MoveGoes(k, move[k], "idle")
           /\ UNCHANGED <<rows, clone, fence>>

\* Mutant: the build lock is not tried before the checks are dropped.
ClearWhileMoving == /\ ~DefaultWritten
                    /\ fence # {}
                    /\ \E dropped \in SUBSET fence : fence' = fence \ dropped
                    /\ UNCHANGED <<rows, clone, moving, indexing, api, deletion>>
\* At start-up, at the next build of any index of the table, after a refused write.
ClearLeftovers == /\ BuildLockFree /\ ~DefaultWritten
                  /\ fence # {}
                  /\ \E dropped \in SUBSET fence : fence' = fence \ dropped
                  /\ UNCHANGED <<rows, clone, moving, indexing, api, deletion>>
\* Of a knowledge base that is gone: rows that are still there go back to DEFAULT.
DropPartition(k) == /\ BuildLockFree /\ ~ParentWritten /\ ~Deleting
                    /\ deletion[k] = "gone" /\ clone[k] # "absent"
                    /\ default' = [default EXCEPT ![k] = @ \union own[k]]
                    /\ own' = [own EXCEPT ![k] = {}]
                    /\ clone' = [clone EXCEPT ![k] = "absent"]
                    /\ UNCHANGED <<fence, moving, indexing, api, deletion>>

-----------------------------------------------------------------------------
(* An indexing run: it clears the rows of its source, then writes new ones *)
StartRun(k) == /\ deletion[k] # "gone"
               /\ RunGoes(k, "idle", "probe")
               /\ UNCHANGED <<rows, plan>>
\* A statement is planned against the layout of the moment, and then may have to wait.
PlanProbe(k) == /\ \/ RunGoes(k, "probe", "probing")
                   \/ RunGoes(k, "again", "probingAgain")
                /\ plan' = [plan EXCEPT ![k] = Layout(k)]
                /\ UNCHANGED rows
\* Mutant: the first "no rows" is believed.
ReadProbeOnce(k) == /\ \/ RunGoes(k, "probing", IF In(k, plan[k]) # {} THEN "found" ELSE "cleared")
                       \/ RunGoes(k, "probingAgain", IF In(k, plan[k]) # {} THEN "found" ELSE "cleared")
                    /\ plan' = [plan EXCEPT ![k] = "default"]
                    /\ UNCHANGED rows
\* "No rows" is asked twice, in transactions of their own, before it is believed.
ReadProbe(k) == /\ \/ RunGoes(k, "probing", IF In(k, plan[k]) # {} THEN "found" ELSE "again")
                   \/ RunGoes(k, "probingAgain", IF In(k, plan[k]) # {} THEN "found" ELSE "cleared")
                /\ plan' = [plan EXCEPT ![k] = "default"]
                /\ UNCHANGED rows
HoldGateToDelete(k) == /\ SharedGateFree
                       /\ RunGoes(k, "found", "deleting")
                       /\ UNCHANGED <<rows, plan>>
DeleteRows(k) == /\ ParentFree /\ DefaultFree
                 /\ RunGoes(k, "deleting", "cleared")
                 /\ Put(k, Layout(k), {})
                 /\ UNCHANGED plan
HoldGateToInsert(k) == /\ SharedGateFree /\ ParentFree
                       /\ RunGoes(k, "cleared", "inserting")
                       /\ plan' = [plan EXCEPT ![k] = Layout(k)]
                       /\ UNCHANGED rows
Refused(k) == k \in fence /\ Layout(k) = "default"
InsertRows(k) == /\ deletion[k] = "none" /\ ~Refused(k)
                 /\ RunGoes(k, "inserting", "idle")
                 /\ \E v \in Fresh(k) : Put(k, plan[k], In(k, plan[k]) \union {v})
                 /\ plan' = [plan EXCEPT ![k] = "default"]
\* The check refuses the rows, or the source they refer to is gone.
InsertFails(k) == /\ deletion[k] = "gone" \/ Refused(k)
                  /\ RunGoes(k, "inserting", IF Refused(k) THEN "refused" ELSE "idle")
                  /\ plan' = [plan EXCEPT ![k] = "default"]
                  /\ UNCHANGED rows
\* The build lock and DEFAULT's are only tried, and the run is queued again either way.
ClearAfterRefusal(k) == /\ run[k] = "refused"
                        /\ run' = [run EXCEPT ![k] = "idle"]
                        /\ IF BuildLockFree /\ ~DefaultWritten THEN fence' = {} ELSE UNCHANGED fence
                        /\ UNCHANGED <<rows, clone, moving, plan, api, deletion>>

-----------------------------------------------------------------------------
(* Writers that take no gate *)
OpenUpdate(k) == /\ k \in Touched /\ api[k] = "none" /\ ParentFree
                 /\ api' = [api EXCEPT ![k] = Layout(k)]
                 /\ UNCHANGED <<rows, clone, fence, moving, indexing, deletion>>
Update(k) == /\ api[k] # "none" /\ (api[k] = "default" => DefaultFree)
             /\ api' = [api EXCEPT ![k] = "none"]
             /\ LET found == In(k, api[k]) IN
                IF found = {} \/ (api[k] = "default" /\ k \in fence) THEN UNCHANGED rows
                ELSE \E v \in Fresh(k) : Put(k, api[k], {v})
             /\ UNCHANGED <<clone, fence, moving, indexing, deletion>>
\* The delete of a source cascades into the partitions its keys named when it began.
OpenDelete(k) == /\ k \in Touched /\ deletion[k] = "none" /\ ReferencedFree
                 /\ ~(run[k] = "inserting")
                 /\ deletion' = [deletion EXCEPT ![k] = IF Layout(k) = "own" THEN "both" ELSE "default"]
                 /\ UNCHANGED <<rows, clone, fence, moving, indexing, api>>
CommitDelete(k) == /\ deletion[k] \in {"default", "both"} /\ DefaultFree
                   /\ api[k] = "none"
                   /\ default' = [default EXCEPT ![k] = {}]
                   /\ own' = [own EXCEPT ![k] = IF deletion[k] = "both" THEN {} ELSE @]
                   /\ deletion' = [deletion EXCEPT ![k] = "gone"]
                   /\ UNCHANGED <<clone, fence, moving, indexing, api>>

MoveStep(k) == \/ Prepare(k) \/ TakeGate(k) \/ LookForRows(k)
               \/ FenceEmpty(k) \/ ValidateEmpty(k) \/ AttachEmpty(k)
               \/ LockParent(k) \/ FenceMove(k) \/ Copy(k) \/ LockReferenced(k) \/ Attach(k)
               \/ DropCheck(k)
RunStep(k) == \/ PlanProbe(k) \/ ReadProbe(k) \/ HoldGateToDelete(k) \/ DeleteRows(k)
              \/ HoldGateToInsert(k) \/ InsertRows(k) \/ InsertFails(k) \/ ClearAfterRefusal(k)
Next == \/ \E k \in KBs : \/ TakeBuildLock(k) \/ MoveStep(k) \/ GiveUp(k) \/ Kill(k) \/ DropPartition(k)
                          \/ StartRun(k) \/ RunStep(k)
                          \/ OpenUpdate(k) \/ Update(k) \/ OpenDelete(k) \/ CommitDelete(k)
        \/ ClearLeftovers
Spec == Init /\ [][Next]_vars
(* Runs and updates go on with what they have begun, and Postgres grants a row
   lock in the order it was asked for (SF). A move takes the gate when it is its
   turn, and owes nothing else: nothing makes it give up before its bound, and
   nobody has to begin anything. *)
FairSpec == /\ Spec
            /\ \A k \in KBs : WF_vars(TakeGate(k)) /\ WF_vars(RunStep(k))
            /\ \A k \in Touched : WF_vars(Update(k)) /\ SF_vars(CommitDelete(k))

-----------------------------------------------------------------------------
(* Nothing about partitions shows: what a reader sees of the rows of a
   knowledge base changes only as ItemRows says. A move loses no update and no
   delete that overlapped it, a run that found no rows to clear does not double
   them, and a removed source leaves no row behind. *)
Items == INSTANCE ItemRows WITH
    items <- [k \in KBs |-> Visible(k)],
    run <- [k \in KBs |-> IF run[k] \in {"idle", "refused"} THEN "idle"
                          ELSE IF run[k] \in {"cleared", "inserting"} THEN "writing" ELSE "clearing"],
    api <- [k \in KBs |-> api[k] # "none"],
    source <- [k \in KBs |-> deletion[k] # "gone"]
Implements == Items!Spec

(* A clone is empty whenever it is not attached, which _drop_stale_clone relies
   on: a failed move leaves its rows in DEFAULT alone. *)
CloneEmpty == \A k \in KBs : clone[k] # "attached" => own[k] = {}

(* The check of a move under way is nobody else's to drop: without it the
   ATTACH of that move scans DEFAULT, or lets a row in. *)
LiveCheckStays ==
    [][\A k \in KBs : k \in fence /\ move[k] \notin {"idle", "locked", "queued"} /\ UNCHANGED move
                      => k \in fence']_vars

(* A move queued for its gate gets it, or gives up, however many runs of the
   table overlap: runs that ask after it wait behind it. *)
QueuedIsGated == \A k \in KBs : move[k] = "queued" ~> move[k] # "queued"
=============================================================================
