------------------------ MODULE SnapshotStore_proofs ------------------------
(* Proofs about SnapshotStore, for every set of vaults, snapshots and      *)
(* requests and every bound: its type invariant, the exact object count,   *)
(* one committed row per vault, the acknowledgement of what is replaced,   *)
(* and that it implements SnapshotChain.                                   *)
EXTENDS SnapshotStore, FiniteSetTheorems, TLAPS

-----------------------------------------------------------------------------
(* The strengthened invariant.                                             *)

\* A running request carries a signed snapshot, and only signed snapshots
\* have rows.
RequestsKnow ==
    \A r \in Requests : request[r].pc # "idle" =>
        request[r].s \in Snapshots /\ envelope[request[r].s] # NoEnvelope
RowsKnow ==
    \A s \in Snapshots : row[s].state # "none" => envelope[s] # NoEnvelope

\* A vault that the scheduled job takes apart is no longer active.
Dismantling == {"wipe", "emptied", "counted", "erase"}
JobsClosed ==
    \A v \in Vaults :
        job[v] \in {"pending", "deleting_r2", "failed"} => vault[v].status # "active"
CronClosed ==
    /\ cron.pc \in Dismantling =>
         \A v \in cron.of \cap Vaults : vault[v].status # "active"
    /\ cron.pc \in Dismantling \ {"wipe"} => cron.of \subseteq Vaults

\* The current snapshot of a vault is one of its own, with its revision.
HeadsMatch ==
    \A v \in Vaults : vault[v].current # None =>
        /\ VaultOf[vault[v].current] = v
        /\ envelope[vault[v].current].revision = vault[v].revision
        /\ vault[v].revision > 0

\* Does a snapshot follow the current one of its vault in epoch and revision?
Follows(s) ==
    /\ envelope[s].epoch = vault[VaultOf[s]].epoch
    /\ envelope[s].revision = vault[VaultOf[s]].revision + 1

\* No envelope is ahead of its vault, and one that follows the current
\* snapshot was made upon it.
FollowsWell(s) ==
    /\ envelope[s].epoch <= vault[VaultOf[s]].epoch
    /\ envelope[s].epoch = vault[VaultOf[s]].epoch =>
         envelope[s].revision <= vault[VaultOf[s]].revision + 1
    /\ Follows(s) /\ vault[VaultOf[s]].status # "gone" =>
         envelope[s].prev = vault[VaultOf[s]].current
    /\ envelope[s] # NoEnvelope => envelope[s].revision > 0

EnvelopesFollow ==
    /\ \A v \in Vaults : vault[v].epoch > 0
    /\ \A s \in Snapshots : FollowsWell(s)

\* Has an upload of the snapshot been let past the acknowledgement check?
LetPast(s) ==
    \/ row[s].state # "none"
    \/ \E r \in Requests : request[r].s = s /\ request[r].pc \notin {"idle", "load"}

BaseAcknowledged(s) ==
    LET v == vault[VaultOf[s]] IN
    v.current = None \/ envelope[v.current].epoch # v.epoch \/ v.current \in acked

\* What was checked when an upload was loaded still holds when it could win.
CheckStillHolds ==
    \A s \in Snapshots : LetPast(s) /\ Follows(s) => BaseAcknowledged(s)

IInv ==
    /\ TypeOK /\ RequestsKnow /\ RowsKnow /\ JobsClosed /\ CronClosed
    /\ HeadsMatch /\ EnvelopesFollow /\ CheckStillHolds
    /\ CommittedIsCurrent /\ TotalIsExact

-----------------------------------------------------------------------------
(* Operators.                                                              *)

\* A set of snapshots is finite, so its size is a number.
LEMMA SnapshotSetsFinite ==
    ASSUME NEW S, S \subseteq Snapshots
    PROVE  IsFiniteSet(S) /\ Cardinality(S) \in Nat
BY StoreAssumption, FS_Subset, FS_CardinalityType DEF StoreAssumption

\* A counter taken down is a number.
LEMMA LessType ==
    ASSUME TypeOK, NEW n \in Nat
    PROVE  Less(n) \in Nat
BY DEF TypeOK, Less

\* Releasing keys leaves the inventory well-formed.
LEMMA ReleasedType ==
    ASSUME TypeOK, NEW S \in SUBSET Snapshots, Released(S)
    PROVE  inventory' \in [Snapshots -> {"none", "temporary", "committed"}] /\ total' \in Nat
<1>1. Cardinality(S \cap Inventoried) \in Nat
  BY SnapshotSetsFinite
<1> QED
  BY <1>1, LessType DEF Released, TypeOK

\* A released key has left the inventory, and no other has.
LEMMA ReleasedKeys ==
    ASSUME TypeOK, NEW S \in SUBSET Snapshots,
           inventory' = [s \in Snapshots |-> IF s \in S THEN "none" ELSE inventory[s]]
    PROVE  Inventoried' = Inventoried \ S
BY DEF Inventoried, TypeOK

\* The rows a commit leaves are well-formed.
LEMMA CommittedRowsType ==
    ASSUME TypeOK, NEW s, NEW v
    PROVE  CommittedRows(s, v) \in [Snapshots -> RowRecords]
BY DEF TypeOK, CommittedRows, RowRecords

-----------------------------------------------------------------------------
(* Types.                                                                  *)

\* A request keeps its type through the three ways it moves on.
LEMMA RequestMoves ==
    ASSUME TypeOK, NEW r \in Requests
    PROVE  /\ \A pc \in Pcs : Goto(r, pc) =>
                request' \in [Requests -> RequestRecords]
           /\ Answer(r) =>
                request' \in [Requests -> RequestRecords]
           /\ \A s \in Snapshots, pc \in Pcs, f \in BOOLEAN :
                request' = [request EXCEPT ![r] = [pc |-> pc, s |-> s, found |-> f]] =>
                request' \in [Requests -> RequestRecords]
<1>1. ASSUME NEW pc \in Pcs, Goto(r, pc)
      PROVE  request' \in [Requests -> RequestRecords]
  BY <1>1 DEF TypeOK, Goto, RequestRecords
<1>2. Idle \in RequestRecords
  BY DEF Idle, Pcs, RequestRecords
<1>3. ASSUME Answer(r)
      PROVE  request' \in [Requests -> RequestRecords]
  BY <1>2, <1>3 DEF TypeOK, Answer
<1>4. ASSUME NEW s \in Snapshots, NEW pc \in Pcs, NEW f \in BOOLEAN,
             request' = [request EXCEPT ![r] = [pc |-> pc, s |-> s, found |-> f]]
      PROVE  request' \in [Requests -> RequestRecords]
  BY <1>4 DEF TypeOK, RequestRecords
<1> QED
  BY <1>1, <1>3, <1>4

\* What a stored row means to an upload moves its request to a known place.
LEMMA ByStoredMoves ==
    ASSUME TypeOK, NEW r \in Requests, NEW s \in Snapshots, NEW state,
           NEW reading \in {"first", "again"}, ByStored(r, s, state, reading)
    PROVE  \/ Answer(r)
           \/ \E pc \in Pcs, f \in BOOLEAN :
                request' = [request EXCEPT ![r] = [pc |-> pc, s |-> s, found |-> f]]
BY DEF ByStored, Answer, Pcs

\* A step of an upload keeps the types.
LEMMA RequestStepType ==
    ASSUME TypeOK, RequestsKnow, NEW r \in Requests, RequestStep(r)
    PROVE  TypeOK'
<1> DEFINE s == request[r].s
<1>0. request[r] \in RequestRecords
  BY DEF TypeOK
<1>a. request[r].pc # "idle" => s \in Snapshots
  BY DEF RequestsKnow
<1> USE DEF database, At
<1>1. CASE Load(r)
  <2>1. s \in Snapshots
    BY <1>1, <1>a DEF Load
  <2>2. request' \in [Requests -> RequestRecords]
    BY <1>1, <1>0, <2>1, RequestMoves DEF Load, TypeOK, Pcs
  <2> QED
    BY <1>1, <2>2 DEF Load, TypeOK
<1>2. CASE Insert(r)
  <2>1. s \in Snapshots
    BY <1>2, <1>a DEF Insert
  <2>2. request' \in [Requests -> RequestRecords]
    <3>1. CASE ByStored(r, s, row[s].state, "again")
      BY <3>1, <2>1, ByStoredMoves, RequestMoves
    <3>2. CASE Goto(r, "reserve")
      BY <3>2, RequestMoves DEF Pcs
    <3> QED
      BY <1>2, <3>1, <3>2 DEF Insert
  <2>3. row' \in [Snapshots -> RowRecords]
    <3>1. \/ row' = row
          \/ row' = [row EXCEPT ![s] = [state |-> "temporary", due |-> FALSE]]
      BY <1>2 DEF Insert
    <3>2. row \in [Snapshots -> RowRecords]
      BY DEF TypeOK
    <3>3. [state |-> "temporary", due |-> FALSE] \in
            RowRecords
      BY DEF RowRecords
    <3> HIDE DEF s
    <3> QED
      BY <3>1, <3>2, <3>3
  <2> QED
    BY <1>2, <2>2, <2>3 DEF Insert, TypeOK
<1>3. CASE Reserve(r)
  <2>1. s \in Snapshots
    BY <1>3, <1>a DEF Reserve
  <2>2. request' \in [Requests -> RequestRecords]
    BY <1>3, RequestMoves DEF Reserve, Pcs
  <2> QED
    BY <1>3, <2>1, <2>2 DEF Reserve, TypeOK
<1>4. CASE Put(r)
  <2>1. s \in Snapshots
    BY <1>4, <1>a DEF Put
  <2>2. request' \in [Requests -> RequestRecords]
    BY <1>4, RequestMoves DEF Put, Pcs
  <2> QED
    BY <1>4, <2>1, <2>2 DEF Put, TypeOK
<1>5. CASE PutFails(r)
  <2>1. s \in Snapshots
    BY <1>5, <1>a DEF PutFails
  <2>2. request' \in [Requests -> RequestRecords]
    BY <1>5, RequestMoves DEF PutFails, Pcs
  <2>3. object' \subseteq Snapshots
    BY <1>5, <2>1 DEF PutFails, TypeOK
  <2> QED
    BY <1>5, <2>2, <2>3 DEF PutFails, TypeOK
<1>6. CASE UndoObject(r)
  <2>2. request' \in [Requests -> RequestRecords]
    BY <1>6, RequestMoves DEF UndoObject, Pcs
  <2> QED
    BY <1>6, <2>2 DEF UndoObject, TypeOK
<1>7. CASE UndoInventory(r)
  <2>1. {s} \in SUBSET Snapshots
    BY <1>7, <1>a DEF UndoInventory
  <2>2. request' \in [Requests -> RequestRecords]
    BY <1>7, RequestMoves DEF UndoInventory
  <2>3. inventory' \in [Snapshots -> {"none", "temporary", "committed"}] /\ total' \in Nat
    BY <1>7, <2>1, ReleasedType DEF UndoInventory
  <2> QED
    BY <1>7, <2>2, <2>3 DEF UndoInventory, TypeOK
<1>8. CASE Orphan(r)
  <2>1. s \in Snapshots
    BY <1>8, <1>a DEF Orphan
  <2>2. request' \in [Requests -> RequestRecords]
    BY <1>8, RequestMoves DEF Orphan, Pcs
  <2> QED
    BY <1>8, <2>1, <2>2 DEF Orphan, OrphanRow, TypeOK, RowRecords
<1>9. ASSUME NEW won \in {"finish", "error"}, NEW lost \in {"lost", "error"},
             CommitBatch(r, won, lost)
      PROVE  TypeOK'
  <2>1. s \in Snapshots
    BY <1>9, <1>a DEF CommitBatch
  <2>2. request' \in [Requests -> RequestRecords]
    BY <1>9, RequestMoves DEF CommitBatch, Pcs
  <2>3. vault' \in [Vaults -> VaultRecords]
    <3>1. envelope[s].revision \in Nat /\ VaultOf[s] \in Vaults
      BY <2>1, StoreAssumption DEF TypeOK, StoreAssumption
    <3> DEFINE old == vault[VaultOf[s]]
               new == IF Wins(s)
                      THEN [old EXCEPT !.revision = envelope[s].revision, !.current = s]
                      ELSE old
    <3>2. old \in VaultRecords
      BY <3>1 DEF TypeOK
    <3>3. new \in VaultRecords
      BY <3>1, <3>2, <2>1 DEF VaultRecords
    <3>4. vault' = [vault EXCEPT ![VaultOf[s]] = new]
      BY <1>9 DEF CommitBatch
    <3> QED
      BY <3>1, <3>3, <3>4 DEF TypeOK
  <2>4. row' \in [Snapshots -> RowRecords]
    BY <1>9, CommittedRowsType DEF CommitBatch
  <2> QED
    BY <1>9, <2>2, <2>3, <2>4 DEF CommitBatch, TypeOK
<1>10. CASE CommitFails(r)
  <2>2. request' \in [Requests -> RequestRecords]
    BY <1>10, RequestMoves DEF CommitFails, Pcs
  <2> QED
    BY <1>10, <2>2 DEF CommitFails, TypeOK
<1>11. CASE Reread(r)
  <2>2. request' \in [Requests -> RequestRecords]
    BY <1>11, RequestMoves DEF Reread, Pcs
  <2> QED
    BY <1>11, <2>2 DEF Reread, TypeOK
<1>12. CASE Settle(r)
  <2>2. request' \in [Requests -> RequestRecords]
    BY <1>12, RequestMoves DEF Settle
  <2> QED
    BY <1>12, <2>2 DEF Settle, TypeOK
<1>13. CASE Stop(r)
  <2>2. request' \in [Requests -> RequestRecords]
    BY <1>13, RequestMoves DEF Stop
  <2> QED
    BY <1>13, <2>2 DEF Stop, TypeOK
<1> QED
  BY <1>1, <1>2, <1>3, <1>4, <1>5, <1>6, <1>7, <1>8, <1>9, <1>10, <1>11, <1>12, <1>13
  DEF RequestStep, Commit, CommitUnknown

\* A step of the scheduled job keeps the types.
LEMMA CronStepType ==
    ASSUME TypeOK, CronStep
    PROVE  TypeOK'
<1> USE DEF database, CronMoves, CronEnds, CronIdle, CronPcs
<1>0. \A v \in Vaults : VaultObjects(v) \in Nat
  BY SnapshotSetsFinite DEF VaultObjects, Inventoried
<1>1. CASE Claim
  BY <1>1 DEF Claim, TypeOK, RowRecords
<1>2. CASE CollectObjects
  BY <1>2 DEF CollectObjects, TypeOK
<1>3. CASE CollectInventory
  <2>1. inventory' \in [Snapshots -> {"none", "temporary", "committed"}] /\ total' \in Nat
    BY <1>3, ReleasedType DEF CollectInventory
  <2> QED
    BY <1>3, <2>1 DEF CollectInventory, TypeOK
<1>4. CASE CollectRows
  BY <1>4 DEF CollectRows, NoRow, TypeOK, RowRecords
<1>5. CASE CronStops
  BY <1>5 DEF CronStops, Jobs, TypeOK
<1>6. CASE ListBucket
  BY <1>6 DEF ListBucket, TypeOK
<1>7. CASE CompareInventory
  BY <1>7 DEF CompareInventory, TypeOK
<1>8. ASSUME NEW v \in Vaults, ResumeDeletion(v)
      PROVE  TypeOK'
  BY <1>8 DEF ResumeDeletion, Jobs, TypeOK
<1>9. ASSUME NEW v \in Vaults, ForgetJob(v)
      PROVE  TypeOK'
  BY <1>9 DEF ForgetJob, Jobs, TypeOK
<1>10. CASE WipeObjects
  BY <1>10 DEF WipeObjects, TypeOK
<1>11. CASE CountVault
  <2>1. PICK v \in cron.of : CronMoves("counted", {v}, VaultObjects(v))
    BY <1>11 DEF CountVault
  <2>2. VaultObjects(v) \in Nat
    BY SnapshotSetsFinite DEF VaultObjects, Inventoried
  <2> QED
    BY <1>11, <2>1, <2>2 DEF CountVault, TypeOK
<1>12. CASE ReleaseVault
  <2>1. cron.count \in Nat
    BY DEF TypeOK
  <2>2. total' \in Nat
    BY <1>12, <2>1, LessType DEF ReleaseVault
  <2> QED
    BY <1>12, <2>2 DEF ReleaseVault, TypeOK
<1>13. CASE EraseVault
  <2>1. PICK v \in cron.of :
          /\ vault' = [vault EXCEPT ![v] = [@ EXCEPT !.status = "gone", !.current = None]]
          /\ row' = [s \in Snapshots |-> IF VaultOf[s] = v THEN NoRow ELSE row[s]]
          /\ inventory' = [s \in Snapshots |-> IF VaultOf[s] = v THEN "none" ELSE inventory[s]]
          /\ job' = [job EXCEPT ![v] = "completed"]
    BY <1>13 DEF EraseVault
  <2>2. vault' \in [Vaults -> VaultRecords]
    <3>1. vault \in [Vaults -> VaultRecords]
      BY DEF TypeOK
    <3> QED
      BY <2>1, <3>1 DEF VaultRecords
  <2>3. row' \in [Snapshots -> RowRecords]
    BY <2>1 DEF TypeOK, NoRow, RowRecords
  <2>4. /\ inventory' \in [Snapshots -> {"none", "temporary", "committed"}]
        /\ job' \in [Vaults -> Jobs]
    BY <2>1 DEF TypeOK, Jobs
  <2> QED
    BY <1>13, <2>2, <2>3, <2>4 DEF EraseVault, TypeOK
<1> QED
  BY <1>1, <1>2, <1>3, <1>4, <1>5, <1>6, <1>7, <1>8, <1>9, <1>10, <1>11, <1>12, <1>13
  DEF CronStep

\* The initial state has the types.
LEMMA InitType == Init => TypeOK
<1> SUFFICES ASSUME Init PROVE TypeOK
  OBVIOUS
<1>1. vault \in [Vaults -> VaultRecords] /\ job \in [Vaults -> Jobs]
  BY DEF Init, VaultRecords, Jobs
<1>2. /\ envelope \in [Snapshots -> [revision : Nat, epoch : Nat, prev : Snapshots \cup {None}]]
      /\ inventory \in [Snapshots -> {"none", "temporary", "committed"}]
  BY DEF Init, NoEnvelope
<1>3. row \in [Snapshots -> RowRecords]
  BY DEF Init, NoRow, RowRecords
<1>4. request \in [Requests -> RequestRecords]
  BY DEF Init, Idle, RequestRecords, Pcs
<1>5. cron \in [pc : CronPcs, of : SUBSET (Snapshots \cup Vaults), count : Nat]
  BY DEF Init, CronIdle, CronPcs
<1> QED
  BY <1>1, <1>2, <1>3, <1>4, <1>5 DEF Init, TypeOK

\* Every step keeps the types.
LEMMA NextType ==
    ASSUME TypeOK, RequestsKnow, [Next]_vars
    PROVE  TypeOK'
<1> USE DEF database
<1>1. ASSUME NEW s \in Snapshots, Prepare(s)
      PROVE  TypeOK'
  <2>1. VaultOf[s] \in Vaults
    BY StoreAssumption DEF StoreAssumption
  <2> QED
    BY <1>1, <2>1 DEF Prepare, TypeOK, VaultRecords
<1>2. ASSUME NEW s \in Snapshots, Acknowledge(s)
      PROVE  TypeOK'
  BY <1>2 DEF Acknowledge, TypeOK
<1>3. ASSUME NEW s \in Snapshots, Expire(s)
      PROVE  TypeOK'
  BY <1>3 DEF Expire, TypeOK, RowRecords
<1>4. ASSUME NEW r \in Requests, NEW s \in Snapshots, Begin(r, s)
      PROVE  TypeOK'
  <2>1. request' \in [Requests -> RequestRecords]
    BY <1>4, ByStoredMoves, RequestMoves DEF Begin
  <2> QED
    BY <1>4, <2>1 DEF Begin, TypeOK
<1>5. ASSUME NEW v \in Vaults, Rotate(v)
      PROVE  TypeOK'
  BY <1>5 DEF Rotate, TypeOK, VaultRecords
<1>6. ASSUME NEW v \in Vaults, Recover(v)
      PROVE  TypeOK'
  <2>1. vault' \in [Vaults -> VaultRecords]
    <3>1. vault' = [vault EXCEPT ![v] = [vault[v] EXCEPT !.epoch = vault[v].epoch + 1,
                                                         !.revision = 0, !.current = None]]
      BY <1>6 DEF Recover
    <3>2. vault[v] \in VaultRecords
      BY DEF TypeOK
    <3>3. [vault[v] EXCEPT !.epoch = vault[v].epoch + 1, !.revision = 0, !.current = None]
            \in VaultRecords
      <4>1. ASSUME NEW x \in VaultRecords, NEW e \in Nat
            PROVE  [x EXCEPT !.epoch = e, !.revision = 0, !.current = None] \in VaultRecords
        BY DEF VaultRecords
      <4>2. vault[v].epoch + 1 \in Nat
        BY <3>2 DEF VaultRecords
      <4> QED
        BY <3>2, <4>1, <4>2
    <3> QED
      BY <3>1, <3>3 DEF TypeOK
  <2>2. row' \in [Snapshots -> RowRecords]
    BY <1>6 DEF Recover, TypeOK, RowRecords
  <2> QED
    BY <1>6, <2>1, <2>2 DEF Recover, TypeOK
<1>7. ASSUME NEW v \in Vaults, DeleteVault(v)
      PROVE  TypeOK'
  BY <1>7 DEF DeleteVault, TypeOK, VaultRecords, Jobs
<1>8. CASE UNCHANGED vars
  BY <1>8 DEF vars, TypeOK
<1> QED
  BY <1>1, <1>2, <1>3, <1>4, <1>5, <1>6, <1>7, <1>8, RequestStepType, CronStepType
  DEF Next

-----------------------------------------------------------------------------
(* What the steps do to the vaults and the envelopes.                      *)

\* An upload wins the swap and moves the pointer of its vault.
PointerMoves(s) ==
    /\ LetPast(s) /\ Wins(s)
    /\ vault' = [vault EXCEPT ![VaultOf[s]] =
                   [@ EXCEPT !.revision = envelope[s].revision, !.current = s]]
    /\ UNCHANGED <<envelope, acked>>

\* The rows of a vault no longer active are deleted.
Erased(v) ==
    /\ vault[v].status # "active"
    /\ vault' = [vault EXCEPT ![v] = [@ EXCEPT !.status = "gone", !.current = None]]
    /\ UNCHANGED <<envelope, acked>>

\* The steps of an upload that write the vaults are the commits that win.
LEMMA RequestVaultStep ==
    ASSUME TypeOK, RequestsKnow, NEW r \in Requests, RequestStep(r)
    PROVE  \/ UNCHANGED <<vault, envelope, acked>>
           \/ \E s \in Snapshots : PointerMoves(s)
<1> USE DEF database
<1>1. ASSUME NEW won \in {"finish", "error"}, NEW lost \in {"lost", "error"},
             CommitBatch(r, won, lost)
      PROVE  \/ UNCHANGED <<vault, envelope, acked>>
             \/ \E s \in Snapshots : PointerMoves(s)
  <2> DEFINE s == request[r].s
  <2>1. s \in Snapshots /\ LetPast(s)
    BY <1>1 DEF CommitBatch, At, RequestsKnow, LetPast
  <2>2. VaultOf[s] \in Vaults
    BY <2>1, StoreAssumption DEF StoreAssumption
  <2>3. CASE Wins(s)
    <3>1. vault' = [vault EXCEPT ![VaultOf[s]] =
                      [vault[VaultOf[s]] EXCEPT !.revision = envelope[s].revision,
                                                !.current = s]]
      BY <1>1, <2>3 DEF CommitBatch
    <3>2. PointerMoves(s)
      BY <1>1, <2>1, <2>2, <2>3, <3>1 DEF PointerMoves, CommitBatch
    <3> QED
      BY <2>1, <3>2
  <2>4. CASE ~Wins(s)
    <3>1. vault' = [vault EXCEPT ![VaultOf[s]] = vault[VaultOf[s]]]
      BY <1>1, <2>4 DEF CommitBatch
    <3> QED
      BY <1>1, <2>2, <3>1 DEF CommitBatch, TypeOK
  <2> QED
    BY <2>3, <2>4
<1>2. CASE Commit(r) \/ CommitUnknown(r)
  BY <1>1, <1>2 DEF Commit, CommitUnknown
<1>3. CASE ~(Commit(r) \/ CommitUnknown(r))
  BY <1>3 DEF RequestStep, Load, Insert, Reserve, Put, PutFails, UndoObject,
              UndoInventory, Orphan, CommitFails, Reread, Settle, Stop
<1> QED
  BY <1>2, <1>3

\* The only step of the job that writes the vaults erases one that is closed.
LEMMA CronVaultStep ==
    ASSUME TypeOK, CronClosed, CronStep
    PROVE  \/ UNCHANGED <<vault, envelope, acked>>
           \/ \E v \in Vaults : Erased(v)
<1> USE DEF database
<1>1. CASE EraseVault
  <2>1. PICK v \in cron.of :
          vault' = [vault EXCEPT ![v] = [@ EXCEPT !.status = "gone", !.current = None]]
    BY <1>1 DEF EraseVault
  <2>2. v \in Vaults /\ vault[v].status # "active"
    BY <1>1 DEF EraseVault, CronClosed, Dismantling
  <2> QED
    BY <1>1, <2>1, <2>2 DEF EraseVault, Erased
<1>2. CASE ~EraseVault
  BY <1>2 DEF CronStep, Claim, CollectObjects, CollectInventory, CollectRows, CronStops,
              ListBucket, CompareInventory, ResumeDeletion, ForgetJob, WipeObjects,
              CountVault, ReleaseVault
<1> QED
  BY <1>1, <1>2

\* Every step that changes a vault, an envelope or an acknowledgement is one
\* of these.
LEMMA VaultSteps ==
    ASSUME IInv, [Next]_vars
    PROVE  \/ UNCHANGED <<vault, envelope, acked>>
           \/ \E s \in Snapshots : Prepare(s) \/ Acknowledge(s) \/ PointerMoves(s)
           \/ \E v \in Vaults : Rotate(v) \/ Recover(v) \/ DeleteVault(v) \/ Erased(v)
<1>1. ASSUME NEW s \in Snapshots, Expire(s)
      PROVE  UNCHANGED <<vault, envelope, acked>>
  BY <1>1 DEF Expire
<1>2. ASSUME NEW r \in Requests, NEW s \in Snapshots, Begin(r, s)
      PROVE  UNCHANGED <<vault, envelope, acked>>
  BY <1>2 DEF Begin, database
<1>3. CASE UNCHANGED vars
  BY <1>3 DEF vars, database
<1> QED
  BY <1>1, <1>2, <1>3, RequestVaultStep, CronVaultStep DEF Next, IInv

-----------------------------------------------------------------------------
(* The vaults and the envelopes.                                           *)

\* A snapshot that is made gets an envelope of its own.
LEMMA PreparedEnvelope ==
    ASSUME TypeOK, NEW s \in Snapshots, Prepare(s)
    PROVE  /\ envelope'[s] = [revision |-> vault[VaultOf[s]].revision + 1,
                              epoch |-> vault[VaultOf[s]].epoch,
                              prev |-> vault[VaultOf[s]].current]
           /\ envelope'[s] # NoEnvelope /\ envelope'[s].revision > 0
           /\ \A o \in Snapshots \ {s} : envelope'[o] = envelope[o]
           /\ UNCHANGED <<vault, acked>>
<1>1. VaultOf[s] \in Vaults
  BY StoreAssumption DEF StoreAssumption
<1>2. vault[VaultOf[s]].revision \in Nat
  BY <1>1 DEF TypeOK, VaultRecords
<1> QED
  BY <1>2 DEF Prepare, TypeOK, NoEnvelope, database

\* No current snapshot is without an envelope.
LEMMA HeadsMade ==
    ASSUME TypeOK, HeadsMatch, NEW v \in Vaults, vault[v].current # None
    PROVE  vault[v].current \in Snapshots /\ envelope[vault[v].current] # NoEnvelope
BY DEF TypeOK, VaultRecords, HeadsMatch, NoEnvelope

\* HeadsMatch is kept.
LEMMA NextHeads ==
    ASSUME IInv, [Next]_vars
    PROVE  HeadsMatch'
<1> USE DEF IInv
<1>0. VaultOf \in [Snapshots -> Vaults] /\ None \notin Snapshots
  BY StoreAssumption DEF StoreAssumption
<1>1. CASE UNCHANGED <<vault, envelope, acked>>
  BY <1>1 DEF HeadsMatch
<1>2. ASSUME NEW s \in Snapshots, Prepare(s)
      PROVE  HeadsMatch'
  <2>1. ASSUME NEW v \in Vaults, vault[v].current # None
        PROVE  vault[v].current \in Snapshots \ {s}
    BY <1>2, <2>1, HeadsMade DEF Prepare
  <2>2. vault' = vault /\ \A o \in Snapshots \ {s} : envelope'[o] = envelope[o]
    BY <1>2, PreparedEnvelope
  <2> QED
    BY <2>1, <2>2 DEF HeadsMatch
<1>3. ASSUME NEW s \in Snapshots, Acknowledge(s)
      PROVE  HeadsMatch'
  BY <1>3 DEF Acknowledge, database, HeadsMatch
<1>4. ASSUME NEW s \in Snapshots, PointerMoves(s)
      PROVE  HeadsMatch'
  <2>0. VaultOf[s] \in Vaults
    BY <1>0
  <2>1. VaultOf[s] \in Vaults /\ envelope[s].revision > 0
    <3>1. vault[VaultOf[s]].revision \in Nat /\ envelope[s].revision \in Nat
      BY <2>0 DEF TypeOK, VaultRecords
    <3> QED
      BY <1>4, <2>0, <3>1 DEF PointerMoves, Wins
  <2>2. /\ vault'[VaultOf[s]].current = s
        /\ vault'[VaultOf[s]].revision = envelope[s].revision
        /\ \A v \in Vaults \ {VaultOf[s]} : vault'[v] = vault[v]
        /\ envelope' = envelope
    <3>1. /\ vault' = [vault EXCEPT ![VaultOf[s]] =
                         [vault[VaultOf[s]] EXCEPT !.revision = envelope[s].revision,
                                                   !.current = s]]
          /\ envelope' = envelope
      BY <1>4 DEF PointerMoves
    <3>2. vault[VaultOf[s]] \in VaultRecords
      BY <2>0 DEF TypeOK
    <3> QED
      BY <3>1, <3>2, <2>0 DEF TypeOK, VaultRecords
  <2> QED
    BY <2>1, <2>2 DEF HeadsMatch
<1>5. ASSUME NEW v \in Vaults, Rotate(v)
      PROVE  HeadsMatch'
  BY <1>5 DEF Rotate, TypeOK, VaultRecords, HeadsMatch
<1>6. ASSUME NEW v \in Vaults, Recover(v)
      PROVE  HeadsMatch'
  BY <1>6 DEF Recover, TypeOK, VaultRecords, HeadsMatch
<1>7. ASSUME NEW v \in Vaults, DeleteVault(v)
      PROVE  HeadsMatch'
  BY <1>7 DEF DeleteVault, TypeOK, VaultRecords, HeadsMatch
<1>8. ASSUME NEW v \in Vaults, Erased(v)
      PROVE  HeadsMatch'
  BY <1>8 DEF Erased, TypeOK, VaultRecords, HeadsMatch
<1> QED
  BY <1>1, <1>2, <1>3, <1>4, <1>5, <1>6, <1>7, <1>8, VaultSteps

\* What each of the steps of VaultSteps leaves in a vault.
LEMMA VaultAfter ==
    ASSUME TypeOK, NEW w \in Vaults
    PROVE  /\ \A s \in Snapshots : PointerMoves(s) =>
                vault'[w] = IF w = VaultOf[s]
                            THEN [vault[w] EXCEPT !.revision = envelope[s].revision, !.current = s]
                            ELSE vault[w]
           /\ \A v \in Vaults :
                /\ Rotate(v) => vault'[w] = IF w = v
                                            THEN [vault[w] EXCEPT !.epoch = @ + 1]
                                            ELSE vault[w]
                /\ Recover(v) => vault'[w] = IF w = v
                                             THEN [vault[w] EXCEPT !.epoch = @ + 1, !.revision = 0,
                                                                   !.current = None]
                                             ELSE vault[w]
                /\ DeleteVault(v) => vault'[w] = IF w = v
                                                 THEN [vault[w] EXCEPT !.status = "deleting"]
                                                 ELSE vault[w]
                /\ Erased(v) => vault'[w] = IF w = v
                                            THEN [vault[w] EXCEPT !.status = "gone", !.current = None]
                                            ELSE vault[w]
<1>1. ASSUME NEW s \in Snapshots, PointerMoves(s)
      PROVE  vault'[w] = IF w = VaultOf[s]
                         THEN [vault[w] EXCEPT !.revision = envelope[s].revision, !.current = s]
                         ELSE vault[w]
  BY <1>1 DEF PointerMoves, TypeOK
<1>2. ASSUME NEW v \in Vaults, Rotate(v)
      PROVE  vault'[w] = IF w = v THEN [vault[w] EXCEPT !.epoch = @ + 1] ELSE vault[w]
  BY <1>2 DEF Rotate, TypeOK
<1>3. ASSUME NEW v \in Vaults, Recover(v)
      PROVE  vault'[w] = IF w = v
                         THEN [vault[w] EXCEPT !.epoch = @ + 1, !.revision = 0, !.current = None]
                         ELSE vault[w]
  BY <1>3 DEF Recover, TypeOK
<1>4. ASSUME NEW v \in Vaults, DeleteVault(v)
      PROVE  vault'[w] = IF w = v THEN [vault[w] EXCEPT !.status = "deleting"] ELSE vault[w]
  BY <1>4 DEF DeleteVault, TypeOK
<1>5. ASSUME NEW v \in Vaults, Erased(v)
      PROVE  vault'[w] = IF w = v THEN [vault[w] EXCEPT !.status = "gone", !.current = None]
                                  ELSE vault[w]
  BY <1>5 DEF Erased, TypeOK
<1> QED
  BY <1>1, <1>2, <1>3, <1>4, <1>5

\* EnvelopesFollow is kept: a pointer that moves leaves no envelope of its
\* epoch one ahead, and a new epoch leaves none of its own.
LEMMA NextEnvelopes ==
    ASSUME IInv, [Next]_vars
    PROVE  EnvelopesFollow'
<1>0. VaultOf \in [Snapshots -> Vaults]
  BY StoreAssumption DEF StoreAssumption
<1>a. \A v \in Vaults : vault[v].epoch \in Nat /\ vault[v].revision \in Nat
                        /\ vault[v] \in VaultRecords
  BY DEF IInv, TypeOK, VaultRecords
<1>b. \A o \in Snapshots : envelope[o].epoch \in Nat /\ envelope[o].revision \in Nat
  BY DEF IInv, TypeOK
<1>c. (\A o \in Snapshots : FollowsWell(o)) /\ \A v \in Vaults : vault[v].epoch > 0
  BY DEF IInv, EnvelopesFollow
<1>d. TypeOK /\ EnvelopesFollow
  BY DEF IInv
<1>1. CASE UNCHANGED <<vault, envelope, acked>>
  BY <1>1, <1>d DEF EnvelopesFollow, FollowsWell, Follows
<1>2. ASSUME NEW s \in Snapshots, Prepare(s)
      PROVE  EnvelopesFollow'
  <2>1. ASSUME NEW o \in Snapshots
        PROVE  FollowsWell(o)'
    <3>1. /\ envelope'[s] = [revision |-> vault[VaultOf[s]].revision + 1,
                             epoch |-> vault[VaultOf[s]].epoch,
                             prev |-> vault[VaultOf[s]].current]
          /\ o # s => envelope'[o] = envelope[o]
          /\ vault' = vault /\ envelope'[s].revision > 0
      BY <1>2, <2>1, <1>d, PreparedEnvelope
    <3>2. CASE o = s
      BY <3>1, <3>2, <1>0, <1>a DEF FollowsWell, Follows
    <3>3. CASE o # s
      BY <3>1, <3>3, <1>0, <1>c DEF FollowsWell, Follows
    <3> QED
      BY <3>2, <3>3
  <2> QED
    BY <2>1, <1>2, <1>d, PreparedEnvelope DEF EnvelopesFollow
<1>3. ASSUME NEW s \in Snapshots, Acknowledge(s)
      PROVE  EnvelopesFollow'
  BY <1>3, <1>d DEF Acknowledge, database, EnvelopesFollow, FollowsWell, Follows
<1>4. ASSUME NEW s \in Snapshots, PointerMoves(s)
      PROVE  EnvelopesFollow'
  <2>1. envelope' = envelope /\ Follows(s)
    BY <1>4, <1>0, <1>a, <1>b DEF PointerMoves, Wins, Follows
  <2>2. ASSUME NEW w \in Vaults
        PROVE  /\ vault'[w].epoch = vault[w].epoch /\ vault'[w].status = vault[w].status
               /\ w = VaultOf[s] => vault'[w].revision = envelope[s].revision
               /\ w # VaultOf[s] => vault'[w] = vault[w]
    <3>1. vault'[w] = IF w = VaultOf[s]
                      THEN [vault[w] EXCEPT !.revision = envelope[s].revision, !.current = s]
                      ELSE vault[w]
      BY <1>4, <1>d, VaultAfter
    <3> QED
      BY <3>1, <1>a DEF VaultRecords
  <2>3. ASSUME NEW o \in Snapshots
        PROVE  FollowsWell(o)'
    <3>1. CASE VaultOf[o] = VaultOf[s]
      BY <3>1, <2>1, <2>2, <1>0, <1>a, <1>b, <1>c DEF FollowsWell, Follows
    <3>2. CASE VaultOf[o] # VaultOf[s]
      BY <3>2, <2>1, <2>2, <1>0, <1>a, <1>b, <1>c DEF FollowsWell, Follows
    <3> QED
      BY <3>1, <3>2
  <2>4. \A w \in Vaults : vault'[w].epoch > 0
    BY <2>2, <1>a, <1>c
  <2> QED
    BY <2>3, <2>4 DEF EnvelopesFollow
<1>5. ASSUME NEW v \in Vaults, Rotate(v) \/ Recover(v)
      PROVE  EnvelopesFollow'
  <2>1. envelope' = envelope
    BY <1>5 DEF Rotate, Recover
  <2>2. ASSUME NEW w \in Vaults
        PROVE  /\ w = v => vault'[w].epoch = vault[w].epoch + 1
               /\ w # v => vault'[w] = vault[w]
    <3>1. \/ vault'[w] = IF w = v THEN [vault[w] EXCEPT !.epoch = @ + 1] ELSE vault[w]
          \/ vault'[w] = IF w = v
                         THEN [vault[w] EXCEPT !.epoch = @ + 1, !.revision = 0, !.current = None]
                         ELSE vault[w]
      BY <1>5, <1>d, VaultAfter
    <3> QED
      BY <3>1, <1>a DEF VaultRecords
  <2>3. ASSUME NEW o \in Snapshots
        PROVE  FollowsWell(o)'
    <3>1. CASE VaultOf[o] = v
      BY <3>1, <2>1, <2>2, <1>0, <1>a, <1>b, <1>c DEF FollowsWell, Follows
    <3>2. CASE VaultOf[o] # v
      BY <3>2, <2>1, <2>2, <1>0, <1>a, <1>b, <1>c DEF FollowsWell, Follows
    <3> QED
      BY <3>1, <3>2
  <2>4. \A w \in Vaults : vault'[w].epoch > 0
    BY <2>2, <1>a, <1>c
  <2> QED
    BY <2>3, <2>4 DEF EnvelopesFollow
<1>6. ASSUME NEW v \in Vaults, DeleteVault(v) \/ Erased(v)
      PROVE  EnvelopesFollow'
  <2>1. envelope' = envelope
    BY <1>6 DEF DeleteVault, Erased
  <2>2. ASSUME NEW w \in Vaults
        PROVE  /\ vault'[w].epoch = vault[w].epoch /\ vault'[w].revision = vault[w].revision
               /\ \/ vault'[w].status = "gone"
                  \/ /\ vault[w].status # "gone"
                     /\ vault'[w].current = vault[w].current
    <3>1. CASE DeleteVault(v)
      <4>1. vault'[w] = IF w = v THEN [vault[w] EXCEPT !.status = "deleting"] ELSE vault[w]
        BY <3>1, <1>d, VaultAfter
      <4> QED
        BY <3>1, <4>1, <1>a DEF VaultRecords, DeleteVault
    <3>2. CASE Erased(v)
      <4>1. vault'[w] = IF w = v THEN [vault[w] EXCEPT !.status = "gone", !.current = None]
                                 ELSE vault[w]
        BY <3>2, <1>d, VaultAfter
      <4> QED
        BY <4>1, <1>a DEF VaultRecords
    <3> QED
      BY <1>6, <3>1, <3>2
  <2>3. ASSUME NEW o \in Snapshots
        PROVE  FollowsWell(o)'
    BY <2>3, <2>1, <2>2, <1>0, <1>a, <1>b, <1>c DEF FollowsWell, Follows
  <2>4. \A w \in Vaults : vault'[w].epoch > 0
    BY <2>2, <1>a, <1>c
  <2> QED
    BY <2>3, <2>4 DEF EnvelopesFollow
<1> QED
  BY <1>1, <1>2, <1>3, <1>4, <1>5, <1>6, VaultSteps

-----------------------------------------------------------------------------
(* The requests and the rows.                                              *)

\* A step of an upload leaves the other uploads alone, keeps its snapshot, and
\* passes the check of the vault on its way from "load".
MovesOn(r) ==
    /\ \A o \in Requests \ {r} : request'[o] = request[o]
    /\ request'[r].pc # "idle" =>
         request[r].pc # "idle" /\ request'[r].s = request[r].s
    /\ request'[r].pc # "idle" /\ request[r].pc = "load" =>
         /\ CurrentContext(request[r].s) /\ Acknowledged(request[r].s)
         /\ UNCHANGED <<vault, envelope, acked, row>>

\* Moving on by Goto or Answer is moving on, except from "load".
LEMMA GotoMovesOn ==
    ASSUME TypeOK, NEW r \in Requests, request[r].pc \notin {"idle", "load"},
           Answer(r) \/ \E pc \in Pcs : Goto(r, pc)
    PROVE  MovesOn(r)
<1>1. request[r] \in RequestRecords
  BY DEF TypeOK
<1>2. CASE Answer(r)
  BY <1>2 DEF TypeOK, Answer, Idle, MovesOn
<1>3. ASSUME NEW pc \in Pcs, Goto(r, pc)
      PROVE  MovesOn(r)
  BY <1>1, <1>3 DEF TypeOK, Goto, MovesOn, RequestRecords
<1> QED
  BY <1>2, <1>3

\* Every step of an upload moves on.
LEMMA RequestMovesOn ==
    ASSUME TypeOK, RequestsKnow, NEW r \in Requests, RequestStep(r)
    PROVE  MovesOn(r)
<1> USE DEF At
<1>1. CASE Load(r)
  <2>1. CASE Answer(r)
    BY <2>1 DEF TypeOK, Answer, Idle, MovesOn
  <2>2. CASE ~Answer(r)
    <3>1. /\ CurrentContext(request[r].s) /\ Acknowledged(request[r].s)
          /\ UNCHANGED <<vault, envelope, acked, row>>
      BY <1>1, <2>2 DEF Load, database
    <3>2. PICK pc \in {"reserve", "insert"} :
            request' = [request EXCEPT ![r] = [pc |-> pc, s |-> request[r].s, found |-> FALSE]]
      BY <1>1, <2>2 DEF Load
    <3> QED
      BY <1>1, <3>1, <3>2 DEF TypeOK, MovesOn, Load
  <2> QED
    BY <2>1, <2>2
<1>2. CASE Insert(r)
  <2>1. request[r].pc \notin {"idle", "load"}
    BY <1>2 DEF Insert
  <2>2. CASE Goto(r, "reserve")
    BY <2>1, <2>2, GotoMovesOn DEF Pcs
  <2>3. CASE ByStored(r, request[r].s, row[request[r].s].state, "again")
    <3>1. \/ Answer(r)
          \/ \E pc \in {"reserve", "retry"} :
               request' = [request EXCEPT ![r] = [pc |-> pc, s |-> request[r].s, found |-> FALSE]]
      BY <2>3 DEF ByStored, Answer
    <3>2. ASSUME NEW pc \in {"reserve", "retry"},
                 request' = [request EXCEPT ![r] = [pc |-> pc, s |-> request[r].s, found |-> FALSE]]
          PROVE  MovesOn(r)
      BY <2>1, <3>2 DEF TypeOK, MovesOn
    <3> QED
      BY <2>1, <3>1, <3>2, GotoMovesOn
  <2> QED
    BY <1>2, <2>2, <2>3 DEF Insert
<1>3. CASE Reserve(r) \/ Put(r) \/ PutFails(r) \/ UndoObject(r) \/ UndoInventory(r)
           \/ Orphan(r)
  <2>1. request[r].pc \notin {"idle", "load"}
    BY <1>3 DEF Reserve, Put, PutFails, UndoObject, UndoInventory, Orphan
  <2>2. Answer(r) \/ \E pc \in Pcs : Goto(r, pc)
    BY <1>3 DEF Reserve, Put, PutFails, UndoObject, UndoInventory, Orphan, Pcs
  <2> QED
    BY <2>1, <2>2, GotoMovesOn
<1>4. CASE Commit(r) \/ CommitUnknown(r) \/ CommitFails(r) \/ Reread(r) \/ Settle(r)
  <2>1. request[r].pc \notin {"idle", "load"}
    BY <1>4 DEF Commit, CommitUnknown, CommitBatch, CommitFails, Reread, Settle
  <2>2. Answer(r) \/ \E pc \in Pcs : Goto(r, pc)
    BY <1>4 DEF Commit, CommitUnknown, CommitBatch, CommitFails, Reread, Settle, Pcs
  <2> QED
    BY <2>1, <2>2, GotoMovesOn
<1>5. CASE Stop(r)
  BY <1>5 DEF Stop, TypeOK, Answer, Idle, MovesOn
<1> QED
  BY <1>1, <1>2, <1>3, <1>4, <1>5 DEF RequestStep

\* Only an upload past the check makes a row.
LEMMA RequestRows ==
    ASSUME TypeOK, RequestsKnow, NEW r \in Requests, RequestStep(r), NEW s \in Snapshots,
           row'[s].state # "none"
    PROVE  LetPast(s)
<1> USE DEF At
<1>1. CASE Insert(r)
  <2>1. CASE s = request[r].s
    BY <1>1, <2>1 DEF Insert, LetPast
  <2>2. CASE s # request[r].s
    BY <1>1, <2>2 DEF Insert, LetPast, TypeOK
  <2> QED
    BY <2>1, <2>2
<1>2. CASE Orphan(r)
  BY <1>2 DEF Orphan, LetPast, TypeOK
<1>3. ASSUME NEW won, NEW lost, CommitBatch(r, won, lost)
      PROVE  LetPast(s)
  <2>1. PICK v : row' = CommittedRows(request[r].s, v)
    BY <1>3 DEF CommitBatch
  <2>2. row[s].state # "none"
    BY <2>1 DEF CommittedRows
  <2> QED
    BY <2>2 DEF LetPast
<1>4. CASE UNCHANGED row
  BY <1>4 DEF LetPast
<1>5. Insert(r) \/ Orphan(r) \/ Commit(r) \/ CommitUnknown(r) \/ UNCHANGED row
  BY DEF RequestStep, Load, Reserve, Put, PutFails, UndoObject, UndoInventory, CommitFails,
         Reread, Settle, Stop, database
<1> QED
  BY <1>1, <1>2, <1>3, <1>4, <1>5 DEF Commit, CommitUnknown

\* The job makes no row and leaves the uploads alone.
LEMMA CronRows ==
    ASSUME TypeOK, CronStep
    PROVE  /\ \A s \in Snapshots : row'[s].state # "none" => row[s].state # "none"
           /\ UNCHANGED <<request, envelope, acked>>
<1> USE DEF database
<1>1. CASE Claim
  BY <1>1 DEF Claim, Collectable, TypeOK
<1>2. CASE CollectRows
  BY <1>2 DEF CollectRows, NoRow, TypeOK
<1>3. CASE EraseVault
  BY <1>3 DEF EraseVault, NoRow, TypeOK
<1>4. CASE ~(Claim \/ CollectRows \/ EraseVault)
  BY <1>4 DEF CronStep, CollectObjects, CollectInventory, CronStops, ListBucket,
              CompareInventory, ResumeDeletion, ForgetJob, WipeObjects, CountVault, ReleaseVault
<1> QED
  BY <1>1, <1>2, <1>3, <1>4

\* An upload that arrives is answered, loads its vault, or retries the upload
\* of a committed row.
LEMMA BeginMoves ==
    ASSUME TypeOK, NEW r \in Requests, NEW s \in Snapshots, Begin(r, s)
    PROVE  /\ \A o \in Requests \ {r} : request'[o] = request[o]
           /\ request'[r].pc # "idle" => request'[r].s = s /\ envelope[s] # NoEnvelope
           /\ request'[r].pc \notin {"idle", "load"} => row[s].state # "none"
           /\ UNCHANGED <<row, envelope, vault, acked>>
<1> DEFINE entry == CASE row[s].state \in {"none", "temporary"}
                           -> [pc |-> "load", s |-> s, found |-> row[s].state = "temporary"]
                      [] row[s].state = "committed"
                           -> [pc |-> "retry", s |-> s, found |-> FALSE]
                      [] OTHER -> Idle
<1>1. request' = [request EXCEPT ![r] = entry]
  BY DEF Begin, ByStored
<1>2. \/ entry = Idle
      \/ entry.pc = "load" /\ entry.s = s
      \/ entry.pc = "retry" /\ entry.s = s /\ row[s].state = "committed"
  OBVIOUS
<1>3. request'[r] = entry /\ \A o \in Requests \ {r} : request'[o] = request[o]
  BY <1>1 DEF TypeOK
<1> HIDE DEF entry
<1> QED
  BY <1>2, <1>3 DEF Begin, Idle, database

\* A step that is neither a signature nor a step of an upload leaves the
\* uploads as they are and makes no row.
LEMMA OtherRows ==
    ASSUME TypeOK, [Next]_vars
    PROVE  \/ \E r \in Requests : RequestStep(r)
           \/ \E r \in Requests, s \in Snapshots : Begin(r, s)
           \/ /\ \A s \in Snapshots : row'[s].state # "none" => row[s].state # "none"
              /\ request' = request
              /\ envelope' = envelope \/ \E s \in Snapshots : Prepare(s)
<1> USE DEF database
<1>1. ASSUME NEW s \in Snapshots, Prepare(s) \/ Acknowledge(s)
      PROVE  /\ row' = row /\ request' = request
             /\ envelope' = envelope \/ \E o \in Snapshots : Prepare(o)
  BY <1>1 DEF Prepare, Acknowledge
<1>2. ASSUME NEW s \in Snapshots, Expire(s)
      PROVE  /\ \A o \in Snapshots : row'[o].state # "none" => row[o].state # "none"
             /\ request' = request /\ envelope' = envelope
  BY <1>2 DEF Expire, TypeOK, RowRecords
<1>3. ASSUME NEW v \in Vaults, Rotate(v) \/ Recover(v) \/ DeleteVault(v)
      PROVE  /\ \A s \in Snapshots : row'[s].state # "none" => row[s].state # "none"
             /\ request' = request /\ envelope' = envelope
  BY <1>3 DEF Rotate, Recover, DeleteVault, TypeOK
<1>4. CASE UNCHANGED vars
  BY <1>4 DEF vars
<1> QED
  BY <1>1, <1>2, <1>3, <1>4, CronRows DEF Next

\* Whoever is let past the check has passed it in this step or before.
LEMMA LetPastSteps ==
    ASSUME TypeOK, RequestsKnow, [Next]_vars, NEW s \in Snapshots, LetPast(s)'
    PROVE  \/ LetPast(s)
           \/ CurrentContext(s) /\ Acknowledged(s) /\ UNCHANGED <<vault, envelope, acked>>
<1>0. \/ row'[s].state # "none"
      \/ \E r \in Requests : request'[r].s = s /\ request'[r].pc \notin {"idle", "load"}
  BY DEF LetPast
<1>1. ASSUME NEW r \in Requests, RequestStep(r)
      PROVE  \/ LetPast(s)
             \/ CurrentContext(s) /\ Acknowledged(s) /\ UNCHANGED <<vault, envelope, acked>>
  <2>1. CASE row'[s].state # "none"
    BY <1>1, <2>1, RequestRows
  <2>2. ASSUME NEW o \in Requests, request'[o].s = s, request'[o].pc \notin {"idle", "load"}
        PROVE  \/ LetPast(s)
               \/ CurrentContext(s) /\ Acknowledged(s) /\ UNCHANGED <<vault, envelope, acked>>
    <3>1. MovesOn(r)
      BY <1>1, RequestMovesOn
    <3>2. CASE o # r
      BY <2>2, <3>1, <3>2 DEF MovesOn, LetPast
    <3>3. CASE o = r
      BY <2>2, <3>1, <3>3 DEF MovesOn, LetPast
    <3> QED
      BY <3>2, <3>3
  <2> QED
    BY <1>0, <2>1, <2>2
<1>2. ASSUME NEW r \in Requests, NEW o \in Snapshots, Begin(r, o)
      PROVE  LetPast(s)
  BY <1>0, <1>2, BeginMoves DEF LetPast
<1>3. CASE /\ \A o \in Snapshots : row'[o].state # "none" => row[o].state # "none"
           /\ request' = request
  BY <1>0, <1>3 DEF LetPast
<1> QED
  BY <1>1, <1>2, <1>3, OtherRows

\* RequestsKnow and RowsKnow are kept.
LEMMA NextKnow ==
    ASSUME IInv, [Next]_vars
    PROVE  RequestsKnow' /\ RowsKnow'
<1>0. TypeOK /\ RequestsKnow /\ RowsKnow
  BY DEF IInv
<1>1. ASSUME NEW r \in Requests, RequestStep(r)
      PROVE  RequestsKnow' /\ RowsKnow'
  <2>1. envelope' = envelope
    BY <1>1, RequestVaultStep, <1>0 DEF PointerMoves
  <2>2. MovesOn(r)
    BY <1>0, <1>1, RequestMovesOn
  <2>3. RequestsKnow'
    BY <1>0, <2>1, <2>2 DEF RequestsKnow, MovesOn
  <2>4. ASSUME NEW s \in Snapshots, row'[s].state # "none"
        PROVE  envelope[s] # NoEnvelope
    <3>1. LetPast(s)
      BY <1>0, <1>1, <2>4, RequestRows
    <3> QED
      BY <1>0, <3>1 DEF LetPast, RequestsKnow, RowsKnow
  <2> QED
    BY <2>1, <2>3, <2>4 DEF RowsKnow
<1>2. ASSUME NEW r \in Requests, NEW s \in Snapshots, Begin(r, s)
      PROVE  RequestsKnow' /\ RowsKnow'
  <2>1. /\ \A o \in Requests \ {r} : request'[o] = request[o]
        /\ request'[r].pc # "idle" => request'[r].s = s /\ envelope[s] # NoEnvelope
        /\ UNCHANGED <<row, envelope>>
    BY <1>0, <1>2, BeginMoves
  <2> QED
    BY <1>0, <2>1 DEF RequestsKnow, RowsKnow
<1>3. CASE /\ \A s \in Snapshots : row'[s].state # "none" => row[s].state # "none"
           /\ request' = request
           /\ envelope' = envelope \/ \E s \in Snapshots : Prepare(s)
  <2>1. \A s \in Snapshots : envelope[s] # NoEnvelope => envelope'[s] # NoEnvelope
    BY <1>0, <1>3, PreparedEnvelope
  <2> QED
    BY <1>0, <1>3, <2>1 DEF RequestsKnow, RowsKnow
<1> QED
  BY <1>0, <1>1, <1>2, <1>3, OtherRows

-----------------------------------------------------------------------------
(* The check of an upload holds until its commit.                          *)

\* Passing the check means that the base is acknowledged or of another epoch.
LEMMA CheckedBase ==
    ASSUME TypeOK, HeadsMatch, NEW s \in Snapshots, Acknowledged(s)
    PROVE  BaseAcknowledged(s)
<1>1. VaultOf[s] \in Vaults
  BY StoreAssumption DEF StoreAssumption
<1> QED
  BY <1>1 DEF Acknowledged, BaseAcknowledged, HeadsMatch

\* CheckStillHolds is kept: what the check read changes only together with the
\* epoch or the revision the commit compares.
LEMMA NextCheck ==
    ASSUME IInv, [Next]_vars
    PROVE  CheckStillHolds'
<1> SUFFICES ASSUME NEW s \in Snapshots, LetPast(s)', Follows(s)'
             PROVE  BaseAcknowledged(s)'
  BY DEF CheckStillHolds
<1> DEFINE v == VaultOf[s]
<1>0. /\ TypeOK /\ RequestsKnow /\ RowsKnow /\ HeadsMatch /\ EnvelopesFollow /\ CheckStillHolds
      /\ v \in Vaults /\ VaultOf \in [Snapshots -> Vaults]
  BY StoreAssumption DEF IInv, StoreAssumption
<1>a. /\ vault[v] \in VaultRecords /\ vault[v].epoch \in Nat /\ vault[v].revision \in Nat
      /\ envelope[s].epoch \in Nat /\ envelope[s].revision \in Nat
      /\ FollowsWell(s)
  BY <1>0 DEF TypeOK, VaultRecords, EnvelopesFollow
<1>1. CASE UNCHANGED <<vault, envelope, acked>>
  <2>1. Follows(s)
    BY <1>1 DEF Follows
  <2>2. BaseAcknowledged(s)
    BY <1>0, <2>1, LetPastSteps, CheckedBase DEF CheckStillHolds
  <2> QED
    BY <1>1, <2>2 DEF BaseAcknowledged
<1>2. CASE LetPast(s)
  <2>0. envelope[s] # NoEnvelope
    BY <1>0, <1>2 DEF LetPast, RequestsKnow, RowsKnow
  <2>a. Follows(s) => BaseAcknowledged(s)
    BY <1>0, <1>2 DEF CheckStillHolds
  <2>1. ASSUME NEW o \in Snapshots, Prepare(o)
        PROVE  BaseAcknowledged(s)'
    <3>1. /\ UNCHANGED <<vault, acked>>
          /\ \A x \in Snapshots \ {o} : envelope'[x] = envelope[x]
      BY <1>0, <2>1, PreparedEnvelope
    <3>2. envelope[o] = NoEnvelope
      BY <2>1 DEF Prepare
    <3>3. Follows(s)
      BY <3>1, <3>2, <2>0 DEF Follows
    <3>4. vault[v].current # None => vault[v].current \in Snapshots \ {o}
      BY <3>2, <1>0, HeadsMade
    <3> QED
      BY <2>a, <3>1, <3>3, <3>4 DEF BaseAcknowledged
  <2>2. ASSUME NEW o \in Snapshots, Acknowledge(o)
        PROVE  BaseAcknowledged(s)'
    <3>1. /\ UNCHANGED <<vault, envelope>> /\ acked \subseteq acked'
      BY <2>2 DEF Acknowledge, database
    <3> QED
      BY <2>a, <3>1 DEF BaseAcknowledged, Follows
  <2>3. ASSUME NEW o \in Snapshots, PointerMoves(o)
        PROVE  BaseAcknowledged(s)'
    <3>1. /\ UNCHANGED <<envelope, acked>> /\ Wins(o)
          /\ vault'[v] = IF v = VaultOf[o]
                         THEN [vault[v] EXCEPT !.revision = envelope[o].revision, !.current = o]
                         ELSE vault[v]
      BY <1>0, <2>3, VaultAfter DEF PointerMoves
    <3>2. CASE v = VaultOf[o]
      <4>1. envelope[o].revision = vault[v].revision + 1
        <5>1. envelope[o].revision \in Nat
          BY <1>0 DEF TypeOK
        <5> QED
          BY <3>1, <3>2, <1>a, <5>1 DEF Wins
      <4>2. vault'[v].epoch = vault[v].epoch /\ vault'[v].revision = vault[v].revision + 1
        BY <3>1, <3>2, <4>1, <1>a DEF VaultRecords
      <4> QED
        BY <4>2, <3>1, <1>a DEF Follows, FollowsWell
    <3>3. CASE v # VaultOf[o]
      BY <3>1, <3>3, <2>a DEF Follows, BaseAcknowledged
    <3> QED
      BY <3>2, <3>3
  <2>4. ASSUME NEW w \in Vaults, Rotate(w) \/ Recover(w)
        PROVE  BaseAcknowledged(s)'
    <3>1. /\ UNCHANGED <<envelope, acked>>
          /\ \/ vault'[v] = IF v = w THEN [vault[v] EXCEPT !.epoch = @ + 1] ELSE vault[v]
             \/ vault'[v] = IF v = w
                            THEN [vault[v] EXCEPT !.epoch = @ + 1, !.revision = 0,
                                                  !.current = None]
                            ELSE vault[v]
      BY <1>0, <2>4, VaultAfter DEF Rotate, Recover
    <3>2. CASE v = w
      <4>1. vault'[v].epoch = vault[v].epoch + 1
        BY <3>1, <3>2, <1>a DEF VaultRecords
      <4> QED
        BY <4>1, <3>1, <1>a DEF Follows, FollowsWell
    <3>3. CASE v # w
      BY <3>1, <3>3, <2>a DEF Follows, BaseAcknowledged
    <3> QED
      BY <3>2, <3>3
  <2>5. ASSUME NEW w \in Vaults, DeleteVault(w) \/ Erased(w)
        PROVE  BaseAcknowledged(s)'
    <3>1. /\ UNCHANGED <<envelope, acked>>
          /\ \/ vault'[v] = IF v = w THEN [vault[v] EXCEPT !.status = "deleting"] ELSE vault[v]
             \/ vault'[v] = IF v = w THEN [vault[v] EXCEPT !.status = "gone", !.current = None]
                                     ELSE vault[v]
      BY <1>0, <2>5, VaultAfter DEF DeleteVault, Erased
    <3>2. /\ vault'[v].epoch = vault[v].epoch /\ vault'[v].revision = vault[v].revision
          /\ vault'[v].current \in {None, vault[v].current}
      BY <3>1, <1>a DEF VaultRecords
    <3> QED
      BY <3>1, <3>2, <2>a DEF Follows, BaseAcknowledged
  <2> QED
    BY <1>1, <2>1, <2>2, <2>3, <2>4, <2>5, VaultSteps
<1> QED
  BY <1>0, <1>1, <1>2, LetPastSteps

-----------------------------------------------------------------------------
(* The deletion of a vault and the scheduled job.                          *)

\* A vault that is not active stays so.
LEMMA ClosedStaysClosed ==
    ASSUME IInv, [Next]_vars, NEW v \in Vaults, vault[v].status # "active"
    PROVE  vault'[v].status # "active"
<1>0. TypeOK /\ vault[v] \in VaultRecords
  BY DEF IInv, TypeOK
<1>1. CASE UNCHANGED <<vault, envelope, acked>>
  BY <1>1
<1>2. ASSUME NEW s \in Snapshots, Prepare(s) \/ Acknowledge(s)
      PROVE  vault' = vault
  BY <1>2 DEF Prepare, Acknowledge, database
<1>3. ASSUME NEW s \in Snapshots, PointerMoves(s)
      PROVE  vault'[v].status # "active"
  <2>1. vault'[v] = IF v = VaultOf[s]
                    THEN [vault[v] EXCEPT !.revision = envelope[s].revision, !.current = s]
                    ELSE vault[v]
    BY <1>0, <1>3, VaultAfter
  <2> QED
    BY <1>0, <2>1 DEF VaultRecords
<1>4. ASSUME NEW w \in Vaults, Rotate(w) \/ Recover(w) \/ DeleteVault(w)
      PROVE  vault'[v].status # "active"
  <2>1. v # w
    BY <1>4 DEF Rotate, Recover, DeleteVault
  <2>2. vault'[v] = vault[v]
    BY <1>0, <1>4, <2>1, VaultAfter
  <2> QED
    BY <2>2
<1>5. ASSUME NEW w \in Vaults, Erased(w)
      PROVE  vault'[v].status # "active"
  <2>1. vault'[v] = IF v = w THEN [vault[v] EXCEPT !.status = "gone", !.current = None]
                             ELSE vault[v]
    BY <1>0, <1>5, VaultAfter
  <2> QED
    BY <1>0, <2>1 DEF VaultRecords
<1> QED
  BY <1>1, <1>2, <1>3, <1>4, <1>5, VaultSteps

\* JobsClosed is kept.
LEMMA NextJobs ==
    ASSUME IInv, [Next]_vars
    PROVE  JobsClosed'
<1>0. TypeOK /\ JobsClosed
  BY DEF IInv
<1>1. ASSUME NEW v \in Vaults,
             job'[v] \in {"pending", "deleting_r2", "failed"} =>
               \/ job[v] \in {"pending", "deleting_r2", "failed"}
               \/ vault'[v].status # "active"
      PROVE  job'[v] \in {"pending", "deleting_r2", "failed"} => vault'[v].status # "active"
  BY <1>0, <1>1, ClosedStaysClosed DEF JobsClosed
<1>2. ASSUME NEW v \in Vaults, DeleteVault(v), NEW w \in Vaults
      PROVE  job'[w] \in {"pending", "deleting_r2", "failed"} =>
               \/ job[w] \in {"pending", "deleting_r2", "failed"}
               \/ vault'[w].status # "active"
  <2>1. CASE w = v
    BY <1>0, <1>2, <2>1 DEF DeleteVault, TypeOK, VaultRecords
  <2>2. CASE w # v
    BY <1>0, <1>2, <2>2 DEF DeleteVault, TypeOK
  <2> QED
    BY <2>1, <2>2
<1>3. ASSUME CronStep, NEW w \in Vaults
      PROVE  job'[w] \in {"pending", "deleting_r2", "failed"} =>
               job[w] \in {"pending", "deleting_r2", "failed"}
  <2>1. CASE CronStops
    BY <1>0, <2>1 DEF CronStops, TypeOK
  <2>2. CASE EraseVault
    BY <1>0, <2>2 DEF EraseVault, TypeOK
  <2>3. ASSUME NEW v \in Vaults, ResumeDeletion(v) \/ ForgetJob(v)
        PROVE  job'[w] \in {"pending", "deleting_r2", "failed"} =>
                 job[w] \in {"pending", "deleting_r2", "failed"}
    BY <1>0, <2>3 DEF ResumeDeletion, ForgetJob, TypeOK
  <2>4. CASE Claim \/ CollectObjects \/ CollectInventory \/ CollectRows \/ ListBucket
             \/ CompareInventory \/ WipeObjects \/ CountVault \/ ReleaseVault
    BY <2>4 DEF Claim, CollectObjects, CollectInventory, CollectRows, ListBucket,
                CompareInventory, WipeObjects, CountVault, ReleaseVault, database
  <2> QED
    BY <1>3, <2>1, <2>2, <2>3, <2>4 DEF CronStep
<1>4. ASSUME NEW r \in Requests, RequestStep(r)
      PROVE  job' = job
  BY <1>4 DEF RequestStep, Load, Insert, Reserve, Put, PutFails, UndoObject, UndoInventory,
              Orphan, Commit, CommitUnknown, CommitBatch, CommitFails, Reread, Settle, Stop,
              database
<1>5. ASSUME NEW s \in Snapshots,
             \/ Prepare(s) \/ Acknowledge(s) \/ Expire(s)
             \/ \E r \in Requests : Begin(r, s)
      PROVE  job' = job
  BY <1>5 DEF Prepare, Acknowledge, Expire, Begin, database
<1>6. ASSUME NEW v \in Vaults, Rotate(v) \/ Recover(v)
      PROVE  job' = job
  BY <1>6 DEF Rotate, Recover
<1>7. ASSUME UNCHANGED vars
      PROVE  job' = job
  BY <1>7 DEF vars, database
<1>8. ASSUME NEW w \in Vaults
      PROVE  job'[w] \in {"pending", "deleting_r2", "failed"} =>
               \/ job[w] \in {"pending", "deleting_r2", "failed"}
               \/ vault'[w].status # "active"
  BY <1>2, <1>3, <1>4, <1>5, <1>6, <1>7 DEF Next
<1> QED
  BY <1>1, <1>8 DEF JobsClosed

\* Where the scheduled job is when it takes a vault apart, and of which vault.
LEMMA CronMovesOn ==
    ASSUME TypeOK, JobsClosed, CronClosed, CronStep, cron'.pc \in Dismantling
    PROVE  /\ \A v \in cron'.of \cap Vaults : vault[v].status # "active"
           /\ cron'.pc # "wipe" => cron'.of \subseteq Vaults
<1> USE DEF CronMoves, Dismantling
<1>0. Vaults \cap Snapshots = {}
  BY StoreAssumption DEF StoreAssumption
<1>1. ASSUME NEW v \in Vaults, ResumeDeletion(v)
      PROVE  /\ cron'.pc = "wipe"
             /\ \A w \in cron'.of \cap Vaults : vault[w].status # "active"
  <2>1. cron'.pc = "wipe" /\ cron'.of = {v} \cup (object \cap OfVault(v))
    BY <1>1 DEF ResumeDeletion
  <2>2. cron'.of \cap Vaults = {v}
    BY <1>0, <2>1 DEF OfVault
  <2> QED
    BY <1>1, <2>1, <2>2 DEF ResumeDeletion, JobsClosed
<1>2. CASE WipeObjects
  BY <1>2 DEF WipeObjects, CronClosed
<1>3. CASE CountVault
  BY <1>3 DEF CountVault, CronClosed
<1>4. CASE ReleaseVault
  BY <1>4 DEF ReleaseVault, CronClosed
<1>5. ASSUME \/ Claim \/ CollectObjects \/ CollectInventory \/ CollectRows \/ CronStops
             \/ ListBucket \/ CompareInventory \/ EraseVault
      PROVE  cron'.pc \in {"claimed", "deleted", "released", "idle", "page"}
  <2>1. CASE Claim \/ CollectObjects \/ CollectInventory \/ ListBucket
    <3>1. PICK pc, of : /\ pc \in {"claimed", "deleted", "released", "page"}
                        /\ CronMoves(pc, of, 0)
      BY <2>1 DEF Claim, CollectObjects, CollectInventory, ListBucket
    <3> QED
      BY <3>1
  <2>2. CASE CollectRows \/ CronStops \/ CompareInventory \/ EraseVault
    <3>1. CronEnds
      BY <2>2 DEF CollectRows, CronStops, CompareInventory, EraseVault
    <3> QED
      BY <3>1 DEF CronEnds, CronIdle
  <2> QED
    BY <1>5, <2>1, <2>2
<1>6. ASSUME NEW v \in Vaults, ForgetJob(v)
      PROVE  UNCHANGED cron /\ cron.pc = "idle"
  BY <1>6 DEF ForgetJob, CronRuns
<1> QED
  BY <1>1, <1>2, <1>3, <1>4, <1>5, <1>6 DEF CronStep

\* CronClosed is kept.
LEMMA NextCron ==
    ASSUME IInv, [Next]_vars
    PROVE  CronClosed'
<1>0. TypeOK /\ JobsClosed /\ CronClosed
  BY DEF IInv
<1>1. CASE CronStep
  BY <1>0, <1>1, CronMovesOn, ClosedStaysClosed DEF CronClosed
<1>2. CASE cron' = cron
  BY <1>0, <1>2, ClosedStaysClosed DEF CronClosed
<1>3. ASSUME NEW r \in Requests, RequestStep(r)
      PROVE  cron' = cron
  BY <1>3 DEF RequestStep, Load, Insert, Reserve, Put, PutFails, UndoObject, UndoInventory,
              Orphan, Commit, CommitUnknown, CommitBatch, CommitFails, Reread, Settle, Stop
<1>4. ASSUME NEW s \in Snapshots,
             \/ Prepare(s) \/ Acknowledge(s) \/ Expire(s)
             \/ \E r \in Requests : Begin(r, s)
      PROVE  cron' = cron
  BY <1>4 DEF Prepare, Acknowledge, Expire, Begin
<1>5. ASSUME NEW v \in Vaults, Rotate(v) \/ Recover(v) \/ DeleteVault(v)
      PROVE  cron' = cron
  BY <1>5 DEF Rotate, Recover, DeleteVault
<1>6. ASSUME UNCHANGED vars
      PROVE  cron' = cron
  BY <1>6 DEF vars
<1> QED
  BY <1>1, <1>2, <1>3, <1>4, <1>5, <1>6 DEF Next

-----------------------------------------------------------------------------
(* A committed row is the current snapshot.                                *)

\* The commit of an upload leaves no other row committed.
LEMMA CommitKeepsOne ==
    ASSUME IInv, NEW r \in Requests, NEW won, NEW lost, CommitBatch(r, won, lost)
    PROVE  CommittedIsCurrent'
<1> DEFINE s == request[r].s
           v == VaultOf[s]
           new == IF Wins(s)
                  THEN [vault[v] EXCEPT !.revision = envelope[s].revision, !.current = s]
                  ELSE vault[v]
<1>0. TypeOK /\ CommittedIsCurrent /\ HeadsMatch /\ RequestsKnow
  BY DEF IInv
<1>1. s \in Snapshots /\ v \in Vaults /\ VaultOf \in [Snapshots -> Vaults] /\ None \notin Snapshots
  BY <1>0, StoreAssumption DEF CommitBatch, At, RequestsKnow, StoreAssumption
<1>2. vault' = [vault EXCEPT ![v] = new] /\ row' = CommittedRows(s, new)
  BY DEF CommitBatch
<1>3. vault[v] \in VaultRecords /\ vault[v].revision \in Nat /\ envelope[s].revision \in Nat
  BY <1>0, <1>1 DEF TypeOK, VaultRecords
<1>4. new.current = IF Wins(s) THEN s ELSE vault[v].current
  BY <1>3 DEF VaultRecords
<1>5. vault'[v] = new /\ \A w \in Vaults \ {v} : vault'[w] = vault[w]
  BY <1>0, <1>1, <1>2 DEF TypeOK
<1>6. Wins(s) => envelope[s].revision - 1 = vault[v].revision
  BY DEF Wins
<1> HIDE DEF new, v, s
<1>7. ASSUME NEW o \in Snapshots, row'[o].state = "committed"
      PROVE  vault'[VaultOf[o]].current = o
  <2>1. row'[o].state = "committed" => row[o].state = "committed" \/ (o = s /\ new.current = s)
    BY <1>2 DEF CommittedRows
  <2>2. CASE o = s
    BY <2>1, <2>2, <1>7, <1>0, <1>1, <1>4, <1>5 DEF CommittedIsCurrent, v
  <2>3. CASE o # s /\ VaultOf[o] # v
    BY <2>1, <2>3, <1>7, <1>0, <1>1, <1>5 DEF CommittedIsCurrent
  <2>4. CASE o # s /\ VaultOf[o] = v
    <3>1. row[o].state = "committed" /\ vault[v].current = o
      BY <2>1, <2>4, <1>7, <1>0 DEF CommittedIsCurrent
    <3>2. envelope[o].revision = vault[v].revision
      BY <3>1, <1>0, <1>1 DEF HeadsMatch
    <3>3. ~Wins(s)
      <4>1. SUFFICES ASSUME Wins(s) PROVE FALSE
        OBVIOUS
      <4>2. row'[o] = [state |-> "superseded", due |-> FALSE]
        BY <4>1, <3>1, <3>2, <2>4, <1>2, <1>6 DEF CommittedRows, v
      <4> QED
        BY <4>2, <1>7
    <3> QED
      BY <3>1, <3>3, <2>4, <1>4, <1>5
  <2> QED
    BY <2>2, <2>3, <2>4
<1> QED
  BY <1>7 DEF CommittedIsCurrent

\* CommittedIsCurrent is kept.
LEMMA NextCommitted ==
    ASSUME IInv, [Next]_vars
    PROVE  CommittedIsCurrent'
<1>0. TypeOK /\ CommittedIsCurrent /\ RequestsKnow /\ VaultOf \in [Snapshots -> Vaults]
  BY StoreAssumption DEF IInv, StoreAssumption
<1> USE DEF database
<1>1. ASSUME UNCHANGED vault,
             \A s \in Snapshots : row'[s].state = "committed" => row[s].state = "committed"
      PROVE  CommittedIsCurrent'
  BY <1>0, <1>1 DEF CommittedIsCurrent
<1>2. ASSUME NEW r \in Requests, RequestStep(r)
      PROVE  CommittedIsCurrent'
  <2>1. CASE Commit(r) \/ CommitUnknown(r)
    BY <2>1, CommitKeepsOne DEF Commit, CommitUnknown
  <2>2. CASE Insert(r)
    <3>1. /\ UNCHANGED vault
          /\ \A s \in Snapshots : row'[s].state = "committed" => row[s].state = "committed"
      BY <1>0, <2>2 DEF Insert, TypeOK
    <3> QED
      BY <1>1, <3>1
  <2>3. CASE Orphan(r)
    <3>1. /\ UNCHANGED vault
          /\ \A s \in Snapshots : row'[s].state = "committed" => row[s].state = "committed"
      BY <1>0, <2>3 DEF Orphan, OrphanRow, TypeOK
    <3> QED
      BY <1>1, <3>1
  <2>4. CASE UNCHANGED <<vault, row>>
    BY <1>1, <2>4
  <2> QED
    BY <1>2, <2>1, <2>2, <2>3, <2>4
    DEF RequestStep, Load, Reserve, Put, PutFails, UndoObject, UndoInventory, CommitFails,
        Reread, Settle, Stop
<1>3. ASSUME NEW s \in Snapshots, Expire(s)
      PROVE  CommittedIsCurrent'
  <2>1. /\ UNCHANGED vault
        /\ \A o \in Snapshots : row'[o].state = "committed" => row[o].state = "committed"
    BY <1>0, <1>3 DEF Expire, TypeOK, RowRecords
  <2> QED
    BY <1>1, <2>1
<1>4. ASSUME NEW s \in Snapshots,
             Prepare(s) \/ Acknowledge(s) \/ \E r \in Requests : Begin(r, s)
      PROVE  CommittedIsCurrent'
  BY <1>1, <1>4 DEF Prepare, Acknowledge, Begin
<1>5. ASSUME NEW v \in Vaults, Rotate(v) \/ DeleteVault(v)
      PROVE  CommittedIsCurrent'
  <2>1. ASSUME NEW w \in Vaults
        PROVE  vault'[w].current = vault[w].current
    <3>1. \/ vault'[w] = IF w = v THEN [vault[w] EXCEPT !.epoch = @ + 1] ELSE vault[w]
          \/ vault'[w] = IF w = v THEN [vault[w] EXCEPT !.status = "deleting"] ELSE vault[w]
      BY <1>0, <1>5, VaultAfter
    <3>2. vault[w] \in VaultRecords
      BY <1>0 DEF TypeOK
    <3> QED
      BY <3>1, <3>2 DEF VaultRecords
  <2>2. row' = row
    BY <1>5 DEF Rotate, DeleteVault
  <2> QED
    BY <1>0, <2>1, <2>2 DEF CommittedIsCurrent
<1>6. ASSUME NEW v \in Vaults, Recover(v)
      PROVE  CommittedIsCurrent'
  <2>1. \A w \in Vaults \ {v} : vault'[w] = vault[w]
    BY <1>0, <1>6 DEF Recover, TypeOK
  <2>2. \A s \in Snapshots : row'[s].state = "committed" =>
             VaultOf[s] # v /\ row[s].state = "committed"
    BY <1>6 DEF Recover
  <2> QED
    BY <1>0, <2>1, <2>2 DEF CommittedIsCurrent
<1>7. CASE CronStep
  <2>1. CASE Claim
    <3>1. /\ UNCHANGED vault
          /\ \A o \in Snapshots : row'[o].state = "committed" => row[o].state = "committed"
      BY <1>0, <2>1 DEF Claim, Collectable, TypeOK, RowRecords
    <3> QED
      BY <1>1, <3>1
  <2>2. CASE CollectRows
    <3>1. /\ UNCHANGED vault
          /\ \A o \in Snapshots : row'[o].state = "committed" => row[o].state = "committed"
      BY <2>2 DEF CollectRows, NoRow
    <3> QED
      BY <1>1, <3>1
  <2>3. CASE EraseVault
    <3>1. PICK v \in cron.of :
            /\ vault' = [vault EXCEPT ![v] = [@ EXCEPT !.status = "gone", !.current = None]]
            /\ row' = [s \in Snapshots |-> IF VaultOf[s] = v THEN NoRow ELSE row[s]]
      BY <2>3 DEF EraseVault
    <3>2. \A w \in Vaults \ {v} : vault'[w] = vault[w]
      BY <1>0, <3>1 DEF TypeOK
    <3>3. \A s \in Snapshots : row'[s].state = "committed" =>
               VaultOf[s] # v /\ row[s].state = "committed"
      BY <3>1 DEF NoRow
    <3> QED
      BY <1>0, <3>2, <3>3 DEF CommittedIsCurrent
  <2>4. CASE UNCHANGED <<vault, row>>
    BY <1>1, <2>4
  <2> QED
    BY <1>7, <2>1, <2>2, <2>3, <2>4
    DEF CronStep, CollectObjects, CollectInventory, CronStops, ListBucket, CompareInventory,
        ResumeDeletion, ForgetJob, WipeObjects, CountVault, ReleaseVault
<1>8. CASE UNCHANGED vars
  BY <1>1, <1>8 DEF vars
<1> QED
  BY <1>2, <1>3, <1>4, <1>5, <1>6, <1>7, <1>8 DEF Next

-----------------------------------------------------------------------------
(* The object count.                                                       *)

\* Releasing keys takes exactly the released ones off a total that was exact.
LEMMA ReleasedCount ==
    ASSUME TypeOK, NEW S \in SUBSET Snapshots, Released(S), total = Cardinality(Inventoried)
    PROVE  total' = Cardinality(Inventoried')
<1>1. IsFiniteSet(Inventoried) /\ IsFiniteSet(Inventoried \cap S)
  BY SnapshotSetsFinite DEF Inventoried
<1>2. Inventoried' = Inventoried \ S
  BY ReleasedKeys DEF Released
<1>3. Cardinality(Inventoried \ S) = Cardinality(Inventoried) - Cardinality(Inventoried \cap S)
  BY <1>1, FS_Difference
<1>4. /\ Cardinality(Inventoried \cap S) \in Nat /\ Cardinality(Inventoried) \in Nat
      /\ Cardinality(Inventoried \ S) \in Nat
  BY SnapshotSetsFinite DEF Inventoried
<1>5. S \cap Inventoried = Inventoried \cap S
  OBVIOUS
<1>6. total' = Less(Cardinality(Inventoried \cap S))
  BY <1>5 DEF Released
<1> QED
  BY <1>2, <1>3, <1>4, <1>6 DEF Less

\* Entering a key in the inventory adds one.
LEMMA ReservedCount ==
    ASSUME TypeOK, NEW s \in Snapshots, inventory[s] = "none",
           inventory' = [inventory EXCEPT ![s] = "temporary"], total' = total + 1,
           total = Cardinality(Inventoried)
    PROVE  total' = Cardinality(Inventoried')
<1>1. Inventoried' = Inventoried \cup {s} /\ s \notin Inventoried
  BY DEF Inventoried, TypeOK
<1>2. IsFiniteSet(Inventoried)
  BY SnapshotSetsFinite DEF Inventoried
<1>3. Cardinality(Inventoried \cup {s}) = Cardinality(Inventoried) + 1
  BY <1>1, <1>2, FS_AddElement
<1> QED
  BY <1>1, <1>3

\* Every step of an upload keeps an exact total exact.
LEMMA RequestCount ==
    ASSUME TypeOK, RequestsKnow, NEW r \in Requests, RequestStep(r),
           total = Cardinality(Inventoried)
    PROVE  total' = Cardinality(Inventoried')
<1> USE DEF At
<1>1. CASE UNCHANGED <<inventory, total>>
  BY <1>1 DEF Inventoried
<1>2. CASE Reserve(r)
  <2>1. request[r].s \in Snapshots
    BY <1>2 DEF Reserve, RequestsKnow
  <2>2. CASE inventory[request[r].s] # "none"
    BY <1>1, <1>2, <2>2 DEF Reserve
  <2>3. CASE inventory[request[r].s] = "none"
    <3>1. \/ UNCHANGED <<inventory, total>>
          \/ /\ inventory' = [inventory EXCEPT ![request[r].s] = "temporary"]
             /\ total' = total + 1
      BY <1>2 DEF Reserve
    <3> QED
      BY <1>1, <2>1, <2>3, <3>1, ReservedCount
  <2> QED
    BY <2>2, <2>3
<1>3. CASE UndoInventory(r)
  <2>1. {request[r].s} \in SUBSET Snapshots
    BY <1>3 DEF UndoInventory, RequestsKnow
  <2> QED
    BY <1>3, <2>1, ReleasedCount DEF UndoInventory
<1>4. CASE Settle(r)
  <2>1. total' = total /\ Inventoried' = Inventoried
    BY <1>4 DEF Settle, Inventoried, TypeOK
  <2> QED
    BY <2>1
<1> QED
  BY <1>1, <1>2, <1>3, <1>4
  DEF RequestStep, Load, Insert, Put, PutFails, UndoObject, Orphan, Commit, CommitUnknown,
      CommitBatch, CommitFails, Reread, Stop, database

\* Every step of the job keeps an exact total exact while no vault is closed.
LEMMA CronCount ==
    ASSUME TypeOK, CronClosed, CronStep, \A v \in Vaults : vault[v].status = "active",
           total = Cardinality(Inventoried)
    PROVE  total' = Cardinality(Inventoried')
<1>1. CASE UNCHANGED <<inventory, total>>
  BY <1>1 DEF Inventoried
<1>2. CASE CollectInventory
  BY <1>2, ReleasedCount DEF CollectInventory
<1>3. CASE ReleaseVault \/ EraseVault
  <2>1. cron.pc \in Dismantling \ {"wipe"} /\ \E v \in cron.of : TRUE
    BY <1>3 DEF ReleaseVault, EraseVault, Dismantling
  <2> QED
    BY <2>1 DEF CronClosed
<1> QED
  BY <1>1, <1>2, <1>3
  DEF CronStep, Claim, CollectObjects, CollectRows, CronStops, ListBucket, CompareInventory,
      ResumeDeletion, ForgetJob, WipeObjects, CountVault, database

\* TotalIsExact is kept.
LEMMA NextTotal ==
    ASSUME IInv, [Next]_vars
    PROVE  TotalIsExact'
<1> SUFFICES ASSUME \A v \in Vaults : vault'[v].status = "active"
             PROVE  total' = Cardinality(Inventoried')
  BY DEF TotalIsExact
<1>0. TypeOK /\ RequestsKnow /\ CronClosed
  BY DEF IInv
<1>1. \A v \in Vaults : vault[v].status = "active"
  BY ClosedStaysClosed
<1>2. total = Cardinality(Inventoried)
  BY <1>1 DEF IInv, TotalIsExact
<1>3. ASSUME UNCHANGED <<inventory, total>>
      PROVE  total' = Cardinality(Inventoried')
  BY <1>2, <1>3 DEF Inventoried
<1>4. ASSUME NEW s \in Snapshots,
             \/ Prepare(s) \/ Acknowledge(s) \/ Expire(s)
             \/ \E r \in Requests : Begin(r, s)
      PROVE  UNCHANGED <<inventory, total>>
  BY <1>4 DEF Prepare, Acknowledge, Expire, Begin, database
<1>5. ASSUME NEW v \in Vaults, Rotate(v) \/ Recover(v) \/ DeleteVault(v)
      PROVE  UNCHANGED <<inventory, total>>
  BY <1>5 DEF Rotate, Recover, DeleteVault
<1>6. ASSUME UNCHANGED vars
      PROVE  UNCHANGED <<inventory, total>>
  BY <1>6 DEF vars, database
<1> QED
  BY <1>0, <1>1, <1>2, <1>3, <1>4, <1>5, <1>6, RequestCount, CronCount DEF Next

-----------------------------------------------------------------------------
(* The theorems.                                                           *)

\* The initial state satisfies the strengthened invariant.
LEMMA InitInv == Init => IInv
<1> SUFFICES ASSUME Init PROVE IInv
  OBVIOUS
<1>0. VaultOf \in [Snapshots -> Vaults]
  BY StoreAssumption DEF StoreAssumption
<1>1. TypeOK
  BY InitType
<1>2. RequestsKnow /\ RowsKnow /\ JobsClosed /\ CronClosed
  BY DEF Init, RequestsKnow, RowsKnow, JobsClosed, CronClosed, Dismantling, Idle, NoRow, CronIdle
<1>3. HeadsMatch
  BY DEF Init, HeadsMatch
<1>4. EnvelopesFollow
  BY <1>0 DEF Init, EnvelopesFollow, FollowsWell, Follows, NoEnvelope
<1>5. CheckStillHolds
  BY <1>0 DEF Init, CheckStillHolds, Follows, NoEnvelope
<1>6. CommittedIsCurrent
  BY DEF Init, CommittedIsCurrent, NoRow
<1>7. TotalIsExact
  <2>1. Inventoried = {}
    BY DEF Init, Inventoried
  <2> QED
    BY <2>1, FS_EmptySet DEF Init, TotalIsExact
<1> QED
  BY <1>1, <1>2, <1>3, <1>4, <1>5, <1>6, <1>7 DEF IInv

\* Every step keeps the strengthened invariant.
LEMMA NextInv == IInv /\ [Next]_vars => IInv'
<1> SUFFICES ASSUME IInv, [Next]_vars PROVE IInv'
  OBVIOUS
<1>1. TypeOK'
  BY NextType DEF IInv
<1> QED
  BY <1>1, NextKnow, NextJobs, NextCron, NextHeads, NextEnvelopes, NextCheck, NextCommitted,
     NextTotal
  DEF IInv

\* The strengthened invariant holds in every reachable state.
THEOREM SnapshotStoreInvariant == Spec => []IInv
BY InitInv, NextInv, PTL DEF Spec

\* Types: every variable keeps its type whatever uploads, rotations,
\* recoveries, deletions and scheduled jobs interleave.
THEOREM SnapshotStoreTypes == Spec => []TypeOK
<1>1. IInv => TypeOK
  BY DEF IInv
<1> QED
  BY <1>1, SnapshotStoreInvariant, PTL

\* The object count of budget.ts is exact while no vault is being deleted.
THEOREM ObjectCountExact == Spec => []TotalIsExact
<1>1. IInv => TotalIsExact
  BY DEF IInv
<1> QED
  BY <1>1, SnapshotStoreInvariant, PTL

\* A vault has at most one committed row, that of its current snapshot.
THEOREM OneCommittedRow == Spec => []CommittedIsCurrent
<1>1. IInv => CommittedIsCurrent
  BY DEF IInv
<1> QED
  BY <1>1, SnapshotStoreInvariant, PTL

-----------------------------------------------------------------------------
(* What a pointer that moves leaves behind, and the chain of snapshots.    *)

\* The snapshot that takes over follows the current one and was made upon it.
LEMMA WinnerFollows ==
    ASSUME IInv, NEW s \in Snapshots, PointerMoves(s)
    PROVE  /\ VaultOf[s] \in Vaults /\ vault[VaultOf[s]].status = "active"
           /\ Follows(s) /\ BaseAcknowledged(s)
           /\ envelope[s] = [revision |-> vault[VaultOf[s]].revision + 1,
                             epoch |-> vault[VaultOf[s]].epoch,
                             prev |-> vault[VaultOf[s]].current]
<1>0. /\ TypeOK /\ EnvelopesFollow /\ CheckStillHolds /\ VaultOf[s] \in Vaults
  BY StoreAssumption DEF IInv, StoreAssumption
<1>1. /\ vault[VaultOf[s]].revision \in Nat
      /\ envelope[s] \in [revision : Nat, epoch : Nat, prev : Snapshots \cup {None}]
  BY <1>0 DEF TypeOK, VaultRecords
<1>2. vault[VaultOf[s]].status = "active" /\ Follows(s)
  BY <1>1 DEF PointerMoves, Wins, Follows
<1>3. envelope[s].prev = vault[VaultOf[s]].current
  BY <1>0, <1>2 DEF EnvelopesFollow, FollowsWell
<1>4. BaseAcknowledged(s)
  BY <1>0, <1>2 DEF CheckStillHolds, PointerMoves
<1>5. envelope[s] = [revision |-> vault[VaultOf[s]].revision + 1,
                     epoch |-> vault[VaultOf[s]].epoch,
                     prev |-> vault[VaultOf[s]].current]
  BY <1>1, <1>2, <1>3 DEF Follows
<1> QED
  BY <1>0, <1>2, <1>4, <1>5

\* One step replaces only what every active device has acknowledged.
LEMMA StepReplacesAcked ==
    ASSUME IInv, [Next]_vars, NEW v \in Vaults,
           vault[v].current # None, vault'[v].current \in Snapshots \ {vault[v].current},
           envelope[vault[v].current].epoch = vault[v].epoch
    PROVE  vault[v].current \in acked
<1>0. TypeOK /\ vault[v] \in VaultRecords /\ None \notin Snapshots
  BY StoreAssumption DEF IInv, TypeOK, StoreAssumption
<1>1. ASSUME NEW s \in Snapshots, PointerMoves(s)
      PROVE  vault[v].current \in acked
  <2>1. vault'[v] = IF v = VaultOf[s]
                    THEN [vault[v] EXCEPT !.revision = envelope[s].revision, !.current = s]
                    ELSE vault[v]
    BY <1>0, <1>1, VaultAfter
  <2>2. BaseAcknowledged(s) /\ v = VaultOf[s]
    BY <1>1, <2>1, WinnerFollows
  <2> QED
    BY <2>2 DEF BaseAcknowledged
<1>2. CASE vault'[v].current \in {None, vault[v].current}
  BY <1>0, <1>2
<1>3. ASSUME NEW s \in Snapshots, Prepare(s) \/ Acknowledge(s)
      PROVE  vault' = vault
  BY <1>3 DEF Prepare, Acknowledge, database
<1>4. ASSUME NEW w \in Vaults, Rotate(w) \/ Recover(w) \/ DeleteVault(w) \/ Erased(w)
      PROVE  vault'[v].current \in {None, vault[v].current}
  <2>1. \/ vault'[v] = vault[v]
        \/ vault'[v] = [vault[v] EXCEPT !.epoch = @ + 1]
        \/ vault'[v] = [vault[v] EXCEPT !.epoch = @ + 1, !.revision = 0, !.current = None]
        \/ vault'[v] = [vault[v] EXCEPT !.status = "deleting"]
        \/ vault'[v] = [vault[v] EXCEPT !.status = "gone", !.current = None]
    BY <1>0, <1>4, VaultAfter
  <2> QED
    BY <1>0, <2>1 DEF VaultRecords
<1> QED
  BY <1>1, <1>2, <1>3, <1>4, VaultSteps

\* Within a key epoch no snapshot is replaced before every active device has
\* acknowledged it, though the check is made several calls before the commit.
THEOREM NoneReplacedUnacknowledged == Spec => ReplacedWereAcked
<1> DEFINE Acked ==
      \A v \in Vaults :
         /\ vault[v].current # None /\ vault'[v].current \in Snapshots \ {vault[v].current}
         /\ envelope[vault[v].current].epoch = vault[v].epoch
         => vault[v].current \in acked
<1>1. IInv /\ [Next]_vars => [Acked]_vars
  BY StepReplacesAcked
<1> QED
  BY <1>1, SnapshotStoreInvariant, PTL DEF Spec, ReplacedWereAcked

\* The vaults of the initial state are empty chains.
LEMMA InitChain == Init => Chain!Init
<1> SUFFICES ASSUME Init PROVE Chain!Init
  OBVIOUS
<1>1. ASSUME NEW v \in Vaults
      PROVE  /\ vault[v].current = None /\ vault[v].revision = 0 /\ vault[v].epoch = 1
             /\ (vault[v].status = "active") = TRUE
  BY DEF Init
<1>2. /\ [v \in Vaults |-> vault[v].current] = [v \in Vaults |-> None]
      /\ [v \in Vaults |-> vault[v].revision] = [v \in Vaults |-> 0]
      /\ [v \in Vaults |-> vault[v].epoch] = [v \in Vaults |-> 1]
  BY <1>1
<1>3. [v \in Vaults |-> vault[v].status = "active"] = [v \in Vaults |-> TRUE]
  BY <1>1
<1>4. envelope = [s \in Snapshots |-> Chain!Unmade]
  BY DEF Init, NoEnvelope, Chain!Unmade
<1> QED
  BY <1>2, <1>3, <1>4 DEF Chain!Init

\* A step of the service is a step of the chain, or none.
LEMMA StepChain ==
    ASSUME IInv, [Next]_vars
    PROVE  [Chain!Next]_(Chain!vars)
<1> DEFINE head == [v \in Vaults |-> vault[v].current]
           revision == [v \in Vaults |-> vault[v].revision]
           epoch == [v \in Vaults |-> vault[v].epoch]
           open == [v \in Vaults |-> vault[v].status = "active"]
<1>0. TypeOK /\ VaultOf \in [Snapshots -> Vaults] /\ \A v \in Vaults : vault[v] \in VaultRecords
  BY StoreAssumption DEF IInv, TypeOK, StoreAssumption
<1>1. CASE UNCHANGED <<vault, envelope, acked>>
  BY <1>1 DEF Chain!vars
<1>2. ASSUME NEW s \in Snapshots, Prepare(s)
      PROVE  Chain!Make(s)
  BY <1>0, <1>2 DEF Prepare, database, NoEnvelope, Chain!Make, Chain!Unmade, Chain!Upon
<1>3. ASSUME NEW s \in Snapshots, Acknowledge(s)
      PROVE  UNCHANGED Chain!vars
  BY <1>3 DEF Acknowledge, database, Chain!vars
<1>4. ASSUME NEW s \in Snapshots, PointerMoves(s)
      PROVE  Chain!Publish(s)
  <2> DEFINE v == VaultOf[s]
  <2>1. /\ v \in Vaults /\ vault[v].status = "active"
        /\ envelope[s] = [revision |-> vault[v].revision + 1, epoch |-> vault[v].epoch,
                          prev |-> vault[v].current]
    BY <1>4, WinnerFollows
  <2>2. ASSUME NEW w \in Vaults
        PROVE  /\ vault'[w].current = IF w = v THEN s ELSE vault[w].current
               /\ vault'[w].revision = IF w = v THEN vault[w].revision + 1
                                               ELSE vault[w].revision
               /\ vault'[w].epoch = vault[w].epoch /\ vault'[w].status = vault[w].status
    <3>1. vault'[w] = IF w = v
                      THEN [vault[w] EXCEPT !.revision = envelope[s].revision, !.current = s]
                      ELSE vault[w]
      BY <1>0, <1>4, VaultAfter
    <3> QED
      BY <1>0, <2>1, <3>1 DEF VaultRecords
  <2> HIDE DEF v
  <2>3. open[v] /\ envelope[s] = [revision |-> revision[v] + 1, epoch |-> epoch[v],
                                  prev |-> head[v]]
    BY <2>1
  <2>4. /\ head' = [head EXCEPT ![v] = s]
        /\ revision' = [revision EXCEPT ![v] = @ + 1]
        /\ UNCHANGED <<epoch, open>>
    BY <2>1, <2>2
  <2> QED
    BY <1>4, <2>3, <2>4 DEF PointerMoves, Chain!Publish, Chain!Upon, v
<1>5. ASSUME NEW v \in Vaults, Rotate(v)
      PROVE  Chain!NewEpoch(v)
  <2>1. ASSUME NEW w \in Vaults
        PROVE  /\ vault'[w].epoch = IF w = v THEN vault[w].epoch + 1 ELSE vault[w].epoch
               /\ vault'[w].current = vault[w].current
               /\ vault'[w].revision = vault[w].revision /\ vault'[w].status = vault[w].status
    <3>1. vault'[w] = IF w = v THEN [vault[w] EXCEPT !.epoch = @ + 1] ELSE vault[w]
      BY <1>0, <1>5, VaultAfter
    <3> QED
      BY <1>0, <3>1 DEF VaultRecords
  <2>2. epoch' = [epoch EXCEPT ![v] = @ + 1] /\ UNCHANGED <<head, revision, open>>
    BY <2>1
  <2> QED
    BY <1>5, <2>2 DEF Rotate, Chain!NewEpoch
<1>6. ASSUME NEW v \in Vaults, Recover(v)
      PROVE  Chain!Restart(v)
  <2>1. ASSUME NEW w \in Vaults
        PROVE  /\ vault'[w].epoch = IF w = v THEN vault[w].epoch + 1 ELSE vault[w].epoch
               /\ vault'[w].current = IF w = v THEN None ELSE vault[w].current
               /\ vault'[w].revision = IF w = v THEN 0 ELSE vault[w].revision
               /\ vault'[w].status = vault[w].status
    <3>1. vault'[w] = IF w = v
                      THEN [vault[w] EXCEPT !.epoch = @ + 1, !.revision = 0, !.current = None]
                      ELSE vault[w]
      BY <1>0, <1>6, VaultAfter
    <3> QED
      BY <1>0, <3>1 DEF VaultRecords
  <2>2. /\ epoch' = [epoch EXCEPT ![v] = @ + 1] /\ revision' = [revision EXCEPT ![v] = 0]
        /\ head' = [head EXCEPT ![v] = None] /\ UNCHANGED open
    BY <2>1
  <2> QED
    BY <1>6, <2>2 DEF Recover, Chain!Restart
<1>7. ASSUME NEW v \in Vaults, DeleteVault(v)
      PROVE  Chain!Close(v)
  <2>1. ASSUME NEW w \in Vaults
        PROVE  /\ (vault'[w].status = "active") =
                    IF w = v THEN FALSE ELSE vault[w].status = "active"
               /\ vault'[w].epoch = vault[w].epoch
               /\ vault'[w].current = vault[w].current
               /\ vault'[w].revision = vault[w].revision
    <3>1. vault'[w] = IF w = v THEN [vault[w] EXCEPT !.status = "deleting"] ELSE vault[w]
      BY <1>0, <1>7, VaultAfter
    <3> QED
      BY <1>0, <3>1 DEF VaultRecords
  <2>2. open' = [open EXCEPT ![v] = FALSE] /\ UNCHANGED <<head, revision, epoch>>
    BY <2>1
  <2> QED
    BY <1>7, <2>2 DEF DeleteVault, Chain!Close
<1>8. ASSUME NEW v \in Vaults, Erased(v)
      PROVE  Chain!Forget(v)
  <2>1. ASSUME NEW w \in Vaults
        PROVE  /\ (vault'[w].status = "active") = (vault[w].status = "active")
               /\ vault'[w].epoch = vault[w].epoch
               /\ vault'[w].current = IF w = v THEN None ELSE vault[w].current
               /\ vault'[w].revision = vault[w].revision
    <3>1. vault'[w] = IF w = v THEN [vault[w] EXCEPT !.status = "gone", !.current = None]
                               ELSE vault[w]
      BY <1>0, <1>8, VaultAfter
    <3>2. vault[v].status # "active"
      BY <1>8 DEF Erased
    <3>3. CASE w = v
      <4>1. /\ vault'[w].status = "gone" /\ vault'[w].current = None
            /\ vault'[w].epoch = vault[w].epoch /\ vault'[w].revision = vault[w].revision
        BY <1>0, <3>1, <3>3 DEF VaultRecords
      <4> QED
        BY <3>2, <3>3, <4>1
    <3>4. CASE w # v
      BY <3>1, <3>4
    <3> QED
      BY <3>3, <3>4
  <2>2. head' = [head EXCEPT ![v] = None] /\ UNCHANGED <<open, revision, epoch>>
    BY <2>1
  <2> QED
    BY <1>8, <2>2 DEF Erased, Chain!Forget
<1> QED
  BY <1>1, <1>2, <1>3, <1>4, <1>5, <1>6, <1>7, <1>8, VaultSteps DEF Chain!Next

\* The service implements SnapshotChain: whatever uploads race, repeat, fail or
\* meet a rotation, a recovery or a deletion, the vaults are chains.
THEOREM StoreImplementsChain == Spec => ImplementsChain
<1>1. Init => Chain!Init
  BY InitChain
<1>2. IInv /\ [Next]_vars => [Chain!Next]_(Chain!vars)
  BY StepChain
<1> QED
  BY <1>1, <1>2, SnapshotStoreInvariant, PTL DEF Spec, ImplementsChain, Chain!Spec
=============================================================================
