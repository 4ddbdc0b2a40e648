--------------------------- MODULE SnapshotStore ---------------------------
(***************************************************************************)
(* How the service stores snapshots: a row in D1, an object in R2 and a    *)
(* row of the R2 inventory, which no transaction covers together           *)
(* (snapshots.ts, the inventory part of budget.ts, cleanup.ts, deletion.ts *)
(* and reconciliation.ts of src/services/sync-worker/src).                 *)
(*                                                                         *)
(* An upload is a request that goes from one D1 or R2 call to the next;    *)
(* every call is one action, and other requests, the scheduled job, a key  *)
(* rotation or a recovery may run in between.  A request may stop after    *)
(* any of its calls.  The same upload may be delivered more than once.     *)
(*                                                                         *)
(* A definition X_Mistake is a variant of X with a plausible mistake; the  *)
(* specification never uses it.  It shows that a property can fail.        *)
(***************************************************************************)
EXTENDS Integers, FiniteSets

CONSTANTS
    Vaults, Snapshots,
    VaultOf,        \* the vault each snapshot belongs to
    Requests,       \* upload requests that may be in flight
    None,           \* no snapshot
    MaxObjects,     \* STAGING_BUDGETS.resources.r2ObjectCount
    MaxVaultObjects,\* STAGING_BUDGETS.perVaultResources.r2ObjectCount
    MaxEpoch,       \* bound: key epochs
    Phases          \* which of "deletion" and "reconciliation" this instance has

ASSUME StoreAssumption ==
    /\ IsFiniteSet(Snapshots) /\ None \notin Snapshots
    /\ Vaults \cap Snapshots = {}
    /\ VaultOf \in [Snapshots -> Vaults]
    /\ MaxObjects \in Nat /\ MaxVaultObjects \in Nat /\ MaxEpoch \in Nat
    /\ Phases \subseteq {"deletion", "reconciliation"}

VARIABLES
    vault,      \* vaults: status, key epoch, current_snapshot_revision and _id
    envelope,   \* the signed envelope of each snapshot, once its device made it
    row,        \* snapshots: state, and whether cleanup_after has passed
    acked,      \* snapshots every active device has acknowledged
    object,     \* objects in the bucket, by the snapshot whose key they have
    inventory,  \* resource_inventory: state of the row of each object key
    total,      \* resource_totals.r2_object_count
    paused,     \* service_flags: maintenance_mode, or writes not accepted
    request,    \* upload requests between two calls
    cron,       \* the scheduled job between two calls
    job         \* deletion_requests: the deletion of each vault

database == <<vault, row, inventory, total, paused, job>>
vars == <<database, envelope, acked, object, request, cron>>

NoEnvelope == [revision |-> 0, epoch |-> 0, prev |-> None]
NoRow == [state |-> "none", due |-> FALSE]
Idle == [pc |-> "idle", s |-> None, found |-> FALSE]
CronIdle == [pc |-> "idle", of |-> {}, count |-> 0]

Pcs == {"idle", "retry", "load", "insert", "reserve", "put", "undo", "release",
        "orphan", "commit", "error", "lost", "finish"}
CronPcs == {"idle", "claimed", "deleted", "released", "listed", "wipe", "emptied", "counted",
            "erase", "page"}
Jobs == {"none", "pending", "deleting_r2", "completed", "failed"}

OrphanRow == [state |-> "orphaned", due |-> TRUE]

OfVault(v) == {s \in Snapshots : VaultOf[s] = v}
Inventoried == {s \in Snapshots : inventory[s] # "none"}
VaultObjects(v) == Cardinality(Inventoried \cap OfVault(v))
InFlight(s) == \E r \in Requests : request[r].s = s
At(r, pc) == request[r].pc = pc
Goto(r, pc) == request' = [request EXCEPT ![r].pc = pc]
Answer(r) == request' = [request EXCEPT ![r] = Idle]

VaultRecords == [status : {"active", "deleting", "gone"}, epoch : Nat, revision : Nat,
                 current : Snapshots \cup {None}]
RowRecords == [state : {"none", "temporary", "committed", "orphaned", "superseded",
                        "deleting"}, due : BOOLEAN]
RequestRecords == [pc : Pcs, s : Snapshots \cup {None}, found : BOOLEAN]

TypeOK ==
    /\ vault \in [Vaults -> VaultRecords]
    /\ envelope \in [Snapshots -> [revision : Nat, epoch : Nat,
                                   prev : Snapshots \cup {None}]]
    /\ row \in [Snapshots -> RowRecords]
    /\ acked \subseteq Snapshots /\ object \subseteq Snapshots
    /\ inventory \in [Snapshots -> {"none", "temporary", "committed"}]
    /\ total \in Nat /\ paused \in BOOLEAN
    /\ request \in [Requests -> RequestRecords]
    /\ cron \in [pc : CronPcs, of : SUBSET (Snapshots \cup Vaults), count : Nat]
    /\ job \in [Vaults -> Jobs]

Init ==
    /\ vault = [v \in Vaults |->
                  [status |-> "active", epoch |-> 1, revision |-> 0, current |-> None]]
    /\ envelope = [s \in Snapshots |-> NoEnvelope]
    /\ row = [s \in Snapshots |-> NoRow]
    /\ acked = {} /\ object = {}
    /\ inventory = [s \in Snapshots |-> "none"]
    /\ total = 0 /\ paused = FALSE
    /\ request = [r \in Requests |-> Idle]
    /\ cron = CronIdle
    /\ job = [v \in Vaults |-> "none"]

-----------------------------------------------------------------------------
(* The devices.                                                            *)

\* A device makes an encrypted snapshot upon the current one, signed once
\* with a fresh snapshot id.
Prepare(s) ==
    LET v == VaultOf[s] IN
    /\ envelope[s] = NoEnvelope /\ vault[v].status = "active"
    /\ envelope' = [envelope EXCEPT ![s] =
           [revision |-> vault[v].revision + 1, epoch |-> vault[v].epoch,
            prev |-> vault[v].current]]
    /\ UNCHANGED <<database, acked, object, request, cron>>

\* The last active device acknowledges the current snapshot.
Acknowledge(s) ==
    /\ vault[VaultOf[s]].current = s /\ vault[VaultOf[s]].status = "active"
    /\ s \notin acked
    /\ acked' = acked \cup {s}
    /\ UNCHANGED <<database, envelope, object, request, cron>>

-----------------------------------------------------------------------------
(* handleUploadSnapshot.                                                   *)

\* What a stored row of the same envelope means to an upload: assertExactStoredSnapshot
\* holds, an envelope being immutable.  The first reading goes on to load the vault.
ByStored(r, s, state, reading) ==
    request' = [request EXCEPT ![r] =
        CASE state \in {"none", "temporary"} /\ reading = "first"
               -> [pc |-> "load", s |-> s, found |-> state = "temporary"]
          [] state = "temporary" /\ reading = "again" -> [pc |-> "reserve", s |-> s, found |-> FALSE]
          [] state = "committed" -> [pc |-> "retry", s |-> s, found |-> FALSE]
          [] OTHER -> Idle]

\* An upload arrives: authentication, signature, findStoredSnapshot.  The
\* same upload comes again only within the hour of its temporary row: after an
\* error its device makes a new snapshot.
Begin(r, s) ==
    /\ request[r] = Idle /\ envelope[s] # NoEnvelope
    /\ vault[VaultOf[s]].status = "active" /\ ~paused
    /\ row[s].state = "temporary" => ~row[s].due
    /\ ByStored(r, s, row[s].state, "first")
    /\ UNCHANGED <<database, envelope, acked, object, cron>>

\* assertCurrentSnapshotContext on what loadVaultSnapshotState returned: the
\* LEFT JOIN yields the hash of the current snapshot if its row is committed.
CurrentContext(s) ==
    LET v == vault[VaultOf[s]] IN
    /\ v.revision # 0 =>
         v.current # None /\ row[v.current].state = "committed"
    /\ envelope[s] = [revision |-> v.revision + 1, epoch |-> v.epoch, prev |-> v.current]

\* Any committed snapshot may be replaced.
Acknowledged_Mistake(s) ==
    vault[VaultOf[s]].revision = 0 \/ row[vault[VaultOf[s]].current].state = "committed"

\* requireCurrentSnapshotAcknowledged: the mandatory snapshot of a new epoch
\* is exempt.
Acknowledged(s) ==
    LET v == vault[VaultOf[s]] IN
    v.revision = 0 \/ envelope[v.current].epoch # v.epoch \/ v.current \in acked

Load(r) ==
    LET s == request[r].s IN
    /\ At(r, "load")
    /\ IF vault[VaultOf[s]].status = "active" /\ CurrentContext(s) /\ Acknowledged(s)
       THEN request' = [request EXCEPT ![r] =
                [pc |-> IF @.found THEN "reserve" ELSE "insert", s |-> s, found |-> FALSE]]
       ELSE Answer(r)
    /\ UNCHANGED <<database, envelope, acked, object, cron>>

\* UNIQUE (vault_id, key_epoch, revision): any row holds its slot, whatever
\* its state.
SlotTaken(s) ==
    \E o \in OfVault(VaultOf[s]) :
        /\ row[o].state # "none"
        /\ envelope[o].epoch = envelope[s].epoch
        /\ envelope[o].revision = envelope[s].revision

\* insertTemporarySnapshot; on a violated constraint the handler reads again.
Insert(r) ==
    LET s == request[r].s IN
    /\ At(r, "insert")
    /\ IF SlotTaken(s) \/ vault[VaultOf[s]].status = "gone"
       THEN /\ ByStored(r, s, row[s].state, "again")
            /\ UNCHANGED row
       ELSE /\ row' = [row EXCEPT ![s] = [state |-> "temporary", due |-> FALSE]]
            /\ Goto(r, "reserve")
    /\ UNCHANGED <<vault, inventory, total, paused, job, envelope, acked, object, cron>>

\* reserveR2Object: one batch enters the object in the inventory and counts it.
Reserve(r) ==
    LET s == request[r].s
        v == VaultOf[s] IN
    /\ At(r, "reserve")
    /\ IF inventory[s] # "none"
       THEN Goto(r, "put") /\ UNCHANGED <<inventory, total>>
       ELSE IF ~paused /\ total < MaxObjects /\ VaultObjects(v) < MaxVaultObjects
                 /\ vault[v].status # "gone"
       THEN /\ inventory' = [inventory EXCEPT ![s] = "temporary"]
            /\ total' = total + 1
            /\ Goto(r, "put")
       ELSE Answer(r) /\ UNCHANGED <<inventory, total>>
    /\ UNCHANGED <<vault, row, paused, job, envelope, acked, object, cron>>

\* The put of the object succeeds.
Put(r) ==
    /\ At(r, "put")
    /\ object' = object \cup {request[r].s}
    /\ Goto(r, "commit")
    /\ UNCHANGED <<database, envelope, acked, cron>>

\* The put fails, or its answer is lost, or the object stored is not the one
\* the envelope announces.
PutFails(r) ==
    /\ At(r, "put")
    /\ \/ Goto(r, "undo") /\ object' \in {object, object \cup {request[r].s}}
       \/ Goto(r, "orphan") /\ object' = object \cup {request[r].s}
    /\ UNCHANGED <<database, envelope, acked, cron>>

\* The handler removes the object it put...
UndoObject(r) ==
    /\ At(r, "undo")
    /\ object' = object \ {request[r].s}
    /\ Goto(r, "release")
    /\ UNCHANGED <<database, envelope, acked, cron>>

\* A counter is never taken below zero: MAX(0, ...).
Less(n) == IF total > n THEN total - n ELSE 0

\* Every key is taken off the total, in the inventory or not.
Released_Mistake(S) ==
    /\ inventory' = [s \in Snapshots |-> IF s \in S THEN "none" ELSE inventory[s]]
    /\ total' = Less(Cardinality(S))

\* releaseR2Object of a set of keys: each row leaves the inventory once, and
\* only then is it taken off the total.
Released(S) ==
    /\ inventory' = [s \in Snapshots |-> IF s \in S THEN "none" ELSE inventory[s]]
    /\ total' = Less(Cardinality(S \cap Inventoried))

\* ...and then its inventory row, and answers 503 or a revision conflict.
UndoInventory(r) ==
    /\ At(r, "release")
    /\ Released({request[r].s})
    /\ Answer(r)
    /\ UNCHANGED <<vault, row, paused, job, envelope, acked, object, cron>>

\* markOrphanAndDelete.
Orphan(r) ==
    LET s == request[r].s IN
    /\ At(r, "orphan")
    /\ row' = IF row[s].state = "temporary"
              THEN [row EXCEPT ![s] = OrphanRow]
              ELSE row
    /\ Goto(r, "undo")
    /\ UNCHANGED <<vault, inventory, total, paused, job, envelope, acked, object, cron>>

\* The commit compares the epoch only.
Wins_Mistake(s) ==
    LET v == vault[VaultOf[s]] IN v.status = "active" /\ v.epoch = envelope[s].epoch

\* The compare-and-swap of the commit batch.
Wins(s) ==
    LET v == vault[VaultOf[s]] IN
    /\ v.status = "active" /\ v.epoch = envelope[s].epoch
    /\ v.revision = envelope[s].revision - 1

\* The base is left committed: the batch forgets to supersede it.
CommittedRows_Mistake(s, v) ==
    IF v.current = s
    THEN [row EXCEPT ![s] = [state |-> "committed", due |-> FALSE]]
    ELSE row

\* The rows after the batch, which moved the pointer to `current` at `revision`.
\* The batch supersedes the base snapshot whether or not the pointer moved.
\* Superseded rows beyond maxRetainedSnapshots (one) fall due at once.
CommittedRows(s, v) ==
    [o \in Snapshots |->
        CASE o = s /\ row[s].state = "temporary" /\ v.current = s
               /\ v.revision = envelope[s].revision
               -> [state |-> "committed", due |-> FALSE]
          [] o # s /\ VaultOf[o] = VaultOf[s] /\ row[o].state = "committed"
               /\ envelope[o].revision = envelope[s].revision - 1
               -> [state |-> "superseded", due |-> FALSE]
          [] o # s /\ VaultOf[o] = VaultOf[s] /\ row[o].state = "superseded"
               /\ envelope[o].revision < envelope[s].revision - 1
               -> [state |-> "superseded", due |-> TRUE]
          [] OTHER -> row[o]]

CommitBatch(r, won, lost) ==
    LET s == request[r].s
        v == IF Wins(s)
             THEN [vault[VaultOf[s]] EXCEPT !.revision = envelope[s].revision, !.current = s]
             ELSE vault[VaultOf[s]] IN
    /\ At(r, "commit")
    /\ vault' = [vault EXCEPT ![VaultOf[s]] = v]
    /\ row' = CommittedRows(s, v)
    /\ Goto(r, IF Wins(s) /\ row[s].state = "temporary" THEN won ELSE lost)
    /\ UNCHANGED <<inventory, total, paused, job, envelope, acked, object, cron>>

Commit(r) == CommitBatch(r, "finish", "lost")
\* The batch took effect, but D1 reports an error.
CommitUnknown(r) == CommitBatch(r, "error", "error")
\* The batch fails and has no effect.
CommitFails(r) ==
    /\ At(r, "commit")
    /\ Goto(r, "error")
    /\ UNCHANGED <<database, envelope, acked, object, cron>>

\* After an error or a lost swap the handler reads its row again.
Reread(r) ==
    LET s == request[r].s IN
    /\ \/ At(r, "error") \/ At(r, "lost")
    /\ Goto(r, IF row[s].state = "committed" THEN "retry"
               ELSE IF At(r, "lost") THEN "orphan" ELSE "undo")
    /\ UNCHANGED <<database, envelope, acked, object, cron>>

\* commitR2Object, at the end of an upload and in committedRetry, which then
\* only reads the object; whatever it finds, the request is answered.
Settle(r) ==
    LET s == request[r].s IN
    /\ At(r, "finish") \/ At(r, "retry")
    /\ inventory' = IF inventory[s] = "temporary"
                    THEN [inventory EXCEPT ![s] = "committed"] ELSE inventory
    /\ Answer(r)
    /\ UNCHANGED <<vault, row, total, paused, job, envelope, acked, object, cron>>

\* The Worker stops between two calls of the handler.
Stop(r) ==
    /\ request[r] # Idle
    /\ Answer(r)
    /\ UNCHANGED <<database, envelope, acked, object, cron>>

RequestStep(r) ==
    \/ Load(r) \/ Insert(r) \/ Reserve(r) \/ Put(r) \/ PutFails(r)
    \/ UndoObject(r) \/ UndoInventory(r) \/ Orphan(r)
    \/ Commit(r) \/ CommitUnknown(r) \/ CommitFails(r) \/ Reread(r)
    \/ Settle(r) \/ Stop(r)

-----------------------------------------------------------------------------
(* Membership changes that meet the snapshots.                             *)

\* A secure revocation starts a new key epoch (devices.ts).
Rotate(v) ==
    /\ vault[v].status = "active" /\ vault[v].epoch < MaxEpoch /\ ~paused
    /\ vault' = [vault EXCEPT ![v].epoch = @ + 1]
    /\ UNCHANGED <<row, inventory, total, paused, job, envelope, acked, object, request, cron>>

\* A recovery starts a new key epoch without a snapshot (recovery.ts).
Recover(v) ==
    /\ vault[v].status = "active" /\ vault[v].epoch < MaxEpoch /\ ~paused
    /\ vault' = [vault EXCEPT ![v] =
                   [vault[v] EXCEPT !.epoch = @ + 1, !.revision = 0, !.current = None]]
    /\ row' = [s \in Snapshots |->
                 IF VaultOf[s] = v /\ row[s].state = "committed"
                 THEN [state |-> "superseded", due |-> FALSE] ELSE row[s]]
    /\ UNCHANGED <<inventory, total, paused, job, envelope, acked, object, request, cron>>

-----------------------------------------------------------------------------
(* The scheduled job.                                                      *)

\* cleanup_after passes.  No request outlives the hour of a temporary row.
Expire(s) ==
    /\ row[s].state \in {"temporary", "superseded"} /\ ~row[s].due
    /\ ~InFlight(s)
    /\ row' = [row EXCEPT ![s].due = TRUE]
    /\ UNCHANGED <<vault, inventory, total, paused, job, envelope, acked, object, request, cron>>

CronRuns == cron.pc = "idle" /\ ~paused
CronMoves(pc, of, count) == cron' = [pc |-> pc, of |-> of, count |-> count]
CronEnds == cron' = CronIdle

\* The cleanup forgets orphans and rows an earlier pass had claimed.
Collectable_Mistake(s) == row[s].state \in {"temporary", "superseded"} /\ row[s].due

Collectable(s) == row[s].state \in {"temporary", "orphaned", "superseded", "deleting"}
                  /\ row[s].due

\* cleanupSnapshots claims the rows that are due...
Claim ==
    LET due == {s \in Snapshots : Collectable(s)} IN
    /\ CronRuns /\ due # {}
    /\ row' = [s \in Snapshots |-> IF s \in due THEN [row[s] EXCEPT !.state = "deleting"]
                                  ELSE row[s]]
    /\ CronMoves("claimed", due, 0)
    /\ UNCHANGED <<vault, inventory, total, paused, job, envelope, acked, object, request>>

\* ...deletes their objects...
CollectObjects ==
    /\ cron.pc = "claimed"
    /\ object' = object \ cron.of
    /\ CronMoves("deleted", cron.of, 0)
    /\ UNCHANGED <<database, envelope, acked, request>>

\* ...takes them off the inventory...
CollectInventory ==
    /\ cron.pc = "deleted"
    /\ Released(cron.of \cap Snapshots)
    /\ CronMoves("released", cron.of, 0)
    /\ UNCHANGED <<vault, row, paused, job, envelope, acked, object, request>>

\* ...and deletes the rows that are still claimed.
CollectRows ==
    /\ cron.pc = "released"
    /\ row' = [s \in Snapshots |->
                 IF s \in cron.of /\ row[s].state = "deleting" THEN NoRow ELSE row[s]]
    /\ CronEnds
    /\ UNCHANGED <<vault, inventory, total, paused, job, envelope, acked, object, request>>

\* An R2 or D1 call of the job fails, or the Worker stops.
CronStops ==
    /\ cron.pc # "idle"
    /\ CronEnds
    /\ job' = [v \in Vaults |-> IF v \in cron.of /\ job[v] = "deleting_r2"
                                THEN "failed" ELSE job[v]]
    /\ UNCHANGED <<vault, row, inventory, total, paused, envelope, acked, object, request>>

\* reconcileR2InventoryPage lists the bucket...
ListBucket ==
    /\ "reconciliation" \in Phases /\ CronRuns /\ object # {}
    /\ CronMoves("page", object, 0)
    /\ UNCHANGED <<database, envelope, acked, object, request>>

\* ...and pauses the service over an object without an inventory row.
CompareInventory ==
    /\ cron.pc = "page"
    /\ paused' = (cron.of \cap Snapshots \subseteq Inventoried => paused)
    /\ CronEnds
    /\ UNCHANGED <<vault, row, inventory, total, job, envelope, acked, object, request>>

-----------------------------------------------------------------------------
(* The deletion of a vault (deletion.ts).                                  *)

DeleteVault(v) ==
    /\ "deletion" \in Phases /\ vault[v].status = "active" /\ job[v] = "none" /\ ~paused
    /\ vault' = [vault EXCEPT ![v].status = "deleting"]
    /\ job' = [job EXCEPT ![v] = "pending"]
    /\ UNCHANGED <<row, inventory, total, paused, envelope, acked, object, request, cron>>

\* resumeVaultDeletion lists the objects of the vault...
ResumeDeletion(v) ==
    /\ CronRuns /\ job[v] \in {"pending", "deleting_r2", "failed"}
    /\ job' = [job EXCEPT ![v] = "deleting_r2"]
    /\ CronMoves("wipe", {v} \cup (object \cap OfVault(v)), 0)
    /\ UNCHANGED <<vault, row, inventory, total, paused, envelope, acked, object, request>>

\* ...deletes the ones it listed...
WipeObjects ==
    /\ cron.pc = "wipe"
    /\ object' = object \ cron.of
    /\ CronMoves("emptied", cron.of \cap Vaults, 0)
    /\ UNCHANGED <<database, envelope, acked, request>>

\* ...releaseVaultR2Inventory reads the total of the vault...
CountVault ==
    /\ cron.pc = "emptied"
    /\ \E v \in cron.of : CronMoves("counted", {v}, VaultObjects(v))
    /\ UNCHANGED <<database, envelope, acked, object, request>>

\* ...and subtracts what it read from the global one.
ReleaseVault ==
    /\ cron.pc = "counted"
    /\ \E v \in cron.of :
         inventory' = [s \in Snapshots |-> IF VaultOf[s] = v THEN "none" ELSE inventory[s]]
    /\ total' = Less(cron.count)
    /\ CronMoves("erase", cron.of, 0)
    /\ UNCHANGED <<vault, row, paused, job, envelope, acked, object, request>>

\* DELETE FROM vaults cascades to every row of the vault; the job remains as
\* a tombstone.
EraseVault ==
    /\ cron.pc = "erase"
    /\ \E v \in cron.of :
         /\ vault' = [vault EXCEPT ![v] = [@ EXCEPT !.status = "gone", !.current = None]]
         /\ row' = [s \in Snapshots |-> IF VaultOf[s] = v THEN NoRow ELSE row[s]]
         /\ inventory' = [s \in Snapshots |-> IF VaultOf[s] = v THEN "none" ELSE inventory[s]]
         /\ job' = [job EXCEPT ![v] = "completed"]
    /\ CronEnds
    /\ UNCHANGED <<total, paused, envelope, acked, object, request>>

\* A deletion request not running is dropped a day after it was made.
ForgetJob(v) ==
    /\ CronRuns /\ job[v] \in {"pending", "failed", "completed"}
    /\ job' = [job EXCEPT ![v] = "none"]
    /\ UNCHANGED <<vault, row, inventory, total, paused, envelope, acked, object, request, cron>>

-----------------------------------------------------------------------------
CronStep ==
    \/ Claim \/ CollectObjects \/ CollectInventory \/ CollectRows \/ CronStops
    \/ ListBucket \/ CompareInventory
    \/ \E v \in Vaults : ResumeDeletion(v) \/ ForgetJob(v)
    \/ WipeObjects \/ CountVault \/ ReleaseVault \/ EraseVault

Next ==
    \/ \E s \in Snapshots : Prepare(s) \/ Acknowledge(s) \/ Expire(s)
    \/ \E r \in Requests, s \in Snapshots : Begin(r, s)
    \/ \E r \in Requests : RequestStep(r)
    \/ \E v \in Vaults : Rotate(v) \/ Recover(v) \/ DeleteVault(v)
    \/ CronStep

Spec == Init /\ [][Next]_vars

\* A request ends, an upload is not delivered for ever, time passes, and the
\* job comes round and goes on; its calls may fail, but not for ever, and no
\* other phase keeps the cleanup from its turn.
Fairness ==
    /\ \A r \in Requests : WF_vars(RequestStep(r))
    /\ \A s \in Snapshots : SF_vars(Expire(s))
    /\ SF_vars(Claim) /\ SF_vars(CollectObjects) /\ SF_vars(CollectInventory)
    /\ SF_vars(CollectRows) /\ WF_vars(CronStep)

FairSpec == Spec /\ Fairness

-----------------------------------------------------------------------------
(* Properties.                                                             *)

\* The global object count is the number of inventory rows while no vault is
\* being deleted: uploads delivered twice, failing and cleaned up at the same
\* time neither lose nor double a reservation (budget.ts).
TotalIsExact ==
    (\A v \in Vaults : vault[v].status = "active") => total = Cardinality(Inventoried)

\* A committed row is the current snapshot of its vault, so a vault has at
\* most one: a lost commit, a rotation or a recovery leaves none behind.
CommittedIsCurrent ==
    \A s \in Snapshots : row[s].state = "committed" => vault[VaultOf[s]].current = s

\* What a reader of the vaults sees is a chain of snapshots, each made upon the
\* one it replaces, one revision later and in the vault's epoch, which only a
\* recovery restarts: uploads that race, repeat, fail half-way or meet a
\* rotation implement SnapshotChain (the previous snapshot is compared only
\* when an upload is loaded; its commit compares epoch and revision).
Chain ==
    INSTANCE SnapshotChain WITH
        made <- envelope,
        head <- [v \in Vaults |-> vault[v].current],
        revision <- [v \in Vaults |-> vault[v].revision],
        epoch <- [v \in Vaults |-> vault[v].epoch],
        open <- [v \in Vaults |-> vault[v].status = "active"]

ImplementsChain == Chain!Spec

\* Within a key epoch no snapshot is replaced before every active device has
\* acknowledged it, however many uploads race.
ReplacedWereAcked ==
    [][\A v \in Vaults :
         /\ vault[v].current # None /\ vault'[v].current \in Snapshots \ {vault[v].current}
         /\ envelope[vault[v].current].epoch = vault[v].epoch
         => vault[v].current \in acked]_vars

\* A row that holds a revision without being the current snapshot gives it
\* back: until then every other device's upload of that revision is refused
\* with SNAPSHOT_STATE_CHANGED.  A paused service does not clean up.
SlotsComeBack ==
    \A s \in Snapshots :
        row[s].state \in {"temporary", "orphaned", "deleting"}
          ~> (row[s].state \in {"none", "committed", "superseded"} \/ paused)

=============================================================================
