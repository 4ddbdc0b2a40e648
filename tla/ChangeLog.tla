----------------------------- MODULE ChangeLog -----------------------------
(***************************************************************************)
(* The operation log the service keeps for one vault                       *)
(* (src/services/sync-worker/src/operations.ts): the rows of sync_changes, *)
(* the acknowledgements that let it compact them, the cleanup that deletes *)
(* them, and the revision gate of the current snapshot                     *)
(* (src/services/sync-worker/src/snapshots.ts).                            *)
(*                                                                         *)
(* A handler is a sequence of D1 statements, and each statement is one     *)
(* action: another request may run between two statements of the same      *)
(* handler.  What a request read earlier is kept in `upload`, `ackRequest` *)
(* and `snapRequest`.  A device may have several requests in flight: two   *)
(* tabs share one outbox, and a client that timed out sends again.         *)
(* Reads that only refuse a request are taken together, at the last one.   *)
(*                                                                         *)
(* A definition X_Mistake is a variant of X with a plausible mistake; the  *)
(* specification never uses it.  It shows that a property can fail.        *)
(***************************************************************************)
EXTENDS Integers, Sequences, FiniteSets, FiniteSetsExt

CONSTANTS
    Devices,      \* devices that are, or may come to be, in the vault
    Founders,     \* the devices of the vault when its first snapshot is committed
    Tabs,         \* requests of one kind a device may have in flight
    None,         \* no request, or no acknowledgement
    Quota,        \* STAGING_BUDGETS.perVaultResources.uncompactedOperations
    MaxOps,       \* bound: operations ever stored
    MaxInFlight,  \* bound: requests between two statements at any time
    MaxRevision,  \* bound: snapshot revisions
    MaxChanges    \* bound: devices joining, leaving, lapsing and returning

ASSUME LogAssumption ==
    /\ Founders \subseteq Devices /\ IsFiniteSet(Devices) /\ Founders # {}
    /\ Tabs # {}
    /\ Quota \in Nat \ {0} /\ MaxOps \in Nat /\ MaxRevision \in Nat
    /\ MaxInFlight \in Nat /\ MaxChanges \in Nat

VARIABLES
    \* D1
    issued,       \* every operation ever inserted, by server_cursor (AUTOINCREMENT)
    compacted,    \* cursors with compacted_at set
    expired,      \* compacted cursors whose cleanup_after has passed
    gone,         \* cursors whose row cleanup has deleted
    status,       \* devices and device_grants
    ack,          \* device_acknowledgements
    epoch,        \* vaults.current_key_epoch
    snapshot,     \* vaults.current_snapshot_revision, the key epoch of that
                  \* snapshot and the cursor its encrypted content goes up to
    \* requests between two statements
    upload, ackRequest, snapRequest,
    \* the devices
    sent,         \* last device sequence the device knows is accepted
    known,        \* syncMetadata.lastServerCursor
    holds,        \* cursors of the operations its data includes
    revision,     \* syncMetadata.lastSnapshotRevision
    \* bookkeeping
    late,         \* what was compacted, or about to be, when the device came
                  \* (history variable)
    changes       \* membership changes so far, for the bound

d1 == <<issued, compacted, expired, gone, status, ack, epoch, snapshot>>
requests == <<upload, ackRequest, snapRequest>>
clients == <<sent, known, holds, revision>>
vars == <<d1, requests, clients, late, changes>>

Cursors == 1..Len(issued)
Rows == Cursors \ gone
MaxCursor == Max({0} \cup Rows)

Operations == [dev : Devices, seq : Nat]
Acks == [cursor : Nat, rev : Nat]
AckRequests == [step : {"write", "frontier", "compact"}, cursor : Nat, rev : Nat]
SnapRequests == [rev : Nat, covers : Nat, epoch : Nat]

Active(d) == status[d] = "active"
\* A grant within its grace counts for compaction; any device not revoked
\* counts for the snapshot gate.
Counted == {d \in Devices : status[d] = "active"}
Members == {d \in Devices : status[d] \in {"active", "lapsed"}}

Uploading == {x \in Devices \X Tabs : upload[x[1]][x[2]] # None}
Acknowledging == {x \in Devices \X Tabs : ackRequest[x[1]][x[2]] # None}
Snapshotting == {d \in Devices : snapRequest[d] # None}
InFlight ==
    Cardinality(Uploading) + Cardinality(Acknowledging) + Cardinality(Snapshotting)
Admits == InFlight < MaxInFlight

-----------------------------------------------------------------------------
(* handleUploadOperation.                                                  *)

Stored(op) == {c \in Rows : issued[c] = op}

LastSequence(d) ==
    Max({0} \cup {issued[c].seq : c \in {k \in Rows : issued[k].dev = d}})

NextOp(d) == [dev |-> d, seq |-> sent[d] + 1]

\* findExistingChange finds nothing, and the reads of the vault row pass.
UploadCheck(d, t) ==
    /\ Active(d) /\ Admits /\ upload[d][t] = None
    /\ Len(issued) < MaxOps
    /\ Stored(NextOp(d)) = {}
    /\ NextOp(d).seq = LastSequence(d) + 1
    /\ Cardinality(Rows) < Quota
    /\ upload' = [upload EXCEPT ![d][t] = NextOp(d)]
    /\ UNCHANGED <<d1, ackRequest, snapRequest, clients, late, changes>>

\* The device learns that the operation it is sending is stored at cursor c.
Answered(d, op, c) ==
    IF op = NextOp(d)
    THEN /\ sent' = [sent EXCEPT ![d] = op.seq]
         /\ holds' = [holds EXCEPT ![d] = @ \cup {c}]
         /\ UNCHANGED <<known, revision>>
    ELSE UNCHANGED clients

\* findExistingChange finds the operation: exactRetryResponse.
UploadRetry(d) ==
    /\ Active(d)
    /\ \E c \in Stored(NextOp(d)) : Answered(d, NextOp(d), c)
    /\ UNCHANGED <<d1, requests, late, changes>>

\* The UNIQUE constraints let the INSERT through only once; the row they
\* refuse is found again and answered as a retry.
InsertRefused_NoConstraint(op) == FALSE
InsertRefused(op) == Stored(op) # {}

\* A row takes the cursor after the last one ever used, not the last one left.
UploadInsert(d, t) ==
    LET op == upload[d][t]
    IN  /\ op # None
        /\ upload' = [upload EXCEPT ![d][t] = None]
        /\ issued' = IF InsertRefused(op) THEN issued ELSE Append(issued, op)
        /\ \E c \in IF InsertRefused(op) THEN Stored(op) ELSE {Len(issued) + 1} :
              Answered(d, op, c) \/ UNCHANGED clients
        /\ UNCHANGED <<compacted, expired, gone, status, ack, epoch, snapshot,
                       ackRequest, snapRequest, late, changes>>

-----------------------------------------------------------------------------
(* handleGetChanges, and the device staging and applying what it returns.  *)

\* A cycle pulls once every operation it sent is answered.
Drained(d) == Stored(NextOp(d)) = {} /\ \A t \in Tabs : upload[d][t] # NextOp(d)

Pull(d) ==
    /\ Active(d) /\ Drained(d) /\ \E c \in Rows : c > known[d]
    /\ known' = [known EXCEPT ![d] = MaxCursor]
    /\ holds' = [holds EXCEPT ![d] = @ \cup {c \in Rows : c > known[d]}]
    /\ UNCHANGED <<d1, requests, sent, revision, late, changes>>

-----------------------------------------------------------------------------
(* handleAcknowledgeChanges: four statements.                              *)

\* The cursor and the snapshot are those of the vault row.
AckCheck(d, t) ==
    /\ Active(d) /\ Admits /\ ackRequest[d][t] = None
    /\ known[d] <= MaxCursor /\ revision[d] = snapshot.rev
    /\ ackRequest' = [ackRequest EXCEPT ![d][t] =
                         [step |-> "write", cursor |-> known[d], rev |-> revision[d]]]
    /\ UNCHANGED <<d1, upload, snapRequest, clients, late, changes>>

At(d, t, step) == ackRequest[d][t] # None /\ ackRequest[d][t].step = step
EndAck(d, t) == ackRequest' = [ackRequest EXCEPT ![d][t] = None]

\* The upsert moves the acknowledgement forwards only.
AckMoves(d, cursor) == ack[d] = None \/ cursor >= ack[d].cursor

AckWrite(d, t) ==
    LET req == ackRequest[d][t]
    IN  /\ At(d, t, "write")
        /\ IF AckMoves(d, req.cursor)
           THEN /\ ack' = [ack EXCEPT ![d] = [cursor |-> req.cursor, rev |-> req.rev]]
                /\ ackRequest' = [ackRequest EXCEPT ![d][t].step = "frontier"]
           ELSE EndAck(d, t) /\ UNCHANGED ack
        /\ UNCHANGED <<issued, compacted, expired, gone, status, epoch, snapshot,
                       upload, snapRequest, clients, late, changes>>

\* The devices that acknowledged the snapshot the request was checked against.
Acknowledged(rev) == {d \in Counted : ack[d] # None /\ ack[d].rev = rev}

\* Every active device has: the minimum of their cursors may be compacted.
Frontier_OfAcknowledged(rev) ==
    IF Acknowledged(rev) # {}
    THEN {Min({ack[d].cursor : d \in Acknowledged(rev)})} ELSE {}
Frontier(rev) ==
    IF Counted # {} /\ Acknowledged(rev) = Counted
    THEN {Min({ack[d].cursor : d \in Counted})} ELSE {}

AckFrontier(d, t) ==
    LET req == ackRequest[d][t]
    IN  /\ At(d, t, "frontier")
        /\ IF Frontier(req.rev) = {} THEN EndAck(d, t)
           ELSE \E min \in Frontier(req.rev) :
                   ackRequest' = [ackRequest EXCEPT
                                    ![d][t] = [req EXCEPT !.step = "compact", !.cursor = min]]
        /\ UNCHANGED <<d1, upload, snapRequest, clients, late, changes>>

AckCompact(d, t) ==
    /\ At(d, t, "compact")
    /\ compacted' = compacted \cup {c \in Rows : c <= ackRequest[d][t].cursor}
    /\ EndAck(d, t)
    /\ UNCHANGED <<issued, expired, gone, status, ack, epoch, snapshot,
                   upload, snapRequest, clients, late, changes>>

\* A Worker stops, or D1 fails, between two statements of a request.
RequestDies(d, t) ==
    /\ \/ upload[d][t] # None /\ upload' = [upload EXCEPT ![d][t] = None]
          /\ UNCHANGED ackRequest
       \/ ackRequest[d][t] # None /\ EndAck(d, t) /\ UNCHANGED upload
    /\ UNCHANGED <<d1, snapRequest, clients, late, changes>>

\* What requests in flight have already decided to compact.
Doomed == compacted \cup
    {c \in Cursors : \E d \in Devices, t \in Tabs :
                        At(d, t, "compact") /\ c <= ackRequest[d][t].cursor}

-----------------------------------------------------------------------------
(* The scheduled cleanup.                                                  *)

Idle == Uploading = {} /\ Acknowledging = {} /\ Snapshotting = {}

\* CHANGE_RETENTION_AFTER_COMPACTION_MS pass: seven days, which no request
\* outlives.
RetentionPasses ==
    /\ Idle /\ expired # compacted
    /\ expired' = compacted
    /\ UNCHANGED <<issued, compacted, gone, status, ack, epoch, snapshot,
                   requests, clients, late, changes>>

Deletable == expired \ gone

\* One of the rows of a cleanup batch: ORDER BY cleanup_after, server_cursor.
Cleanup ==
    /\ \E c \in Deletable : /\ \A k \in Deletable : c <= k
                            /\ gone' = gone \cup {c}
    /\ UNCHANGED <<issued, compacted, expired, status, ack, epoch, snapshot,
                   requests, clients, late, changes>>

-----------------------------------------------------------------------------
(* handleUploadSnapshot, without its R2 object.                            *)

\* requireCurrentSnapshotAcknowledged: only the snapshot that replaces one of
\* an older key epoch need not wait for every member.
SnapshotAcknowledged_ByOne ==
    \E d \in Members : ack[d] # None /\ ack[d].rev = snapshot.rev
SnapshotAcknowledged ==
    snapshot.epoch = epoch =>
       \A d \in Members : ack[d] # None /\ ack[d].rev = snapshot.rev

\* The device's snapshot goes up to the cursor it has applied.
SnapshotCheck(d) ==
    /\ Active(d) /\ Admits /\ snapRequest[d] = None /\ snapshot.rev < MaxRevision
    /\ revision[d] = snapshot.rev /\ SnapshotAcknowledged
    /\ snapRequest' = [snapRequest EXCEPT ![d] =
                          [rev |-> revision[d] + 1, covers |-> known[d], epoch |-> epoch]]
    /\ UNCHANGED <<d1, upload, ackRequest, clients, late, changes>>

\* The commit batch compares the base revision and the key epoch with the vault
\* row again.
CommitCurrent(d) ==
    snapRequest[d].rev = snapshot.rev + 1 /\ snapRequest[d].epoch = epoch

SnapshotCommit(d) ==
    /\ snapRequest[d] # None
    /\ snapRequest' = [snapRequest EXCEPT ![d] = None]
    /\ IF CommitCurrent(d)
       THEN /\ snapshot' = snapRequest[d]
            /\ revision' = [revision EXCEPT ![d] = snapRequest[d].rev]
       ELSE UNCHANGED <<snapshot, revision>>
    /\ UNCHANGED <<issued, compacted, expired, gone, status, ack, epoch, upload,
                   ackRequest, sent, known, holds, late, changes>>

\* acceptCompactionSnapshot: the next revision, covering nothing unseen.
SnapshotAccept(d) ==
    /\ Active(d) /\ snapshot.rev = revision[d] + 1 /\ snapshot.covers <= known[d]
    /\ revision' = [revision EXCEPT ![d] = snapshot.rev]
    /\ UNCHANGED <<d1, requests, sent, known, holds, late, changes>>

-----------------------------------------------------------------------------
(* Membership, as far as the log depends on it.                            *)

Change(d, from, to) ==
    /\ changes < MaxChanges /\ changes' = changes + 1
    /\ status[d] = from /\ status' = [status EXCEPT ![d] = to]
    /\ UNCHANGED <<issued, compacted, expired, gone, ack, snapshot, requests>>

\* A paired device bootstraps from the current snapshot and pulls from there.
Join(d) ==
    /\ Change(d, "outside", "active")
    /\ known' = [known EXCEPT ![d] = snapshot.covers]
    /\ holds' = [holds EXCEPT ![d] = 1..snapshot.covers]
    /\ revision' = [revision EXCEPT ![d] = snapshot.rev]
    /\ late' = [late EXCEPT ![d] = Doomed]
    /\ UNCHANGED <<sent, epoch>>

\* Another device with nothing left to send revokes d, which starts a new key
\* epoch.  Requests of d that passed authentication run on.
Revoke(d) ==
    /\ \E from \in {"active", "lapsed"} : Change(d, from, "revoked")
    /\ \E by \in Counted \ {d} : Drained(by)
    /\ epoch' = epoch + 1
    /\ UNCHANGED <<clients, late>>

\* The grant expired longer than EXPIRED_DEVICE_ACK_GRACE_MS ago.
Lapse(d) ==
    /\ Change(d, "active", "lapsed") /\ Idle /\ Counted # {d}
    /\ UNCHANGED <<epoch, clients, late>>

\* Another device renews the grant: handleRenewDevice.
Renew(d) ==
    /\ Change(d, "lapsed", "active")
    /\ late' = [late EXCEPT ![d] = @ \cup Doomed]
    /\ UNCHANGED <<epoch, clients>>

-----------------------------------------------------------------------------
Init ==
    /\ issued = <<>> /\ compacted = {} /\ expired = {} /\ gone = {}
    /\ status = [d \in Devices |-> IF d \in Founders THEN "active" ELSE "outside"]
    /\ ack = [d \in Devices |-> None]
    /\ epoch = 1
    /\ snapshot = [rev |-> 1, covers |-> 0, epoch |-> 1]
    /\ upload = [d \in Devices |-> [t \in Tabs |-> None]]
    /\ ackRequest = [d \in Devices |-> [t \in Tabs |-> None]]
    /\ snapRequest = [d \in Devices |-> None]
    /\ sent = [d \in Devices |-> 0]
    /\ known = [d \in Devices |-> 0]
    /\ holds = [d \in Devices |-> {}]
    /\ revision = [d \in Devices |-> IF d \in Founders THEN 1 ELSE 0]
    /\ late = [d \in Devices |-> {}]
    /\ changes = 0

RequestStep(d, t) ==
    \/ UploadCheck(d, t)
    \/ UploadInsert(d, t)
    \/ AckCheck(d, t)
    \/ AckWrite(d, t)
    \/ AckFrontier(d, t)
    \/ AckCompact(d, t)
    \/ RequestDies(d, t)

DeviceStep(d) ==
    \/ UploadRetry(d)
    \/ Pull(d)
    \/ SnapshotCheck(d)
    \/ SnapshotCommit(d)
    \/ SnapshotAccept(d)

MemberStep(d) ==
    \/ Join(d)
    \/ Revoke(d)
    \/ Lapse(d)
    \/ Renew(d)

Next ==
    \/ \E d \in Devices, t \in Tabs : RequestStep(d, t)
    \/ \E d \in Devices : DeviceStep(d) \/ MemberStep(d)
    \/ RetentionPasses
    \/ Cleanup

Spec == Init /\ [][Next]_vars

-----------------------------------------------------------------------------
(* Properties.                                                             *)

\* Every variable has its type; compaction and deletion follow one another.
TypeOK ==
    /\ issued \in Seq(Operations)
    /\ gone \subseteq expired /\ expired \subseteq compacted /\ compacted \subseteq Cursors
    /\ status \in [Devices -> {"outside", "active", "lapsed", "revoked"}]
    /\ ack \in [Devices -> Acks \cup {None}]
    /\ epoch \in Nat /\ snapshot \in SnapRequests /\ snapshot.epoch <= epoch
    /\ upload \in [Devices -> [Tabs -> Operations \cup {None}]]
    /\ ackRequest \in [Devices -> [Tabs -> AckRequests \cup {None}]]
    /\ snapRequest \in [Devices -> SnapRequests \cup {None}]
    /\ sent \in [Devices -> Nat]
    /\ known \in [Devices -> 0..Len(issued)]
    /\ holds \in [Devices -> SUBSET Cursors]
    /\ revision \in [Devices -> Nat]
    /\ late \in [Devices -> SUBSET Cursors]
    /\ changes \in 0..MaxChanges

\* However requests of two tabs and retries interleave, and even after rows
\* were deleted, no operation is stored under two cursors, and the operations
\* of a device are stored in sequence: receivers check that chain.  Except what
\* was compacted while the device's grant had lapsed: an answer it never got
\* makes it store the operation again when it comes back.
StoredOnceInOrder ==
    \A c, k \in Cursors :
       /\ issued[c].dev = issued[k].dev /\ c < k
       /\ c \notin late[issued[c].dev]
       => issued[c].seq < issued[k].seq

\* A row is deleted only when every active device has the operation, except
\* what was compacted, or about to be, before the device came or came back.
DeletedWereRead == \A d \in Counted : gone \subseteq holds[d] \cup late[d]

\* The revision gate holds whatever commits, acknowledgements and membership
\* changes interleave: each key epoch lets a member that still owes an
\* acknowledgement fall at most one more revision behind.
RevisionGapBounded == \A d \in Members : revision[d] >= snapshot.rev - snapshot.epoch

=============================================================================
