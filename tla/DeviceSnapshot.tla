--------------------------- MODULE DeviceSnapshot ---------------------------
(***************************************************************************)
(* Snapshots on the device: what one is made from, how a device that       *)
(* pairs is bootstrapped from one, and how the others accept the snapshot  *)
(* that compacts operations they already hold                              *)
(* (src/src/features/sync/snapshot-service.ts, continuous-service.ts,      *)
(* src/src/db/sync/snapshot-repository.ts).                                *)
(*                                                                         *)
(* The cycle is the one of ContinuousSyncService: bootstrap if there is    *)
(* no revision yet, operations, snapshot, acknowledgement.  OperationSync  *)
(* models what two devices do to one entity; here an entity is edited by   *)
(* its owner only, so no operation conflicts with another, and preparing,  *)
(* sending and recording an operation is one step, as are pulling and      *)
(* applying.  SnapshotStore models the service's side of an upload; here   *)
(* it is one step.                                                         *)
(*                                                                         *)
(* A definition X_Y (BootCursor_Late for BootCursor) is a plausible        *)
(* mistake in X; the specification never uses it.                          *)
(*                                                                         *)
(* A value is the number of times its entity was edited (0: not created).  *)
(* A revision stands for the id and the hash of the snapshot that has it.  *)
(***************************************************************************)
EXTENDS Integers, Sequences, SequencesExt, FiniteSets

CONSTANTS
    Devices, Creator,  \* the device that created the vault
    Entities, Owner,   \* the device that edits each entity
    Initially,         \* the entities its finance tables hold at creation
    None,
    MaxEdits, MaxSnapshots, MaxRotations   \* bounds

Modes == {"creator-upload", "paired-download", "complete"}
Blocks == {"local-remote-conflict", "fork-detected", "integrity-failure"}

ASSUME DeviceSnapshotAssumption ==
    /\ Creator \in Devices /\ Owner \in [Entities -> Devices]
    /\ Initially \subseteq Entities /\ Initially # {}
    /\ {MaxEdits, MaxSnapshots, MaxRotations} \subseteq Nat
    /\ None \notin Modes \cup Blocks

VARIABLES
    \* the service
    log,       \* accepted operations, by server cursor
    snaps,     \* committed snapshots, by revision; the last one is current
    acked,     \* device_acknowledgements: acknowledged_snapshot_revision
    active,    \* devices of the current manifest
    epoch,     \* the vault's key epoch
    \* each device's IndexedDB
    mode,      \* syncMetadata.bootstrapMode; None before it has a setup
    rev,       \* lastSnapshotRevision
    pin,       \* the snapshot its pairing was pinned to; 0 for none
    block,     \* syncBlockReason
    cursor,    \* lastServerCursor
    owes,      \* pendingKeyRotationSnapshotEpoch
    era,       \* its vault.keyEpoch
    table,     \* finance tables
    st,        \* syncEntityStates
    front,     \* syncFrontier: last sequence known of each device
    inbox,     \* server cursors of the rows of syncInbox
    outbox,    \* intents not prepared yet
    conflict,  \* is a record of syncConflicts pending?
    \* its running cycle, lost when the page closes
    at,        \* its phase
    shot,      \* what the snapshot being uploaded was made from
    \* bookkeeping
    spent,     \* edits and rotations, for the bounds
    unaudited  \* <<d, e>>: edited after the data of d's first snapshot was
               \* read and before d recorded it (history variable)

service == <<log, snaps, acked, active, epoch>>
metadata == <<mode, rev, pin, block, cursor, owes, era>>
stores == <<table, st, front, inbox, outbox, conflict>>
cycle == <<at, shot>>
vars == <<service, metadata, stores, cycle, spent, unaudited>>

Phases == {"idle", "bootstrap", "operations", "snapshot", "send",
           "store", "acknowledge"}

\* What an entity state says: the version, the value its hash covers, and the
\* operation that made it, as <<device, sequence>>.
Live(ver, val, last) == [ver |-> ver, val |-> val, last |-> last]
Absent == Live(0, 0, None)
Same(s, t) == s.ver = t.ver /\ s.val = t.val

\* createBaselineSnapshotEntityStates, stateFromValue: version 1 of a value
\* that has no stored state.
Known(stored, val) ==
    IF stored = Absent /\ val # 0 THEN Live(1, val, None) ELSE stored

Init ==
    /\ log = <<>> /\ snaps = <<>> /\ acked = [d \in Devices |-> 0]
    /\ active = {Creator} /\ epoch = 1
    /\ mode = [d \in Devices |-> IF d = Creator THEN "creator-upload" ELSE None]
    /\ rev = [d \in Devices |-> 0] /\ pin = rev /\ cursor = rev /\ owes = rev
    /\ block = [d \in Devices |-> None]
    /\ era = [d \in Devices |-> 1]
    /\ table = [d \in Devices |-> [e \in Entities |->
                  IF d = Creator /\ e \in Initially THEN 1 ELSE 0]]
    /\ st = [d \in Devices |-> [e \in Entities |-> Absent]]
    /\ front = [d \in Devices |-> [x \in Devices |-> 0]]
    /\ inbox = [d \in Devices |-> {}]
    /\ outbox = [d \in Devices |-> <<>>]
    /\ conflict = [d \in Devices |-> FALSE]
    /\ at = [d \in Devices |-> "idle"]
    /\ shot = [d \in Devices |-> None]
    /\ spent = [edits |-> 0, rotations |-> 0]
    /\ unaudited = {}

Current == Len(snaps)
Go(d, phase) == at' = [at EXCEPT ![d] = phase]

-----------------------------------------------------------------------------
(* The user, and the other flows that touch a device's setup.              *)

\* loadAuditContext: no outbox intent is written before the bootstrap is done.
Audited(d) == mode[d] = "complete"

\* A finance command on one entity, and its intent, in one transaction.
Edit(d, e) ==
    /\ spent.edits < MaxEdits /\ mode[d] # None /\ Owner[e] = d
    /\ table' = [table EXCEPT ![d][e] = @ + 1]
    /\ outbox' = IF Audited(d)
                 THEN [outbox EXCEPT ![d] =
                         Append(@, [ent |-> e, prev |-> table[d][e],
                                    val |-> table[d][e] + 1])]
                 ELSE outbox
    /\ unaudited' = IF Audited(d) THEN unaudited ELSE unaudited \cup {<<d, e>>}
    /\ spent' = [spent EXCEPT !.edits = @ + 1]
    /\ UNCHANGED <<service, metadata, st, front, inbox, conflict, cycle>>

\* A device approves a newcomer: the approval names the snapshot both the
\* approver and the service hold as current.
Approve(a, d) ==
    /\ mode[d] = None /\ a \in active /\ rev[a] = Current
    /\ mode' = [mode EXCEPT ![d] = "paired-download"]
    /\ pin' = [pin EXCEPT ![d] = Current]
    /\ era' = [era EXCEPT ![d] = epoch]
    /\ UNCHANGED <<service, rev, block, cursor, owes, stores, cycle, spent,
                   unaudited>>

\* The newcomer finalizes: it is a device of the manifest from now on.
Join(d) ==
    /\ mode[d] # None /\ d \notin active
    /\ active' = active \cup {d}
    /\ UNCHANGED <<log, snaps, acked, epoch, metadata, stores, cycle, spent,
                   unaudited>>

\* A revocation: a new key epoch, whose snapshot the revoking device owes.
\* (The revoked device is one outside the model.)
Rotate(d) ==
    /\ d \in active /\ mode[d] = "complete" /\ at[d] = "idle" /\ block[d] = None
    /\ outbox[d] = <<>> /\ ~conflict[d] /\ owes[d] = 0 /\ era[d] = epoch
    /\ spent.rotations < MaxRotations
    /\ epoch' = epoch + 1
    /\ era' = [era EXCEPT ![d] = epoch + 1]
    /\ owes' = [owes EXCEPT ![d] = epoch + 1]
    /\ spent' = [spent EXCEPT !.rotations = @ + 1]
    /\ UNCHANGED <<log, snaps, acked, active, mode, rev, pin, block, cursor,
                   stores, cycle, unaudited>>

-----------------------------------------------------------------------------
(* The cycle: ContinuousSyncService.#synchronizeOnce.                      *)

\* A blocked device still exchanges operations, but never bootstraps.
\* reconcileKeyEpoch adopts the epoch of the current manifest.
Start(d) ==
    /\ d \in active /\ at[d] = "idle"
    /\ rev[d] = 0 => block[d] = None
    /\ era' = [era EXCEPT ![d] = epoch]
    /\ Go(d, IF rev[d] = 0 THEN "bootstrap" ELSE "operations")
    /\ UNCHANGED <<service, mode, rev, pin, block, cursor, owes, stores, shot,
                   spent, unaudited>>

\* prepareNextGroup: a live state must be the state the user edited.
Preparable(d, intent) ==
    LET known == Known(st[d][intent.ent], intent.prev)
    IN  known # Absent => intent.prev = known.val

PreparedOp(d, intent) ==
    LET known == Known(st[d][intent.ent], intent.prev) IN
    [dev |-> d, seq |-> front[d][d] + 1, ent |-> intent.ent,
     pre |-> known, causal |-> front[d],
     res |-> Live(known.ver + 1, intent.val, <<d, front[d][d] + 1>>)]

\* Prepare the oldest intent, send it, and record that it was accepted.
Upload(d) ==
    /\ at[d] = "operations" /\ outbox[d] # <<>> /\ Preparable(d, Head(outbox[d]))
    /\ LET op == PreparedOp(d, Head(outbox[d])) IN
       /\ log' = Append(log, op)
       /\ st' = [st EXCEPT ![d][op.ent] = op.res]
       /\ front' = [front EXCEPT ![d][d] = op.seq]
       /\ inbox' = [inbox EXCEPT ![d] = @ \cup {Len(log) + 1}]
    /\ outbox' = [outbox EXCEPT ![d] = Tail(@)]
    /\ UNCHANGED <<snaps, acked, active, epoch, metadata, table, conflict, cycle,
                   spent, unaudited>>

\* stageRemoteOperations: the predecessor and the causal frontier of an
\* operation must be proved by the local frontier or by an inbox row before it.
Proves(d, x, n, c) ==
    \/ front[d][x] = n
    \/ \E k \in inbox[d] \cup ((cursor[d] + 1)..(c - 1)) :
          k < c /\ log[k].dev = x /\ log[k].seq = n

Unread(d) == {c \in (cursor[d] + 1)..Len(log) : c \notin inbox[d]}

Stageable(d) ==
    \A c \in Unread(d) :
       /\ log[c].seq > 1 => Proves(d, log[c].dev, log[c].seq - 1, c)
       /\ \A x \in Devices : log[c].causal[x] > 0 => Proves(d, x, log[c].causal[x], c)

\* applyRemoteGroup, for a group of one operation.
Apply(store, op) ==
    LET known == Known(store.st[op.ent], store.table[op.ent])
        fits  == Same(op.pre, known) \/ Same(op.res, known)
    IN  [table    |-> IF fits THEN [store.table EXCEPT ![op.ent] = op.res.val]
                      ELSE store.table,
         st       |-> IF fits THEN [store.st EXCEPT ![op.ent] = op.res] ELSE store.st,
         front    |-> [store.front EXCEPT ![op.dev] = op.seq],
         conflict |-> store.conflict \/ ~fits]

\* The stores once the unread operations up to each cursor are applied.
Applied(d) ==
    LET after[c \in cursor[d]..Len(log)] ==
          IF c = cursor[d]
          THEN [table |-> table[d], st |-> st[d], front |-> front[d],
                conflict |-> conflict[d]]
          ELSE IF c \in inbox[d] THEN after[c - 1]
          ELSE Apply(after[c - 1], log[c])
    IN  after

\* Pull and apply everything, and advance the acknowledged cursor; a pending
\* conflict ends the cycle.
Pull(d) ==
    LET after == Applied(d)[Len(log)]
    IN  /\ at[d] = "operations" /\ outbox[d] = <<>> /\ Stageable(d)
        /\ table' = [table EXCEPT ![d] = after.table]
        /\ st' = [st EXCEPT ![d] = after.st]
        /\ front' = [front EXCEPT ![d] = after.front]
        /\ conflict' = [conflict EXCEPT ![d] = after.conflict]
        /\ inbox' = [inbox EXCEPT ![d] = @ \cup Unread(d)]
        /\ cursor' = [cursor EXCEPT ![d] = Len(log)]
        /\ Go(d, IF after.conflict THEN "idle" ELSE "snapshot")
        /\ UNCHANGED <<service, mode, rev, pin, block, owes, era, outbox, shot, spent, unaudited>>

\* LocalOperationStateError: the cycle ends, and the next one meets it again.
OperationsFail(d) ==
    /\ at[d] = "operations"
    /\ IF outbox[d] # <<>> THEN ~Preparable(d, Head(outbox[d])) ELSE ~Stageable(d)
    /\ Go(d, "idle")
    /\ UNCHANGED <<service, metadata, stores, shot, spent, unaudited>>

-----------------------------------------------------------------------------
(* A snapshot that is newer than the device's: #acceptOrAdvance.           *)

\* The snapshot the pairing transcript named.
Pinned(d) == rev[d] = 0 /\ pin[d] # 0 /\ pin[d] = Current

\* acceptCompactionSnapshot: everything the snapshot covers is already here.
AppliedHere(d, x, n) == \E c \in inbox[d] : log[c].dev = x /\ log[c].seq = n

CoversFrontier(d, s) ==
    /\ s.cursor <= cursor[d]
    /\ \A x \in Devices : s.front[x] > 0 =>
          front[d][x] = s.front[x] \/ AppliedHere(d, x, s.front[x])

CoversStates(d, s) ==
    \A e \in Entities : s.st[e] # Absent =>
       /\ st[d][e] # Absent /\ st[d][e].ver >= s.st[e].ver
       /\ st[d][e].ver = s.st[e].ver => Same(st[d][e], s.st[e])
       /\ s.st[e].last # None => AppliedHere(d, s.st[e].last[1], s.st[e].last[2])

Acceptable_Anything(d, s) == ~conflict[d]
Acceptable(d, s) == ~conflict[d] /\ CoversFrontier(d, s) /\ CoversStates(d, s)

\* What #verifySnapshot and #acceptOrAdvance make of the current snapshot.
Verdict(d) ==
    IF ~Pinned(d) /\ Current # rev[d] + 1 THEN "fork-detected"
    ELSE IF Last(snaps).epoch # era[d] THEN "integrity-failure"
    ELSE IF Pinned(d) THEN "download"
    ELSE IF Acceptable(d, Last(snaps)) THEN "accept"
    ELSE "local-remote-conflict"

MeetsNewer(d) ==
    /\ at[d] \in {"bootstrap", "snapshot"} /\ block[d] = None
    /\ Current > rev[d]

\* A cycle that began without a revision goes on to the operations.
AfterSnapshot(d) == IF rev[d] = 0 THEN "operations" ELSE "acknowledge"

\* applyRemoteSnapshot: replace the finance tables, in one transaction, and
\* seed the frontier; the device audits its edits from now on.
Seeded(d, s) == [x \in Devices |-> IF front[d][x] = 0 THEN s.front[x] ELSE front[d][x]]
BootCursor_Late(s) == Len(log)
BootCursor(s) == s.cursor

Bootstrapped(d) ==
    LET s == Last(snaps) IN
    /\ MeetsNewer(d) /\ Verdict(d) = "download"
    /\ table' = [table EXCEPT ![d] = s.data]
    /\ st' = [st EXCEPT ![d] = s.st]
    /\ front' = [front EXCEPT ![d] = Seeded(d, s)]
    /\ mode' = [mode EXCEPT ![d] = "complete"]
    /\ rev' = [rev EXCEPT ![d] = Current]
    /\ cursor' = [cursor EXCEPT ![d] = BootCursor(s)]
    /\ owes' = [owes EXCEPT ![d] = 0]
    /\ unaudited' = unaudited \ ({d} \X Entities)
    /\ Go(d, AfterSnapshot(d))
    /\ UNCHANGED <<service, pin, block, era, inbox, outbox, conflict, shot,
                   spent>>

\* acceptCompactionSnapshot moves the pins only.
Accept(d) ==
    /\ MeetsNewer(d) /\ Verdict(d) = "accept"
    /\ rev' = [rev EXCEPT ![d] = Current]
    /\ cursor' = [cursor EXCEPT ![d] = Max({@, Last(snaps).cursor})]
    /\ owes' = [owes EXCEPT ![d] = 0]
    /\ Go(d, AfterSnapshot(d))
    /\ UNCHANGED <<service, mode, pin, block, era, stores, shot, spent,
                   unaudited>>

\* #block, or recordSnapshotConflict with its conflict record.
Block(d) ==
    /\ MeetsNewer(d) /\ Verdict(d) \in Blocks
    /\ block' = [block EXCEPT ![d] = Verdict(d)]
    /\ conflict' = [conflict EXCEPT ![d] = @ \/ Verdict(d) = "local-remote-conflict"]
    /\ Go(d, "idle")
    /\ UNCHANGED <<service, mode, rev, pin, cursor, owes, era, table, st, front,
                   inbox, outbox, shot, spent, unaudited>>

-----------------------------------------------------------------------------
(* A snapshot of the device's own: #upload.                                *)

\* The vault has no snapshot: its creator makes the first one, with consent.
MakesFirst(d) == at[d] = "bootstrap" /\ Current = 0 /\ mode[d] = "creator-upload"

\* The device holds the current one.  It compacts when it is asked to, when a
\* threshold is passed, or when it owes the snapshot of a new epoch.
HoldsCurrent(d) == at[d] = "snapshot" /\ block[d] = None /\ Current = rev[d]
Compacts(d) == Current < MaxSnapshots

\* A blocked device, or a newcomer without a snapshot to start from, stops.
Stop(d) ==
    /\ \/ at[d] = "snapshot" /\ block[d] # None
       \/ at[d] = "bootstrap" /\ Current = 0 /\ mode[d] = "paired-download"
    /\ Go(d, "idle")
    /\ UNCHANGED <<service, metadata, stores, shot, spent, unaudited>>

UpToDate(d) ==
    /\ HoldsCurrent(d) /\ (owes[d] # era[d] \/ ~Compacts(d))
    /\ Go(d, "acknowledge")
    /\ UNCHANGED <<service, metadata, stores, shot, spent, unaudited>>

CapturedStates_Fresh(d) == [e \in Entities |-> Known(Absent, table[d][e])]
CapturedStates(d) == [e \in Entities |-> Known(st[d][e], table[d][e])]

\* assertSnapshotEntityStateIntegrity: every state is the state of its value.
Coherent_Unchecked(d) == TRUE
Coherent(d) == \A e \in Entities : CapturedStates(d)[e].val = table[d][e]

\* Read the finance tables, the causal frontier and the entity states.
Capture(d) ==
    /\ \/ MakesFirst(d)
       \/ HoldsCurrent(d) /\ Compacts(d)
    /\ IF Coherent(d)
       THEN /\ shot' = [shot EXCEPT ![d] =
                          [data |-> table[d], st |-> CapturedStates(d),
                           front |-> front[d], cursor |-> cursor[d],
                           epoch |-> era[d], dev |-> d]]
            /\ Go(d, "send")
       ELSE shot' = shot /\ Go(d, "idle")
    /\ unaudited' = IF Audited(d) THEN unaudited ELSE unaudited \ ({d} \X Entities)
    /\ UNCHANGED <<service, metadata, stores, spent>>

\* handleUploadSnapshot: made upon the current revision and epoch, and every
\* active device acknowledged the current one, unless the epoch is new.
UponCurrent(d) == rev[d] = Current /\ era[d] = epoch
AllAcked ==
    Current = 0 \/ Last(snaps).epoch # epoch \/ \A x \in active : acked[x] = Current

Send(d) ==
    /\ at[d] = "send"
    /\ IF UponCurrent(d) /\ AllAcked
       THEN snaps' = Append(snaps, shot[d]) /\ shot' = shot /\ Go(d, "store")
       ELSE /\ snaps' = snaps /\ shot' = [shot EXCEPT ![d] = None]
            /\ Go(d, IF UponCurrent(d) THEN "acknowledge" ELSE "idle")
    /\ UNCHANGED <<log, acked, active, epoch, metadata, stores, spent, unaudited>>

\* commitLocalSnapshot: the answer arrived.
Store(d) ==
    /\ at[d] = "store"
    /\ st' = [st EXCEPT ![d] = shot[d].st]
    /\ mode' = [mode EXCEPT ![d] = "complete"]
    /\ rev' = [rev EXCEPT ![d] = @ + 1]
    /\ cursor' = [cursor EXCEPT ![d] = shot[d].cursor]
    /\ owes' = [owes EXCEPT ![d] = 0]
    /\ shot' = [shot EXCEPT ![d] = None]
    /\ Go(d, AfterSnapshot(d))
    /\ UNCHANGED <<service, pin, block, era, table, front, inbox, outbox, conflict, spent, unaudited>>

\* handleAcknowledgeChanges refuses anything but the current snapshot.
AckedNow(d) == IF rev[d] = Current THEN Current ELSE acked[d]

Acknowledge(d) ==
    /\ at[d] = "acknowledge"
    /\ acked' = [acked EXCEPT ![d] = AckedNow(d)]
    /\ Go(d, "idle")
    /\ UNCHANGED <<log, snaps, active, epoch, metadata, stores, shot, spent,
                   unaudited>>

\* A request fails, its answer is lost, or the page closes.
Interrupt(d) ==
    /\ at[d] # "idle"
    /\ shot' = [shot EXCEPT ![d] = None]
    /\ Go(d, "idle")
    /\ UNCHANGED <<service, metadata, stores, spent, unaudited>>

Next ==
    \E d \in Devices :
       \/ \E e \in Entities : Edit(d, e)
       \/ \E a \in Devices : Approve(a, d)
       \/ Join(d) \/ Rotate(d) \/ Start(d)
       \/ Upload(d) \/ Pull(d) \/ OperationsFail(d)
       \/ Bootstrapped(d) \/ Accept(d) \/ Block(d)
       \/ Stop(d) \/ UpToDate(d) \/ Capture(d) \/ Send(d) \/ Store(d)
       \/ Acknowledge(d) \/ Interrupt(d)

Spec == Init /\ [][Next]_vars

-----------------------------------------------------------------------------
(* Properties.                                                             *)

\* The operations with cursors up to c applied to the first snapshot.
Truth(e, c) ==
    LET ops == {k \in 1..c : log[k].ent = e}
    IN  IF ops # {} THEN log[Max(ops)].res.val
        ELSE IF snaps = <<>> THEN 0 ELSE snaps[1].data[e]

\* Created on its owner between draining the outbox and reading the tables
\* for a snapshot: in the snapshot, but not in the log.
CapturedEarly(e, c) == Truth(e, c) = 0

\* Where the outbox holds the intents on an entity.
Intents(d, e) == {i \in DOMAIN outbox[d] : outbox[d][i].ent = e}

Revisions == 0..MaxSnapshots
Cursors == 0..MaxEdits
Values == 0..(MaxEdits + 1)
States == [ver : Values, val : Values,
           last : (Devices \X (1..MaxEdits)) \cup {None}]
StateMaps == [Entities -> States]
Fronts == [Devices -> Cursors]
Snapshots == [data : [Entities -> Values], st : StateMaps, front : Fronts,
              cursor : Cursors, epoch : 1..(MaxRotations + 1), dev : Devices]

TypeOK ==
    /\ Len(log) <= MaxEdits /\ Len(snaps) <= MaxSnapshots
    /\ \A c \in DOMAIN log :
          log[c] \in [dev : Devices, seq : Cursors, ent : Entities, pre : States,
                     causal : Fronts, res : States]
    /\ \A r \in DOMAIN snaps : snaps[r] \in Snapshots
    /\ acked \in [Devices -> Revisions] /\ active \subseteq Devices
    /\ epoch \in 1..(MaxRotations + 1)
    /\ mode \in [Devices -> Modes \cup {None}]
    /\ rev \in [Devices -> Revisions] /\ pin \in [Devices -> Revisions]
    /\ block \in [Devices -> Blocks \cup {None}]
    /\ cursor \in [Devices -> Cursors]
    /\ \A d \in Devices : /\ owes[d] \in 0..epoch /\ era[d] \in 1..epoch
                         /\ inbox[d] \subseteq DOMAIN log
                         /\ shot[d] \in Snapshots \cup {None}
    /\ table \in [Devices -> [Entities -> Values]]
    /\ st \in [Devices -> StateMaps] /\ front \in [Devices -> Fronts]
    /\ conflict \in [Devices -> BOOLEAN]
    /\ at \in [Devices -> Phases]

\* A snapshot contains what the operations up to its cursor make, no more and
\* no less, so a device that starts from it and reads on misses nothing and
\* applies nothing twice.  The one thing it may run ahead by is an entity whose
\* creation was committed while it was being made.
SnapshotsFollowLog ==
    \A r \in DOMAIN snaps, e \in Entities :
       \/ snaps[r].data[e] = Truth(e, snaps[r].cursor)
       \/ CapturedEarly(e, snaps[r].cursor)

\* Whatever was bootstrapped, compacted, rotated or interrupted, the finance
\* tables of a device that is not blocked are the log up to its cursor, and
\* for its own entities also the intents it has not sent.  An edit made while
\* the device's first snapshot was on its way is the exception: it is in the
\* tables, but never had an intent.
TablesExplained ==
    \A d \in active, e \in Entities :
       mode[d] = "complete" /\ block[d] = None /\ ~conflict[d] =>
          IF Owner[e] = d
          THEN \/ <<d, e>> \in unaudited
               \/ table[d][e] = IF Intents(d, e) # {}
                                 THEN outbox[d][Max(Intents(d, e))].val
                                 ELSE Truth(e, Len(log))
          ELSE \/ table[d][e] = Truth(e, cursor[d])
               \/ CapturedEarly(e, cursor[d])

\* A device that took over or acknowledged a revision holds all it stands for:
\* the operations up to its cursor may be deleted, and nothing the snapshot
\* says is newer than what the device has.
PinnedIsHeld ==
    \A d \in Devices :
       /\ rev[d] >= acked[d]
       /\ rev[d] > 0 =>
             /\ cursor[d] >= snaps[rev[d]].cursor
             /\ \A e \in Entities : st[d][e].ver >= snaps[rev[d]].st[e].ver

\* An intent can be prepared when its turn comes: what its user saw is what
\* the entity state was made from.  Excepted are the entities of the two races
\* above, whose outbox is stuck for ever.
OutboxNeverStuck ==
    \A d \in active :
       LET intent == Head(outbox[d]) IN
       outbox[d] # <<>> =>
          \/ Preparable(d, intent)
          \/ <<d, intent.ent>> \in unaudited
          \/ \E r \in DOMAIN snaps : snaps[r].st[intent.ent] # Absent
                                   /\ CapturedEarly(intent.ent, snaps[r].cursor)

=============================================================================
