--------------------------- MODULE OperationSync ---------------------------
(***************************************************************************)
(* Encrypted operation synchronization between the devices of one vault:   *)
(* the finance tables, entity states, outbox, inbox and conflict records a *)
(* device keeps in IndexedDB (src/src/db/sync/operation-repository.ts,     *)
(* mutation-audit.ts, conflict-repository.ts), the synchronization cycle   *)
(* that moves them (src/src/features/sync/operation-service.ts and         *)
(* continuous-service.ts) and the operation log of the service             *)
(* (src/services/sync-worker/src/operations.ts).                           *)
(*                                                                         *)
(* One action is one IndexedDB transaction, or one request together with   *)
(* the transaction that records its answer.  Between two of them the user  *)
(* may edit, another device may synchronize, and the page may be closed.   *)
(*                                                                         *)
(* A state hash is modelled by what it is a hash of, so two hashes are     *)
(* equal exactly when the hashed version, value and tombstone are.         *)
(*                                                                         *)
(* A definition X_Mistake is a variant of X with a plausible mistake; the  *)
(* specification never uses it.  It shows that a property can fail.        *)
(***************************************************************************)
EXTENDS Integers, Sequences, FiniteSets, SequencesExt

CONSTANTS
    Devices,      \* the active devices of the vault
    Entities,     \* finance entities, numbered: a group is ordered by number
    Values,       \* live values of an entity
    Gone,         \* no live value: never created, or deleted
    None,         \* no operation (lastOperationId = null), or no intent
    Seeded,       \* the entities of the snapshot every device bootstrapped from
    SeedValue,    \* their value in that snapshot
    PageSize,     \* SYNC_LIMITS.maxOperationsPerBatch
    MaxGroups,    \* bound: mutation groups committed by users
    MaxFailures,  \* bound: lost answers and interrupted cycles
    MaxClockSteps \* bound: commits made after a device's clock was set back

ASSUME SyncAssumption ==
    /\ Entities \subseteq Nat /\ IsFiniteSet(Entities)
    /\ Seeded \subseteq Entities
    /\ SeedValue \in Values /\ Gone \notin Values
    /\ PageSize \in Nat \ {0}
    /\ MaxGroups \in Nat /\ MaxFailures \in Nat /\ MaxClockSteps \in Nat

VARIABLES
    \* the service
    log,          \* sync_changes, by server_cursor
    acked,        \* device_acknowledgements: acknowledged_server_cursor
    \* each device's IndexedDB
    table,        \* the finance tables
    state,        \* syncEntityStates
    frontier,     \* syncFrontier: last device sequence known, per device
    outbox,       \* syncOutbox, as groups in compareOutbox order
    received,     \* syncInbox rows in state 'received', by server cursor
    processed,    \* syncInbox rows in state 'applied' or 'conflicted'
    lastCursor,   \* syncMetadata.lastServerCursor
    conflicts,    \* syncConflicts
    \* each device's running cycle, lost when the page closes
    phase,
    \* bookkeeping
    spent,        \* groups committed, failures and clock steps, for the bounds
    overtaken     \* <<d, e>>: a remote group was applied to e on d over an
                  \* intent that had not been prepared (history variable)

serverVars == <<log, acked>>
deviceVars == <<table, state, frontier, outbox, received, processed,
                lastCursor, conflicts>>
vars == <<serverVars, deviceVars, phase, spent, overtaken>>

GroupIds == Devices \X (1..MaxGroups)
OpIds == GroupIds \X Entities
Cell == Values \cup {Gone}
Phases == {"upload", "pull", "apply"}

\* What hashEntityState covers: the version, the value, and the tombstone,
\* which names the deleting operation.
Hashes == [ver : Nat, val : Cell, by : OpIds \cup {None}]
Absent == [ver |-> 0, val |-> Gone, by |-> None]
Live(ver, val) == [ver |-> ver, val |-> val, by |-> None]
Tombstone(ver, id) == [ver |-> ver, val |-> Gone, by |-> id]
IsTombstone(hash) == hash.by # None

States == [hash : Hashes, last : OpIds \cup {None}]

Operations ==
    [id : OpIds, gid : GroupIds, size : Nat, dev : Devices, seq : Nat,
     ent : Entities, pre : Hashes, res : Hashes,
     resolves : SUBSET OpIds, causal : [Devices -> Nat]]

\* A mutation group of the outbox: the intents of one transaction, and the
\* signed operations prepared from them that the service has not accepted.
Edits == [prev : Cell, val : Cell, resolves : SUBSET OpIds]

ASSUME NoneAssumption == None \notin Operations /\ None \notin Edits /\ None \notin OpIds

Groups == [gid : GroupIds, edits : [Entities -> Edits \cup {None}],
           ops : [Entities -> Operations \cup {None}]]
Touched(group) == {e \in Entities : group.edits[e] # None}
Signed(group) == {e \in Entities : group.ops[e] # None}
Prepared(group) == Signed(group) # {}

Conflicts ==
    [op : OpIds, gid : GroupIds, size : Nat, ent : Entities,
     local : OpIds \cup {None}, val : Cell, pending : BOOLEAN]

-----------------------------------------------------------------------------
(* Committing local work: auditedFinanceTransaction.                       *)

\* The state the repository reads for an entity: the stored one, or version 1
\* of a value that has no stored state (stateFromValue).
Known(stored, value) ==
    IF stored.hash = Absent /\ value # Gone
    THEN [hash |-> Live(1, value), last |-> None]
    ELSE stored

\* createId() never repeats: an entity is created once, by one device.
Unused(e) ==
    \A d \in Devices :
       /\ table[d][e] = Gone /\ state[d][e].hash = Absent
       /\ \A i \in 1..Len(outbox[d]) : e \notin Touched(outbox[d][i])

\* SyncMutationAudit.finalize: one outbox record per entity written, sharing
\* one mutation group.  compareOutbox orders groups by wall-clock createdAt,
\* so a group committed after the clock stepped back is put further ahead
\* (never ahead of a group already signed: a bound of the model).
Enqueue(d, edits, at) ==
    LET group == [gid |-> <<d, spent.groups + 1>>, edits |-> edits,
                  ops |-> [e \in Entities |-> None]]
        back  == at <= Len(outbox[d])
    IN  /\ back => spent.clockSteps < MaxClockSteps /\ ~Prepared(outbox[d][at])
        /\ outbox' = [outbox EXCEPT ![d] = InsertAt(@, at, group)]
        /\ spent' = [spent EXCEPT !.groups = @ + 1,
                                  !.clockSteps = IF back THEN @ + 1 ELSE @]
        /\ table' = [table EXCEPT ![d] =
                        [e \in Entities |-> IF edits[e] = None THEN @[e]
                                            ELSE edits[e].val]]

\* A finance command: an audited transaction over one or more entities.
LocalEdit(d) ==
    /\ \E es \in SUBSET Entities \ {{}} :
       \E new \in [es -> Cell] :
       \E at \in 1..(Len(outbox[d]) + 1) :
          /\ \A e \in es : new[e] # table[d][e]
          /\ \A e \in es : table[d][e] = Gone => Unused(e)
          /\ Enqueue(d, [e \in Entities |->
                            IF e \in es THEN [prev |-> table[d][e], val |-> new[e],
                                              resolves |-> {}]
                                        ELSE None], at)
    /\ UNCHANGED <<serverVars, state, frontier, received, processed,
                   lastCursor, conflicts, phase, overtaken>>

ConflictsOf(d, gid) == {c \in conflicts[d] : c.gid = gid}

Resolvable(d, gid) ==
    /\ ConflictsOf(d, gid) # {}
    /\ \A c \in ConflictsOf(d, gid) :
          c.pending /\ Cardinality(ConflictsOf(d, gid)) = c.size

\* The user decides a conflicted group: resolveOperationGroup.
Resolve(d, gid, keepLocal) ==
    LET group == ConflictsOf(d, gid)
        about(e) == CHOOSE c \in group : c.ent = e
        desired(e) == IF keepLocal THEN table[d][e] ELSE about(e).val
    IN  /\ Resolvable(d, gid)
        /\ Enqueue(d, [e \in Entities |->
                         IF \E c \in group : c.ent = e
                         THEN [prev |-> table[d][e], val |-> desired(e),
                               resolves |-> {about(e).local, about(e).op} \ {None}]
                         ELSE None], Len(outbox[d]) + 1)
        /\ conflicts' = [conflicts EXCEPT ![d] =
                           (@ \ group) \cup {[c EXCEPT !.pending = FALSE] : c \in group}]
        /\ UNCHANGED <<serverVars, state, frontier, received, processed,
                       lastCursor, phase, overtaken>>

-----------------------------------------------------------------------------
(* The upload loop of #synchronizeOnce: prepareNextGroup.                  *)

Uploading(d) == phase[d] = "upload" /\ outbox[d] # <<>>
FirstGroup(d) == outbox[d][1]

\* The checks of prepareNextGroup: a live state must be the state the user
\* edited, and syncCommandSchema refuses to delete what was never there.
PreparableEdit(d, e, edit) ==
    LET known == Known(state[d][e], edit.prev).hash
    IN  /\ (known # Absent /\ ~IsTombstone(known)) => edit.prev = known.val
        /\ edit.val = Gone => known # Absent

Preparable(d, group) ==
    \A e \in Touched(group) : PreparableEdit(d, e, group.edits[e])

\* Position of e in its group, from 1.
Index(es, e) == Cardinality({f \in es : f <= e})

PreparedOp(d, group, e) ==
    LET edit == group.edits[e]
        id   == <<group.gid, e>>
        pre  == Known(state[d][e], edit.prev).hash
        seq  == frontier[d][d] + Index(Touched(group), e)
    IN  [id |-> id, gid |-> group.gid, size |-> Cardinality(Touched(group)),
         dev |-> d, seq |-> seq, ent |-> e, pre |-> pre,
         res |-> IF edit.val = Gone THEN Tombstone(pre.ver + 1, id)
                                    ELSE Live(pre.ver + 1, edit.val),
         resolves |-> edit.resolves,
         causal |-> [frontier[d] EXCEPT ![d] = seq - 1]]

\* Sign and encrypt the operations of the first group, in one transaction.
Prepare(d) ==
    LET group == FirstGroup(d)
        es    == Touched(group)
        op(e) == PreparedOp(d, group, e)
    IN  /\ Uploading(d) /\ ~Prepared(group) /\ Preparable(d, group)
        /\ outbox' = [outbox EXCEPT ![d][1].ops =
                         [e \in Entities |-> IF e \in es THEN op(e) ELSE None]]
        /\ state' = [state EXCEPT ![d] =
                        [e \in Entities |->
                           IF e \in es THEN [hash |-> op(e).res, last |-> op(e).id]
                                       ELSE @[e]]]
        /\ frontier' = [frontier EXCEPT ![d][d] = @ + Cardinality(es)]
        /\ UNCHANGED <<serverVars, table, received, processed, lastCursor,
                       conflicts, phase, spent, overtaken>>

-----------------------------------------------------------------------------
(* Uploading: handleUploadOperation and recordAcceptedLocal.               *)

LastSequence(d) ==
    Max({0} \cup {log[c].seq : c \in {c \in 1..Len(log) : log[c].dev = d}})

\* The rows that hold the operation's id, or its device and sequence.
Stored(op) ==
    {c \in 1..Len(log) : \/ log[c].id = op.id
                         \/ log[c].dev = op.dev /\ log[c].seq = op.seq}

Accepts_NoExactRetry(op) == op.seq = LastSequence(op.dev) + 1
Accepts(op) ==
    IF Stored(op) # {} THEN \A c \in Stored(op) : log[c] = op
                       ELSE op.seq = LastSequence(op.dev) + 1

LogAfter(op) == IF Stored(op) # {} THEN log ELSE Append(log, op)
CursorOf_Next(op) == Len(log) + 1
CursorOf(op) == IF Stored(op) # {} THEN CHOOSE c \in Stored(op) : TRUE
                                   ELSE Len(log) + 1

\* The operation the loop sends next: the lowest index left in the group.
Sends(d, e) ==
    LET left == Signed(FirstGroup(d))
    IN  e \in left /\ \A f \in left : e <= f

\* The service answers and recordAcceptedLocal moves the record to the inbox.
Upload(d) ==
    /\ Uploading(d)
    /\ \E e \in Entities :
          LET op   == FirstGroup(d).ops[e]
              rest == [FirstGroup(d) EXCEPT !.ops[e] = None]
          IN  /\ Sends(d, e) /\ Accepts(op)
              /\ log' = LogAfter(op)
              /\ processed' = [processed EXCEPT ![d] = @ \cup {CursorOf(op)}]
              /\ outbox' = [outbox EXCEPT ![d] =
                               IF Prepared(rest) THEN [@ EXCEPT ![1] = rest] ELSE Tail(@)]
    /\ UNCHANGED <<acked, table, state, frontier, received, lastCursor,
                   conflicts, phase, spent, overtaken>>

\* The service stores the operation and the answer is lost, or the page closes
\* before recordAcceptedLocal: markUploadFailed keeps the signed envelope.
UploadUnanswered(d) ==
    /\ Uploading(d) /\ spent.failures < MaxFailures
    /\ \E e \in Entities :
          LET op == FirstGroup(d).ops[e]
          IN  Sends(d, e) /\ Accepts(op) /\ log' = LogAfter(op)
    /\ spent' = [spent EXCEPT !.failures = @ + 1]
    /\ UNCHANGED <<acked, deviceVars, phase, overtaken>>

-----------------------------------------------------------------------------
(* Pulling: handleGetChanges and stageRemoteOperations.                    *)

Pulling(d) == \/ phase[d] = "upload" /\ outbox[d] = <<>>
              \/ phase[d] = "pull"

PageEnd(d) == IF lastCursor[d] + PageSize < Len(log)
              THEN lastCursor[d] + PageSize ELSE Len(log)

Page(d) == (lastCursor[d] + 1)..PageEnd(d)

InInbox(d) == received[d] \cup processed[d]

\* d's inbox, once the page is staged up to cursor c, proves sequence n of x.
Proves(d, x, n, c) ==
    \/ frontier[d][x] = n
    \/ \E k \in InInbox(d) \cup Page(d) : k < c /\ log[k].dev = x /\ log[k].seq = n

\* The per-device hash chain and the causal frontier of a staged operation.
Stageable(d, c) ==
    LET op == log[c]
    IN  /\ op.seq > 1 => Proves(d, op.dev, op.seq - 1, c)
        /\ \A x \in Devices : op.causal[x] > 0 => Proves(d, x, op.causal[x], c)

Pull(d) ==
    /\ Pulling(d)
    /\ \A c \in Page(d) \ InInbox(d) : Stageable(d, c)
    /\ received' = [received EXCEPT ![d] = @ \cup (Page(d) \ InInbox(d))]
    /\ lastCursor' = [lastCursor EXCEPT ![d] = PageEnd(d)]
    /\ phase' = [phase EXCEPT ![d] = IF PageEnd(d) = Len(log) THEN "apply" ELSE "pull"]
    /\ UNCHANGED <<serverVars, table, state, frontier, outbox, processed,
                   conflicts, spent, overtaken>>

-----------------------------------------------------------------------------
(* Applying: receivedGroups and applyRemoteGroup.                          *)

Members(d, gid) == {c \in received[d] : log[c].gid = gid}

\* receivedGroups throws unless every received group is complete.
AllComplete(d) ==
    \A c \in received[d] : Cardinality(Members(d, log[c].gid)) = log[c].size

Resolved(d, op) ==
    {k \in conflicts[d] : k.pending /\ k.ent = op.ent /\ k.op \in op.resolves}

Current(d, op) == Known(state[d][op.ent], table[d][op.ent])
PreconditionMatches(d, op) == op.pre = Current(d, op).hash
ResultMatchesCurrent(d, op) == op.res = Current(d, op).hash

Accepted_LastWriterWins(d, op) == op.pre.ver <= Current(d, op).hash.ver
Accepted(d, op) == \/ PreconditionMatches(d, op)
                   \/ ResultMatchesCurrent(d, op)
                   \/ Resolved(d, op) # {}

\* An intent of d on e that prepareNextGroup has not read yet.
HasIntent(d, e) ==
    \E i \in 1..Len(outbox[d]) :
       ~Prepared(outbox[d][i]) /\ e \in Touched(outbox[d][i])

\* The frontier row of the sender moves one operation at a time.
InSequence(d, group) ==
    \A c \in group :
       LET known == frontier[d][log[c].dev]
       IN  known # 0 => log[c].seq = known + Cardinality({k \in group : k <= c})

\* The one operation of the group on e, where the group writes e.
Writes(group, e) == \E c \in group : log[c].ent = e
OpOn(group, e) == log[CHOOSE c \in group : log[c].ent = e]

TableAfter_KeepsDeleted(d, group) ==
    [e \in Entities |->
       IF Writes(group, e) /\ OpOn(group, e).res.val # Gone
       THEN OpOn(group, e).res.val ELSE table[d][e]]
TableAfter(d, group) ==
    [e \in Entities |-> IF Writes(group, e) THEN OpOn(group, e).res.val ELSE table[d][e]]

\* A state equal to the result is kept, with its own last operation.
StateAfter(d, group) ==
    [e \in Entities |->
       IF ~Writes(group, e) THEN state[d][e]
       ELSE IF ResultMatchesCurrent(d, OpOn(group, e)) THEN Current(d, OpOn(group, e))
       ELSE [hash |-> OpOn(group, e).res, last |-> OpOn(group, e).id]]

\* The whole group is written, and the conflicts it decides are closed.
AcceptGroup(d, group) ==
    LET decided == UNION {Resolved(d, log[c]) : c \in group}
    IN  /\ table' = [table EXCEPT ![d] = TableAfter(d, group)]
        /\ state' = [state EXCEPT ![d] = StateAfter(d, group)]
        /\ conflicts' = [conflicts EXCEPT ![d] =
                           (@ \ decided) \cup {[k EXCEPT !.pending = FALSE] : k \in decided}]
        /\ overtaken' = overtaken \cup
               {<<d, e>> : e \in {x \in Entities : Writes(group, x) /\ HasIntent(d, x)}}

ConflictRecord(d, op) ==
    [op |-> op.id, gid |-> op.gid, size |-> op.size, ent |-> op.ent,
     local |-> Current(d, op).last, val |-> op.res.val, pending |-> TRUE]

\* Nothing is written, and every operation of the group awaits the user.
RecordConflict_OnePerEntity(d, group) ==
    /\ conflicts' = [conflicts EXCEPT ![d] =
                       {k \in @ : ~Writes(group, k.ent)}
                          \cup {ConflictRecord(d, log[c]) : c \in group}]
    /\ UNCHANGED <<table, state, overtaken>>
RecordConflict(d, group) ==
    /\ conflicts' = [conflicts EXCEPT ![d] =
                       @ \cup {ConflictRecord(d, log[c]) : c \in group}]
    /\ UNCHANGED <<table, state, overtaken>>

\* The frontier row of the sender ends at the newest operation applied.
FrontierAfter_OneStep(d, newest) ==
    [frontier[d] EXCEPT ![log[newest].dev] = @ + 1]
FrontierAfter(d, newest) ==
    [frontier[d] EXCEPT ![log[newest].dev] = log[newest].seq]

\* The received group with the lowest cursor is applied whole, or recorded
\* whole as a conflict.
ApplyGroup(d) ==
    /\ phase[d] = "apply" /\ AllComplete(d)
    /\ \E first, newest \in received[d] :
          LET group == Members(d, log[first].gid)
          IN  /\ \A c \in received[d] : first <= c
              /\ newest \in group /\ \A c \in group : c <= newest
              /\ InSequence(d, group)
              /\ received' = [received EXCEPT ![d] = @ \ group]
              /\ processed' = [processed EXCEPT ![d] = @ \cup group]
              /\ frontier' = [frontier EXCEPT ![d] = FrontierAfter(d, newest)]
              /\ IF \A c \in group : Accepted(d, log[c])
                 THEN AcceptGroup(d, group) ELSE RecordConflict(d, group)
    /\ UNCHANGED <<serverVars, outbox, lastCursor, phase, spent>>

\* A group whose uploader stopped half way blocks the whole inbox.
GroupIncomplete(d) ==
    /\ phase[d] = "apply" /\ ~AllComplete(d)
    /\ phase' = [phase EXCEPT ![d] = "upload"]
    /\ UNCHANGED <<serverVars, deviceVars, spent, overtaken>>

-----------------------------------------------------------------------------
(* Ending the cycle: advanceAcknowledgedCursor, handleAcknowledgeChanges.  *)

Drained_Assumed(d) == TRUE
Drained(d) == received[d] = {}

Pending(d) == {k \in conflicts[d] : k.pending}

\* The continuous cycle acknowledges nothing while a conflict is pending; with
\* the inbox drained advanceAcknowledgedCursor answers lastServerCursor.
Acknowledges_WithConflicts(d) == acked[d] <= lastCursor[d]
Acknowledges_Never(d) == FALSE
Acknowledges(d) == Pending(d) = {} /\ acked[d] <= lastCursor[d]

Finish(d) ==
    /\ phase[d] = "apply" /\ Drained(d)
    /\ acked' = IF Acknowledges(d) THEN [acked EXCEPT ![d] = lastCursor[d]] ELSE acked
    /\ phase' = [phase EXCEPT ![d] = "upload"]
    /\ UNCHANGED <<log, deviceVars, spent, overtaken>>

\* A failed request, an expired session or a closed page ends the cycle, and
\* what was read into memory is read again by the next one.
Interrupt(d) ==
    /\ phase[d] # "upload" /\ spent.failures < MaxFailures
    /\ phase' = [phase EXCEPT ![d] = "upload"]
    /\ spent' = [spent EXCEPT !.failures = @ + 1]
    /\ UNCHANGED <<serverVars, deviceVars, overtaken>>

-----------------------------------------------------------------------------
Init ==
    /\ log = <<>>
    /\ acked = [d \in Devices |-> 0]
    /\ table = [d \in Devices |->
                  [e \in Entities |-> IF e \in Seeded THEN SeedValue ELSE Gone]]
    /\ state = [d \in Devices |->
                  [e \in Entities |->
                     [hash |-> IF e \in Seeded THEN Live(1, SeedValue) ELSE Absent,
                      last |-> None]]]
    /\ frontier = [d \in Devices |-> [x \in Devices |-> 0]]
    /\ outbox = [d \in Devices |-> <<>>]
    /\ received = [d \in Devices |-> {}]
    /\ processed = [d \in Devices |-> {}]
    /\ lastCursor = [d \in Devices |-> 0]
    /\ conflicts = [d \in Devices |-> {}]
    /\ phase = [d \in Devices |-> "upload"]
    /\ spent = [groups |-> 0, failures |-> 0, clockSteps |-> 0]
    /\ overtaken = {}

SyncStep(d) ==
    \/ Prepare(d)
    \/ Upload(d)
    \/ Pull(d)
    \/ ApplyGroup(d)
    \/ GroupIncomplete(d)
    \/ Finish(d)

UserStep(d) ==
    /\ spent.groups < MaxGroups
    /\ \/ LocalEdit(d)
       \/ \E gid \in GroupIds, keepLocal \in BOOLEAN : Resolve(d, gid, keepLocal)

Fault(d) == UploadUnanswered(d) \/ Interrupt(d)

Next == \E d \in Devices : SyncStep(d) \/ UserStep(d) \/ Fault(d)

Spec == Init /\ [][Next]_vars

\* The scheduler starts a cycle again and again and a running cycle runs on;
\* users, lost answers and closed pages promise nothing.
FairSpec == Spec /\ \A d \in Devices : WF_vars(SyncStep(d))

-----------------------------------------------------------------------------
(* Properties.                                                             *)

\* Every variable has its type; inboxes and cursors stay inside the log.
TypeOK ==
    /\ log \in Seq(Operations)
    /\ acked \in [Devices -> Nat]
    /\ table \in [Devices -> [Entities -> Cell]]
    /\ state \in [Devices -> [Entities -> States]]
    /\ frontier \in [Devices -> [Devices -> Nat]]
    /\ outbox \in [Devices -> Seq(Groups)]
    /\ received \in [Devices -> SUBSET (1..Len(log))]
    /\ processed \in [Devices -> SUBSET (1..Len(log))]
    /\ lastCursor \in [Devices -> 0..Len(log)]
    /\ conflicts \in [Devices -> SUBSET Conflicts]
    /\ phase \in [Devices -> Phases]
    /\ spent \in [groups : 0..MaxGroups, failures : 0..MaxFailures,
                  clockSteps : 0..MaxClockSteps]
    /\ overtaken \subseteq Devices \X Entities

\* d has sent and read everything, and applied it or recorded a conflict.
Settled(d) == outbox[d] = <<>> /\ received[d] = {} /\ lastCursor[d] = Len(log)

\* d's user was asked about e, and has answered everything asked.
Disputed(d, e) == \E k \in conflicts[d] : k.ent = e
Answered(d, e) == \A k \in Pending(d) : k.ent # e

\* The author of log[c] had processed, or made, log[k].
Sees(c, k) == log[c].causal[log[k].dev] >= log[k].seq

\* Of a decision about e and an operation another device made on it, one author
\* had seen the other's.
DecidedInTurn(e) ==
    \A c, k \in 1..Len(log) :
       /\ log[c].ent = e /\ log[k].ent = e /\ log[c].dev # log[k].dev
       /\ log[c].resolves # {}
       => Sees(c, k) \/ Sees(k, c)

\* Two settled devices hold the same state of an entity, whatever was edited
\* concurrently: if neither was ever asked about it, or if whoever was asked
\* answered, and nothing was decided or done while another decided.  They show
\* the same value unless an unprepared intent was overtaken.  Decisions made
\* concurrently are not enough: Accepted takes a decision that names any pending
\* conflict, whatever its author had not seen, and two that pass each other
\* may each replace the other's result.
Convergence ==
    \A d, x \in Devices : \A e \in Entities :
       /\ Settled(d) /\ Answered(d, e) /\ Settled(x) /\ Answered(x, e)
       /\ DecidedInTurn(e) \/ (~Disputed(d, e) /\ ~Disputed(x, e))
       => /\ state[d][e].hash = state[x][e].hash
          /\ {<<d, e>>, <<x, e>>} \cap overtaken = {} => table[d][e] = table[x][e]

\* A page the service sends is never refused by the hash chain or the causal
\* frontier of the receiving device (OperationChainGapError, 'Causal frontier
\* operacije nije lokalno dokaziv'), and a complete group never skips a
\* sequence ('Primena bi preskočila per-device sequence').
StagingNeverRefuses ==
    \A d \in Devices :
       /\ Pulling(d) => \A c \in Page(d) \ InInbox(d) : Stageable(d, c)
       /\ phase[d] = "apply" /\ AllComplete(d) =>
             \A first \in received[d] :
                (\A c \in received[d] : first <= c) =>
                   InSequence(d, Members(d, log[first].gid))

\* The frontier rows agree with the inbox: what d knows of another device is
\* the last sequence it processed, all earlier ones included, and what it knows
\* of itself is what it uploaded plus what is signed and waiting in its outbox.
FrontierMatchesInbox ==
    \A d, x \in Devices :
       LET seqs == {log[c].seq : c \in {c \in processed[d] : log[c].dev = x}}
           signed == IF outbox[d] = <<>> THEN {} ELSE Signed(FirstGroup(d))
       IN  seqs = 1..(frontier[d][x] - IF x = d THEN Cardinality(signed) ELSE 0)

\* A device acknowledges only what it has applied or recorded as a conflict:
\* the service compacts and later deletes what every device acknowledged.
AckedProcessed ==
    \A d \in Devices : \A c \in 1..acked[d] : c \in processed[d]

\* An operation whose conflict is pending lies above its device's
\* acknowledgement, so the service still has it while the user decides.
PendingConflictsHoldAck ==
    \A d \in Devices : \A k \in Pending(d) :
       \E c \in (acked[d] + 1)..Len(log) : log[c].id = k.op

\* The rest of the inductive invariant behind the two properties above: the
\* inbox covers the cursor and holds an operation once, and never receives the
\* device's own; the log holds an id once; what a device signed is its own; and
\* an operation of its own that a device has not recorded yet is still in the
\* group it is uploading.
InboxCovers ==
    \A d \in Devices : /\ 1..lastCursor[d] \subseteq InInbox(d)
                       /\ acked[d] <= lastCursor[d]
InboxOnce == \A d \in Devices : received[d] \cap processed[d] = {}
OwnNeverReceived == \A d \in Devices : \A c \in received[d] : log[c].dev # d
LogIdsUnique == \A c, k \in 1..Len(log) : log[c].id = log[k].id => c = k
SignedAreOwn ==
    \A d \in Devices : \A i \in 1..Len(outbox[d]) :
       \A e \in Signed(outbox[d][i]) : outbox[d][i].ops[e].dev = d
OwnAreUploading ==
    \A d \in Devices : \A c \in 1..Len(log) :
       log[c].dev = d /\ c \notin processed[d] =>
          /\ phase[d] = "upload" /\ outbox[d] # <<>>
          /\ \E e \in Signed(FirstGroup(d)) : FirstGroup(d).ops[e] = log[c]

AckInv ==
    /\ InboxCovers /\ InboxOnce /\ OwnNeverReceived
    /\ AckedProcessed /\ PendingConflictsHoldAck
    /\ LogIdsUnique /\ SignedAreOwn /\ OwnAreUploading

Reported(c, k) == \E x \in conflicts[log[c].dev] : x.op = log[k].id

\* Two devices that wrote different results to one entity, neither having seen
\* the other's: once both processed the other's, at least one of them has asked
\* its user about the entity.  It has asked about that very operation when every
\* decision about the entity was made in turn; a decision that was not may
\* replace a newer edit its author had not seen, without a word about it.
ConcurrentEditsSurface ==
    \A c, k \in 1..Len(log) :
       LET d == log[c].dev
           x == log[k].dev
           e == log[c].ent
       IN  /\ d # x /\ log[k].ent = e /\ log[c].res # log[k].res
           /\ ~Sees(c, k) /\ ~Sees(k, c) /\ k \in processed[d] /\ c \in processed[x]
           => /\ Disputed(d, e) \/ Disputed(x, e)
              /\ DecidedInTurn(e) => Reported(c, k) \/ Reported(k, c)

\* The finance table shows the user's latest unsent edit of an entity, and the
\* value of its synchronized state when there is none: no write of the sync
\* engine undoes local work unnoticed (same proviso as Convergence).
LocalValueExplained ==
    \A d \in Devices : \A e \in Entities :
       LET mine == {i \in 1..Len(outbox[d]) : /\ ~Prepared(outbox[d][i])
                                              /\ e \in Touched(outbox[d][i])}
           latest == CHOOSE i \in mine :
                        \A j \in mine : outbox[d][j].gid[2] <= outbox[d][i].gid[2]
       IN  \/ <<d, e>> \in overtaken
           \/ table[d][e] = IF mine = {} THEN state[d][e].hash.val
                            ELSE outbox[d][latest].edits[e].val

\* A conflict is decided once: its record is never dropped or reopened, and
\* its proposal never changes under the user.
ConflictsAreDecidedOnce ==
    [][\A d \in Devices : \A k \in conflicts[d] :
          \/ k \in conflicts'[d]
          \/ k.pending /\ [k EXCEPT !.pending = FALSE] \in conflicts'[d]]_vars

\* What a user committed is eventually sent, however uploads are interrupted.
UploadsDrain ==
    \A d \in Devices : (outbox[d] # <<>>) ~> (outbox[d] = <<>> \/ overtaken # {})

\* It is eventually acknowledged by every device that has no open conflict.
EveryOperationAcknowledged ==
    \A d \in Devices :
       (acked[d] < Len(log)) ~> (acked[d] = Len(log) \/ Pending(d) # {} \/ overtaken # {})
=============================================================================
