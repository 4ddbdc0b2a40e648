----------------------- MODULE OperationSync_proofs -----------------------
(* Proofs about OperationSync, for every set of devices, entities and      *)
(* values and every bound.                                                 *)
EXTENDS OperationSync, FiniteSetTheorems, FunctionTheorems, SequenceTheorems,
        WellFoundedInduction, TLAPS

-----------------------------------------------------------------------------
(* Operators.                                                              *)

\* A mutation group touches finitely many entities.
LEMMA TouchedFinite ==
    ASSUME NEW group
    PROVE  IsFiniteSet(Touched(group)) /\ Cardinality(Touched(group)) \in Nat
BY SyncAssumption, FS_Subset, FS_CardinalityType DEF SyncAssumption, Touched

\* The position of an entity in its group counts from 1.
LEMMA IndexPositive ==
    ASSUME NEW group, NEW e \in Touched(group)
    PROVE  Index(Touched(group), e) \in Nat /\ Index(Touched(group), e) >= 1
<1> DEFINE upTo == {f \in Touched(group) : f <= e}
<1>1. e \in Nat
  BY SyncAssumption DEF SyncAssumption, Touched
<1>2. e \in upTo
  BY <1>1
<1>3. IsFiniteSet(upTo) /\ Cardinality(upTo) \in Nat
  BY TouchedFinite, FS_Subset, FS_CardinalityType
<1>4. Cardinality(upTo) # 0
  BY <1>2, <1>3, FS_EmptySet
<1> QED
  BY <1>3, <1>4 DEF Index

\* stateFromValue answers a well-formed state.
LEMMA KnownType ==
    ASSUME NEW stored \in States, NEW value \in Cell
    PROVE  Known(stored, value) \in States
BY DEF Known, States, Hashes, Live, Absent

\* The operation prepareNextGroup signs for an intent is well-formed.
LEMMA PreparedOpType ==
    ASSUME TypeOK, NEW d \in Devices, NEW group \in Groups, NEW e \in Touched(group)
    PROVE  /\ PreparedOp(d, group, e) \in Operations
           /\ [hash |-> PreparedOp(d, group, e).res,
               last |-> PreparedOp(d, group, e).id] \in States
<1> DEFINE edit == group.edits[e]
           id   == <<group.gid, e>>
           pre  == Known(state[d][e], edit.prev).hash
           seq  == frontier[d][d] + Index(Touched(group), e)
           res  == IF edit.val = Gone THEN Tombstone(pre.ver + 1, id)
                                      ELSE Live(pre.ver + 1, edit.val)
           causal == [frontier[d] EXCEPT ![d] = seq - 1]
<1>1. e \in Entities /\ edit \in Edits /\ group.gid \in GroupIds
  BY DEF Groups, Touched
<1>2. id \in OpIds
  BY <1>1 DEF OpIds
<1>3. pre \in Hashes
  <2>1. state[d][e] \in States /\ edit.prev \in Cell
    BY <1>1 DEF TypeOK, Edits
  <2> QED
    BY <2>1, KnownType DEF States
<1>4. seq \in Nat /\ seq - 1 \in Nat
  BY IndexPositive DEF TypeOK
<1>5. causal \in [Devices -> Nat]
  BY <1>4 DEF TypeOK
<1>6. res \in Hashes
  BY <1>1, <1>2, <1>3 DEF Hashes, Tombstone, Live, Edits, Cell
<1>7. edit.resolves \in SUBSET OpIds
  BY <1>1 DEF Edits
<1>8. Cardinality(Touched(group)) \in Nat
  BY TouchedFinite
<1>9. PreparedOp(d, group, e) =
        [id |-> id, gid |-> group.gid, size |-> Cardinality(Touched(group)),
         dev |-> d, seq |-> seq, ent |-> e, pre |-> pre, res |-> res,
         resolves |-> edit.resolves, causal |-> causal]
  BY DEF PreparedOp
<1> HIDE DEF edit, id, pre, seq, res, causal
<1>10. PreparedOp(d, group, e) \in Operations
  BY <1>1, <1>2, <1>3, <1>4, <1>5, <1>6, <1>7, <1>8, <1>9 DEF Operations
<1>11. [hash |-> res, last |-> id] \in States
  BY <1>2, <1>6 DEF States
<1> QED
  BY <1>9, <1>10, <1>11

\* insertAt keeps a sequence a sequence.
LEMMA InsertAtType ==
    ASSUME NEW S, NEW s \in Seq(S), NEW i \in 1..(Len(s) + 1), NEW x \in S
    PROVE  InsertAt(s, i, x) \in Seq(S)
BY DEF InsertAt

-----------------------------------------------------------------------------
(* Type correctness.                                                       *)

\* A bootstrapped vault is well-typed.
LEMMA InitType == Init => TypeOK
BY SyncAssumption DEF SyncAssumption, Init, TypeOK, States, Hashes, Live, Absent,
     Cell, Phases

\* One enqueued group keeps the outbox, the table and the bounds well-typed.
LEMMA EnqueueType ==
    ASSUME TypeOK, NEW d \in Devices,
           NEW edits \in [Entities -> Edits \cup {None}],
           NEW at \in 1..(Len(outbox[d]) + 1), Enqueue(d, edits, at),
           spent.groups < MaxGroups
    PROVE  /\ outbox' \in [Devices -> Seq(Groups)]
           /\ table' \in [Devices -> [Entities -> Cell]]
           /\ spent' \in [groups : 0..MaxGroups, failures : 0..MaxFailures,
                           clockSteps : 0..MaxClockSteps]
<1> DEFINE group == [gid |-> <<d, spent.groups + 1>>, edits |-> edits,
                     ops |-> [e \in Entities |-> None]]
<1>a. /\ spent \in [groups : 0..MaxGroups, failures : 0..MaxFailures,
                     clockSteps : 0..MaxClockSteps]
      /\ spent.groups \in 0..MaxGroups /\ spent.clockSteps \in 0..MaxClockSteps
  BY DEF TypeOK
<1>b. spent.groups < MaxGroups /\ MaxGroups \in Nat /\ MaxClockSteps \in Nat
  BY SyncAssumption DEF SyncAssumption
<1>1. group \in Groups
  BY <1>a, <1>b DEF Groups, GroupIds
<1>2. InsertAt(outbox[d], at, group) \in Seq(Groups)
  BY <1>1, InsertAtType DEF TypeOK
<1>3. outbox' \in [Devices -> Seq(Groups)]
  BY <1>2 DEF TypeOK, Enqueue
<1>4. [e \in Entities |-> IF edits[e] = None THEN table[d][e] ELSE edits[e].val]
        \in [Entities -> Cell]
  BY DEF TypeOK, Edits
<1>5. table' \in [Devices -> [Entities -> Cell]]
  BY <1>4 DEF TypeOK, Enqueue
<1>6. spent' \in [groups : 0..MaxGroups, failures : 0..MaxFailures,
                  clockSteps : 0..MaxClockSteps]
  <2> DEFINE back == at <= Len(outbox[d])
  <2>1. /\ spent' = [spent EXCEPT !.groups = @ + 1,
                                 !.clockSteps = IF back THEN @ + 1 ELSE @]
        /\ back => spent.clockSteps < MaxClockSteps
    BY DEF Enqueue
  <2> DEFINE steps == IF back THEN spent.clockSteps + 1 ELSE spent.clockSteps
  <2>2. steps \in 0..MaxClockSteps /\ spent.groups + 1 \in 0..MaxGroups
    BY <1>a, <1>b, <2>1
  <2>3. spent' = [spent EXCEPT !.groups = spent.groups + 1, !.clockSteps = steps]
    BY <2>1
  <2> HIDE DEF steps
  <2> QED
    BY <1>a, <2>2, <2>3
<1> QED
  BY <1>3, <1>5, <1>6

\* A finance command keeps the types.
LEMMA LocalEditType ==
    ASSUME TypeOK, NEW d \in Devices, LocalEdit(d), spent.groups < MaxGroups
    PROVE  TypeOK'
<1>a. PICK es \in SUBSET Entities \ {{}} :
        \E new \in [es -> Cell] : \E at \in 1..(Len(outbox[d]) + 1) :
           Enqueue(d, [e \in Entities |->
                         IF e \in es THEN [prev |-> table[d][e], val |-> new[e],
                                           resolves |-> {}] ELSE None], at)
  BY DEF LocalEdit
<1>1. PICK new \in [es -> Cell], at \in 1..(Len(outbox[d]) + 1) :
        Enqueue(d, [e \in Entities |->
                      IF e \in es THEN [prev |-> table[d][e], val |-> new[e],
                                        resolves |-> {}] ELSE None], at)
  BY <1>a
<1> DEFINE edits == [e \in Entities |->
                       IF e \in es THEN [prev |-> table[d][e], val |-> new[e],
                                         resolves |-> {}] ELSE None]
<1>2. edits \in [Entities -> Edits \cup {None}]
  BY DEF Edits, TypeOK
<1> HIDE DEF edits
<1>3. Enqueue(d, edits, at)
  BY <1>1 DEF edits
<1> QED
  BY <1>2, <1>3, EnqueueType DEF LocalEdit, TypeOK, serverVars

\* A user's decision keeps the types.
LEMMA ResolveType ==
    ASSUME TypeOK, NEW d \in Devices, NEW gid \in GroupIds, NEW keepLocal \in BOOLEAN,
           Resolve(d, gid, keepLocal), spent.groups < MaxGroups
    PROVE  TypeOK'
<1> DEFINE group == ConflictsOf(d, gid)
           about(e) == CHOOSE c \in group : c.ent = e
           desired(e) == IF keepLocal THEN table[d][e] ELSE about(e).val
           edits == [e \in Entities |->
                       IF \E c \in group : c.ent = e
                       THEN [prev |-> table[d][e], val |-> desired(e),
                             resolves |-> {about(e).local, about(e).op} \ {None}]
                       ELSE None]
<1>1. group \subseteq Conflicts
  BY DEF ConflictsOf, TypeOK
<1>2. ASSUME NEW e \in Entities, \E c \in group : c.ent = e
      PROVE  [prev |-> table[d][e], val |-> desired(e),
              resolves |-> {about(e).local, about(e).op} \ {None}] \in Edits
  <2>1. about(e) \in Conflicts
    BY <1>1, <1>2
  <2> HIDE DEF about
  <2>2. desired(e) \in Cell /\ table[d][e] \in Cell
    BY <2>1 DEF Conflicts, TypeOK
  <2>3. {about(e).local, about(e).op} \ {None} \in SUBSET OpIds
    BY <2>1 DEF Conflicts
  <2> QED
    BY <2>2, <2>3 DEF Edits
<1>3. edits \in [Entities -> Edits \cup {None}]
  BY <1>2
<1>4. Enqueue(d, edits, Len(outbox[d]) + 1)
  BY DEF Resolve
<1>5. Len(outbox[d]) + 1 \in 1..(Len(outbox[d]) + 1)
  BY DEF TypeOK
<1>6. conflicts' \in [Devices -> SUBSET Conflicts]
  <2>1. \A c \in group : [c EXCEPT !.pending = FALSE] \in Conflicts
    BY <1>1 DEF Conflicts
  <2>2. conflicts' = [conflicts EXCEPT ![d] =
                        (@ \ group) \cup {[c EXCEPT !.pending = FALSE] : c \in group}]
    BY DEF Resolve
  <2> HIDE DEF group
  <2> QED
    BY <2>1, <2>2 DEF TypeOK
<1> HIDE DEF edits
<1>7. /\ outbox' \in [Devices -> Seq(Groups)]
      /\ table' \in [Devices -> [Entities -> Cell]]
      /\ spent' \in [groups : 0..MaxGroups, failures : 0..MaxFailures,
                      clockSteps : 0..MaxClockSteps]
  BY <1>3, <1>4, <1>5, EnqueueType
<1> QED
  BY <1>6, <1>7 DEF Resolve, TypeOK, serverVars

\* Signing a group keeps the types: its operations are well-formed.
LEMMA PrepareType ==
    ASSUME TypeOK, NEW d \in Devices, Prepare(d)
    PROVE  TypeOK'
<1> DEFINE group == FirstGroup(d)
           es    == Touched(group)
           op(e) == PreparedOp(d, group, e)
           ops   == [e \in Entities |-> IF e \in es THEN op(e) ELSE None]
           states == [e \in Entities |->
                        IF e \in es THEN [hash |-> op(e).res, last |-> op(e).id]
                                    ELSE state[d][e]]
<1>1. /\ outbox[d] \in Seq(Groups) /\ outbox[d] # <<>> /\ group = outbox[d][1]
      /\ group \in Groups
  BY DEF Prepare, Uploading, FirstGroup, TypeOK
<1>2. \A e \in es : op(e) \in Operations /\ [hash |-> op(e).res, last |-> op(e).id] \in States
  BY <1>1, PreparedOpType
<1>3. /\ outbox' = [outbox EXCEPT ![d][1].ops = ops]
      /\ state' = [state EXCEPT ![d] = states]
      /\ frontier' = [frontier EXCEPT ![d][d] = @ + Cardinality(es)]
  BY DEF Prepare
<1>4. Cardinality(es) \in Nat
  BY TouchedFinite
<1>5. ops \in [Entities -> Operations \cup {None}]
  BY <1>2
<1>6. states \in [Entities -> States]
  BY <1>2 DEF TypeOK
<1> HIDE DEF ops, states, op, es
<1>7. outbox' \in [Devices -> Seq(Groups)]
  <2>1. [group EXCEPT !.ops = ops] \in Groups
    BY <1>1, <1>5 DEF Groups
  <2>2. [outbox[d] EXCEPT ![1] = [group EXCEPT !.ops = ops]] \in Seq(Groups)
    BY <1>1, <2>1
  <2>3. outbox' = [outbox EXCEPT ![d] = [outbox[d] EXCEPT ![1] = [group EXCEPT !.ops = ops]]]
    BY <1>1, <1>3 DEF TypeOK
  <2> QED
    BY <2>2, <2>3 DEF TypeOK
<1>8. state' \in [Devices -> [Entities -> States]]
  BY <1>3, <1>6 DEF TypeOK
<1>9. frontier' \in [Devices -> [Devices -> Nat]]
  BY <1>3, <1>4 DEF TypeOK
<1> QED
  BY <1>7, <1>8, <1>9 DEF Prepare, TypeOK, serverVars

\* What the upload and its lost variant do to the log.
LEMMA LogAfterType ==
    ASSUME TypeOK, NEW op \in Operations
    PROVE  /\ LogAfter(op) \in Seq(Operations)
           /\ Len(log) <= Len(LogAfter(op))
           /\ Len(log) \in Nat /\ Len(LogAfter(op)) \in Nat
           /\ CursorOf(op) \in 1..Len(LogAfter(op))
<1>1. log \in Seq(Operations) /\ Len(log) \in Nat
  BY DEF TypeOK
<1>2. CASE Stored(op) = {}
  BY <1>1, <1>2 DEF LogAfter, CursorOf
<1>3. CASE Stored(op) # {}
  <2>1. CursorOf(op) \in Stored(op)
    BY <1>3 DEF CursorOf
  <2> QED
    BY <1>1, <1>3, <2>1 DEF LogAfter, Stored
<1> QED
  BY <1>2, <1>3

\* A longer log keeps the inboxes and cursors inside it.
LEMMA LongerLogType ==
    ASSUME TypeOK, NEW l \in Seq(Operations), Len(log) <= Len(l)
    PROVE  /\ received \in [Devices -> SUBSET (1..Len(l))]
           /\ processed \in [Devices -> SUBSET (1..Len(l))]
           /\ lastCursor \in [Devices -> 0..Len(l)]
<1>1. Len(log) \in Nat /\ Len(l) \in Nat
  BY DEF TypeOK
<1>2. 1..Len(log) \subseteq 1..Len(l) /\ 0..Len(log) \subseteq 0..Len(l)
  BY <1>1
<1> QED
  BY <1>2 DEF TypeOK

\* An answered upload keeps the types; the record it moves is in the log.
LEMMA UploadType ==
    ASSUME TypeOK, NEW d \in Devices, Upload(d)
    PROVE  TypeOK'
<1>1. PICK e \in Entities :
        LET op   == FirstGroup(d).ops[e]
            rest == [FirstGroup(d) EXCEPT !.ops[e] = None]
        IN  /\ Sends(d, e) /\ Accepts(op)
            /\ log' = LogAfter(op)
            /\ processed' = [processed EXCEPT ![d] = @ \cup {CursorOf(op)}]
            /\ outbox' = [outbox EXCEPT ![d] =
                             IF Prepared(rest) THEN [@ EXCEPT ![1] = rest] ELSE Tail(@)]
  BY DEF Upload
<1> DEFINE op   == FirstGroup(d).ops[e]
           rest == [FirstGroup(d) EXCEPT !.ops[e] = None]
<1>2. /\ outbox[d] \in Seq(Groups) /\ outbox[d] # <<>>
      /\ FirstGroup(d) = outbox[d][1] /\ FirstGroup(d) \in Groups
  BY DEF Upload, Uploading, FirstGroup, TypeOK
<1>3. op \in Operations
  BY <1>1, <1>2 DEF Sends, Signed, Groups
<1>4. rest \in Groups
  BY <1>2 DEF Groups
<1>5. /\ log' = LogAfter(op)
      /\ processed' = [processed EXCEPT ![d] = @ \cup {CursorOf(op)}]
      /\ outbox' = [outbox EXCEPT ![d] =
                       IF Prepared(rest) THEN [@ EXCEPT ![1] = rest] ELSE Tail(@)]
  BY <1>1
<1> HIDE DEF op, rest
<1>6. /\ log' \in Seq(Operations) /\ Len(log) <= Len(log')
      /\ CursorOf(op) \in 1..Len(log')
  BY <1>3, <1>5, LogAfterType
<1>7. outbox' \in [Devices -> Seq(Groups)]
  <2>1. [outbox[d] EXCEPT ![1] = rest] \in Seq(Groups) /\ Tail(outbox[d]) \in Seq(Groups)
    BY <1>2, <1>4
  <2> QED
    BY <1>5, <2>1 DEF TypeOK
<1>8. /\ received \in [Devices -> SUBSET (1..Len(log'))]
      /\ processed \in [Devices -> SUBSET (1..Len(log'))]
      /\ lastCursor \in [Devices -> 0..Len(log')]
  BY <1>6, LongerLogType
<1>9. processed' \in [Devices -> SUBSET (1..Len(log'))]
  BY <1>5, <1>6, <1>8
<1> QED
  BY <1>6, <1>7, <1>8, <1>9 DEF Upload, TypeOK

\* A counted failure stays within its bound.
LEMMA FailureSpent ==
    ASSUME TypeOK, spent.failures < MaxFailures,
           spent' = [spent EXCEPT !.failures = @ + 1]
    PROVE  spent' \in [groups : 0..MaxGroups, failures : 0..MaxFailures,
                       clockSteps : 0..MaxClockSteps]
<1>1. spent \in [groups : 0..MaxGroups, failures : 0..MaxFailures,
                 clockSteps : 0..MaxClockSteps]
  BY DEF TypeOK
<1>2. spent.failures + 1 \in 0..MaxFailures
  BY <1>1, SyncAssumption DEF SyncAssumption
<1> QED
  BY <1>1, <1>2

\* An upload whose answer is lost keeps the types.
LEMMA UploadUnansweredType ==
    ASSUME TypeOK, NEW d \in Devices, UploadUnanswered(d)
    PROVE  TypeOK'
<1>1. PICK e \in Entities :
        Sends(d, e) /\ log' = LogAfter(FirstGroup(d).ops[e])
  BY DEF UploadUnanswered
<1>2. FirstGroup(d) \in Groups
  BY DEF UploadUnanswered, Uploading, FirstGroup, TypeOK
<1>3. FirstGroup(d).ops[e] \in Operations
  BY <1>1, <1>2 DEF Sends, Signed, Groups
<1>4. log' \in Seq(Operations) /\ Len(log) <= Len(log')
  BY <1>1, <1>3, LogAfterType
<1>5. /\ received \in [Devices -> SUBSET (1..Len(log'))]
      /\ processed \in [Devices -> SUBSET (1..Len(log'))]
      /\ lastCursor \in [Devices -> 0..Len(log')]
  BY <1>4, LongerLogType
<1>6. spent' \in [groups : 0..MaxGroups, failures : 0..MaxFailures,
                  clockSteps : 0..MaxClockSteps]
  BY FailureSpent DEF UploadUnanswered
<1> QED
  BY <1>4, <1>5, <1>6 DEF UploadUnanswered, TypeOK, deviceVars

\* A page lies between the device's cursor and the end of the log.
LEMMA PageInLog ==
    ASSUME TypeOK, NEW d \in Devices
    PROVE  PageEnd(d) \in lastCursor[d]..Len(log) /\ Page(d) \subseteq 1..Len(log)
<1>1. lastCursor[d] \in 0..Len(log) /\ Len(log) \in Nat /\ PageSize \in Nat
  BY SyncAssumption DEF SyncAssumption, TypeOK
<1> QED
  BY <1>1 DEF PageEnd, Page

\* Staging a page keeps the types: the page lies in the log.
LEMMA PullType ==
    ASSUME TypeOK, NEW d \in Devices, Pull(d)
    PROVE  TypeOK'
<1>1. PageEnd(d) \in 0..Len(log)
  <2>1. lastCursor[d] \in Nat /\ Len(log) \in Nat
    BY DEF TypeOK
  <2>2. PageEnd(d) \in lastCursor[d]..Len(log)
    BY PageInLog
  <2> QED
    BY <2>1, <2>2
<1>2. received' \in [Devices -> SUBSET (1..Len(log))]
  BY PageInLog DEF Pull, TypeOK
<1>3. lastCursor' \in [Devices -> 0..Len(log)] /\ phase' \in [Devices -> Phases]
  BY <1>1 DEF Pull, TypeOK, Phases
<1> QED
  BY <1>2, <1>3 DEF Pull, TypeOK, serverVars

\* Writing a remote group keeps the types.
LEMMA AcceptGroupType ==
    ASSUME TypeOK, NEW d \in Devices, NEW group \in SUBSET (1..Len(log)),
           AcceptGroup(d, group)
    PROVE  /\ table' \in [Devices -> [Entities -> Cell]]
           /\ state' \in [Devices -> [Entities -> States]]
           /\ conflicts' \in [Devices -> SUBSET Conflicts]
           /\ overtaken' \subseteq Devices \X Entities
<1>1. \A c \in group : log[c] \in Operations
  BY DEF TypeOK
<1>2. ASSUME NEW e \in Entities, Writes(group, e)
      PROVE  /\ OpOn(group, e) \in Operations
             /\ OpOn(group, e).res.val \in Cell
             /\ Current(d, OpOn(group, e)) \in States
             /\ [hash |-> OpOn(group, e).res, last |-> OpOn(group, e).id] \in States
  <2>1. OpOn(group, e) \in Operations
    BY <1>1, <1>2 DEF Writes, OpOn
  <2>2. OpOn(group, e).res.val \in Cell
    BY <2>1 DEF Operations, Hashes
  <2>3. state[d][OpOn(group, e).ent] \in States /\ table[d][OpOn(group, e).ent] \in Cell
    BY <2>1 DEF Operations, TypeOK
  <2>4. [hash |-> OpOn(group, e).res, last |-> OpOn(group, e).id] \in States
    BY <2>1 DEF Operations, States
  <2> QED
    BY <2>1, <2>2, <2>3, <2>4, KnownType DEF Current
<1>3. TableAfter(d, group) \in [Entities -> Cell]
  <2>1. table[d] \in [Entities -> Cell]
    BY DEF TypeOK
  <2>2. \A e \in Entities : Writes(group, e) => OpOn(group, e).res.val \in Cell
    BY <1>2
  <2> QED
    BY <2>1, <2>2 DEF TableAfter
<1>4. StateAfter(d, group) \in [Entities -> States]
  BY <1>2 DEF StateAfter, TypeOK
<1>5. table' \in [Devices -> [Entities -> Cell]] /\ state' \in [Devices -> [Entities -> States]]
  BY <1>3, <1>4 DEF AcceptGroup, TypeOK
<1>6. conflicts' \in [Devices -> SUBSET Conflicts]
  <2> DEFINE decided == UNION {Resolved(d, log[c]) : c \in group}
  <2>1. conflicts[d] \subseteq Conflicts /\ decided \subseteq Conflicts
    BY DEF Resolved, TypeOK
  <2>2. \A k \in decided : [k EXCEPT !.pending = FALSE] \in Conflicts
    BY <2>1 DEF Conflicts
  <2>3. conflicts' = [conflicts EXCEPT ![d] =
                        (@ \ decided) \cup {[k EXCEPT !.pending = FALSE] : k \in decided}]
    BY DEF AcceptGroup
  <2> HIDE DEF decided
  <2> QED
    BY <2>1, <2>2, <2>3 DEF TypeOK
<1>7. overtaken' \subseteq Devices \X Entities
  BY DEF AcceptGroup, TypeOK
<1> QED
  BY <1>5, <1>6, <1>7

\* Recording a group as a conflict keeps the types.
LEMMA RecordConflictType ==
    ASSUME TypeOK, NEW d \in Devices, NEW group \in SUBSET (1..Len(log)),
           RecordConflict(d, group)
    PROVE  conflicts' \in [Devices -> SUBSET Conflicts]
<1>1. ASSUME NEW c \in group
      PROVE  ConflictRecord(d, log[c]) \in Conflicts
  <2>1. log[c] \in Operations
    BY DEF TypeOK
  <2>a. log[c].ent \in Entities
    BY <2>1 DEF Operations
  <2>2. state[d][log[c].ent] \in States /\ table[d][log[c].ent] \in Cell
    BY <2>a DEF TypeOK
  <2>3. Current(d, log[c]) \in States
    BY <2>2, KnownType DEF Current
  <2>4. Current(d, log[c]).last \in OpIds \cup {None} /\ log[c].res.val \in Cell
    BY <2>1, <2>3 DEF States, Operations, Hashes
  <2> QED
    BY <2>1, <2>4 DEF ConflictRecord, Conflicts, Operations
<1> QED
  BY <1>1 DEF RecordConflict, TypeOK

\* Applying or refusing a group keeps the types.
LEMMA ApplyGroupType ==
    ASSUME TypeOK, NEW d \in Devices, ApplyGroup(d)
    PROVE  TypeOK'
<1>1. PICK first \in received[d], newest \in received[d] :
        LET group == Members(d, log[first].gid)
        IN  /\ newest \in group
            /\ received' = [received EXCEPT ![d] = @ \ group]
            /\ processed' = [processed EXCEPT ![d] = @ \cup group]
            /\ frontier' = [frontier EXCEPT ![d] = FrontierAfter(d, newest)]
            /\ IF \A c \in group : Accepted(d, log[c])
               THEN AcceptGroup(d, group) ELSE RecordConflict(d, group)
  BY DEF ApplyGroup
<1> DEFINE group == Members(d, log[first].gid)
<1>2. group \subseteq received[d] /\ group \in SUBSET (1..Len(log)) /\ newest \in 1..Len(log)
  BY DEF Members, TypeOK
<1>3. log[newest].seq \in Nat
  <2>1. log[newest] \in Operations
    BY <1>2 DEF TypeOK
  <2> QED
    BY <2>1 DEF Operations
<1>4. FrontierAfter(d, newest) \in [Devices -> Nat]
  BY <1>3 DEF FrontierAfter, TypeOK
<1>5. /\ received' = [received EXCEPT ![d] = @ \ group]
      /\ processed' = [processed EXCEPT ![d] = @ \cup group]
      /\ frontier' = [frontier EXCEPT ![d] = FrontierAfter(d, newest)]
      /\ AcceptGroup(d, group) \/ RecordConflict(d, group)
  BY <1>1
<1> HIDE DEF group
<1>6. /\ received' \in [Devices -> SUBSET (1..Len(log))]
      /\ processed' \in [Devices -> SUBSET (1..Len(log))]
      /\ frontier' \in [Devices -> [Devices -> Nat]]
  BY <1>2, <1>4, <1>5 DEF TypeOK
<1>7. /\ table' \in [Devices -> [Entities -> Cell]]
      /\ state' \in [Devices -> [Entities -> States]]
      /\ conflicts' \in [Devices -> SUBSET Conflicts]
      /\ overtaken' \subseteq Devices \X Entities
  <2>1. CASE AcceptGroup(d, group)
    BY <1>2, <2>1, AcceptGroupType
  <2>2. CASE RecordConflict(d, group)
    BY <1>2, <2>2, RecordConflictType DEF RecordConflict, TypeOK
  <2> QED
    BY <1>5, <2>1, <2>2
<1> QED
  BY <1>6, <1>7 DEF ApplyGroup, TypeOK, serverVars

\* Ending, abandoning or interrupting a cycle keeps the types.
LEMMA CycleStepType ==
    ASSUME TypeOK, NEW d \in Devices, GroupIncomplete(d) \/ Finish(d) \/ Interrupt(d)
    PROVE  TypeOK'
<1>1. CASE GroupIncomplete(d)
  BY <1>1 DEF GroupIncomplete, TypeOK, Phases, serverVars, deviceVars
<1>2. CASE Finish(d)
  <2>1. acked' \in [Devices -> Nat]
    BY <1>2 DEF Finish, TypeOK
  <2> QED
    BY <1>2, <2>1 DEF Finish, TypeOK, Phases, deviceVars
<1>3. CASE Interrupt(d)
  <2>1. spent' \in [groups : 0..MaxGroups, failures : 0..MaxFailures,
                    clockSteps : 0..MaxClockSteps]
    BY <1>3, FailureSpent DEF Interrupt
  <2> QED
    BY <1>3, <2>1 DEF Interrupt, TypeOK, Phases, serverVars, deviceVars
<1> QED
  BY <1>1, <1>2, <1>3

\* Every reachable state is well-typed: no transaction of a device, lost answer
\* or interruption leaves an inbox or cursor beyond the service's log, or an
\* ill-formed operation, state or conflict record.
THEOREM TypeCorrect == Spec => []TypeOK
<1>1. Init => TypeOK
  BY InitType
<1>2. TypeOK /\ [Next]_vars => TypeOK'
  <2> SUFFICES ASSUME TypeOK, [Next]_vars
               PROVE  TypeOK'
    OBVIOUS
  <2>1. CASE Next
    <3>1. PICK d \in Devices : SyncStep(d) \/ UserStep(d) \/ Fault(d)
      BY <2>1 DEF Next
    <3>2. CASE SyncStep(d)
      BY <3>2, PrepareType, UploadType, PullType, ApplyGroupType, CycleStepType DEF SyncStep
    <3>3. CASE UserStep(d)
      BY <3>3, LocalEditType, ResolveType DEF UserStep
    <3>4. CASE Fault(d)
      BY <3>4, UploadUnansweredType, CycleStepType DEF Fault
    <3> QED
      BY <3>1, <3>2, <3>3, <3>4
  <2>2. CASE UNCHANGED vars
    BY <2>2 DEF vars, serverVars, deviceVars, TypeOK
  <2> QED
    BY <2>1, <2>2
<1> QED
  BY <1>1, <1>2, PTL DEF Spec

-----------------------------------------------------------------------------
(* Acknowledgements: the invariant AckInv.                                 *)

\* Where each element of a sequence is after an insertion.
LEMMA InsertAtElements ==
    ASSUME NEW S, NEW s \in Seq(S), NEW i \in 1..(Len(s) + 1), NEW x \in S
    PROVE  /\ Len(InsertAt(s, i, x)) = Len(s) + 1
           /\ \A j \in 1..(Len(s) + 1) :
                InsertAt(s, i, x)[j] = IF j < i THEN s[j]
                                       ELSE IF j = i THEN x ELSE s[j - 1]
<1> DEFINE a == SubSeq(s, 1, i - 1)
           b == SubSeq(s, i, Len(s))
           m == a \o <<x>>
<1>1. a \in Seq(S) /\ Len(a) = i - 1 /\ \A j \in 1..(i - 1) : a[j] = s[j]
  OBVIOUS
<1>2. /\ b \in Seq(S) /\ Len(b) = Len(s) + 1 - i
      /\ \A j \in 1..(Len(s) + 1 - i) : b[j] = s[i + j - 1]
  OBVIOUS
<1>3. InsertAt(s, i, x) = m \o b
  BY DEF InsertAt
<1> HIDE DEF a, b
<1>4. m \in Seq(S) /\ Len(m) = i /\ m[i] = x /\ \A j \in 1..(i - 1) : m[j] = s[j]
  BY <1>1
<1> HIDE DEF m
<1>5. /\ Len(m \o b) = Len(s) + 1
      /\ \A j \in 1..(Len(s) + 1) : (m \o b)[j] = IF j <= i THEN m[j] ELSE b[j - i]
  <2>1. /\ Len(m \o b) = Len(m) + Len(b)
        /\ \A j \in 1..(Len(m) + Len(b)) :
             (m \o b)[j] = IF j <= Len(m) THEN m[j] ELSE b[j - Len(m)]
    BY <1>2, <1>4, ConcatProperties
  <2>2. Len(m) = i /\ Len(m) + Len(b) = Len(s) + 1
    BY <1>2, <1>4
  <2> QED
    BY <2>1, <2>2
<1>6. ASSUME NEW j \in 1..(Len(s) + 1), j > i
      PROVE  b[j - i] = s[j - 1]
  <2>1. j - i \in 1..(Len(s) + 1 - i) /\ i + (j - i) - 1 = j - 1
    BY <1>6
  <2> QED
    BY <1>2, <2>1
<1>7. Len(InsertAt(s, i, x)) = Len(s) + 1
  BY <1>3, <1>5
<1>8. ASSUME NEW j \in 1..(Len(s) + 1)
      PROVE  InsertAt(s, i, x)[j] = IF j < i THEN s[j]
                                    ELSE IF j = i THEN x ELSE s[j - 1]
  <2>1. InsertAt(s, i, x)[j] = IF j <= i THEN m[j] ELSE b[j - i]
    BY <1>3, <1>5
  <2>2. CASE j < i
    <3>1. j \in 1..(i - 1)
      BY <2>2
    <3>2. m[j] = s[j]
      BY <3>1, <1>4
    <3> QED
      BY <2>1, <2>2, <3>2
  <2>3. CASE j = i
    BY <2>1, <2>3, <1>4
  <2>4. CASE j > i
    <3>1. b[j - i] = s[j - 1]
      BY <2>4, <1>6
    <3> QED
      BY <2>1, <2>4, <3>1
  <2> QED
    BY <2>2, <2>3, <2>4
<1> QED
  BY <1>7, <1>8

\* AckInv holds of a bootstrapped vault.
LEMMA InitAck == Init => AckInv
BY DEF Init, AckInv, InboxCovers, InInbox, InboxOnce, OwnNeverReceived, AckedProcessed,
     PendingConflictsHoldAck, Pending, LogIdsUnique, SignedAreOwn, OwnAreUploading

\* Committing a group signs nothing, and never puts it ahead of a signed one.
LEMMA EnqueueAck ==
    ASSUME TypeOK, AckInv, NEW d \in Devices,
           NEW edits \in [Entities -> Edits \cup {None}],
           NEW at \in 1..(Len(outbox[d]) + 1), Enqueue(d, edits, at),
           UNCHANGED <<log, processed, phase>>
    PROVE  SignedAreOwn' /\ OwnAreUploading'
<1> DEFINE group == [gid |-> <<d, spent.groups + 1>>, edits |-> edits,
                     ops |-> [e \in Entities |-> None]]
           box == outbox[d]
<1>1. /\ box \in Seq(Groups) /\ Len(box) \in Nat /\ at \in 1..(Len(box) + 1)
      /\ outbox' = [outbox EXCEPT ![d] = InsertAt(box, at, group)]
      /\ outbox'[d] = InsertAt(box, at, group)
      /\ \A x \in Devices \ {d} : outbox'[x] = outbox[x]
      /\ at <= Len(box) => ~Prepared(box[at])
  BY DEF Enqueue, TypeOK
<1>2. Signed(group) = {}
  BY DEF Signed
<1> DEFINE G == Groups \cup {group}
<1>3. box \in Seq(G) /\ group \in G
  BY <1>1
<1> HIDE DEF group, box, G
<1>4. /\ Len(outbox'[d]) = Len(box) + 1
      /\ \A j \in 1..(Len(box) + 1) :
            outbox'[d][j] = IF j < at THEN box[j] ELSE IF j = at THEN group ELSE box[j - 1]
  BY <1>1, <1>3, InsertAtElements DEF box
<1>5. SignedAreOwn'
  <2> SUFFICES ASSUME NEW x \in Devices, NEW i \in 1..Len(outbox'[x]),
                      NEW e \in Signed(outbox'[x][i])
               PROVE  outbox'[x][i].ops[e].dev = x
    BY DEF SignedAreOwn
  <2>1. CASE x # d
    BY <1>1, <2>1 DEF AckInv, SignedAreOwn
  <2>2. CASE x = d
    <3>1. i \in 1..(Len(box) + 1) /\ i # at
      BY <1>2, <1>4, <2>2
    <3>2. \E j \in 1..Len(box) : outbox'[d][i] = box[j]
      <4>1. CASE i < at
        BY <1>1, <1>4, <3>1, <4>1
      <4>2. CASE i > at
        <5>1. i - 1 \in 1..Len(box) /\ outbox'[d][i] = box[i - 1]
          BY <1>1, <1>4, <3>1, <4>2
        <5> QED
          BY <5>1
      <4> QED
        BY <1>1, <3>1, <4>1, <4>2
    <3> QED
      BY <2>2, <3>2 DEF AckInv, SignedAreOwn, box
  <2> QED
    BY <2>1, <2>2
<1>6. OwnAreUploading'
  <2> SUFFICES ASSUME NEW x \in Devices, NEW c \in 1..Len(log),
                      log[c].dev = x, c \notin processed[x]
               PROVE  /\ phase[x] = "upload" /\ outbox'[x] # <<>>
                      /\ \E e \in Signed(outbox'[x][1]) : outbox'[x][1].ops[e] = log[c]
    BY DEF OwnAreUploading, FirstGroup
  <2>1. /\ phase[x] = "upload" /\ outbox[x] # <<>>
        /\ \E e \in Signed(outbox[x][1]) : outbox[x][1].ops[e] = log[c]
    BY DEF AckInv, OwnAreUploading, FirstGroup
  <2>2. CASE x # d
    BY <1>1, <2>1, <2>2
  <2>3. CASE x = d
    <3>1. Len(box) >= 1 /\ Prepared(box[1])
      BY <1>1, <2>1, <2>3 DEF Prepared, box
    <3>2. at # 1
      BY <1>1, <3>1
    <3>3. outbox'[d][1] = box[1] /\ outbox'[d] # <<>>
      BY <1>1, <1>4, <3>1, <3>2
    <3> QED
      BY <2>1, <2>3, <3>3 DEF box
  <2> QED
    BY <2>2, <2>3
<1> QED
  BY <1>5, <1>6

\* The parts of AckInv that speak of the log, the inbox and the
\* acknowledgements only.
LEMMA InboxUnchanged ==
    ASSUME AckInv, UNCHANGED <<log, acked, received, processed, lastCursor>>
    PROVE  /\ InboxCovers' /\ InboxOnce' /\ OwnNeverReceived'
           /\ AckedProcessed' /\ LogIdsUnique'
BY DEF AckInv, InboxCovers, InInbox, InboxOnce, OwnNeverReceived, AckedProcessed, LogIdsUnique

\* A finance command keeps AckInv.
LEMMA LocalEditAck ==
    ASSUME TypeOK, AckInv, NEW d \in Devices, LocalEdit(d)
    PROVE  AckInv'
<1>1. PICK edits \in [Entities -> Edits \cup {None}], at \in 1..(Len(outbox[d]) + 1) :
        Enqueue(d, edits, at)
  <2>1. PICK es \in SUBSET Entities \ {{}} :
          \E new \in [es -> Cell] : \E at \in 1..(Len(outbox[d]) + 1) :
             Enqueue(d, [e \in Entities |->
                           IF e \in es THEN [prev |-> table[d][e], val |-> new[e],
                                             resolves |-> {}] ELSE None], at)
    BY DEF LocalEdit
  <2>2. PICK new \in [es -> Cell], at \in 1..(Len(outbox[d]) + 1) :
          Enqueue(d, [e \in Entities |->
                        IF e \in es THEN [prev |-> table[d][e], val |-> new[e],
                                          resolves |-> {}] ELSE None], at)
    BY <2>1
  <2>3. [e \in Entities |-> IF e \in es THEN [prev |-> table[d][e], val |-> new[e],
                                            resolves |-> {}] ELSE None]
          \in [Entities -> Edits \cup {None}]
    BY DEF Edits, TypeOK
  <2> QED
    BY <2>2, <2>3
<1>2. SignedAreOwn' /\ OwnAreUploading'
  BY <1>1, EnqueueAck DEF LocalEdit, serverVars
<1>3. PendingConflictsHoldAck'
  BY DEF AckInv, PendingConflictsHoldAck, Pending, LocalEdit, serverVars
<1> QED
  BY <1>2, <1>3, InboxUnchanged DEF AckInv, LocalEdit, serverVars

\* Deciding conflicts opens none.
LEMMA ClosingConflicts ==
    ASSUME TypeOK, NEW d \in Devices, NEW decided \in SUBSET Conflicts,
           conflicts' = [conflicts EXCEPT ![d] =
              (@ \ decided) \cup {[k EXCEPT !.pending = FALSE] : k \in decided}]
    PROVE  \A x \in Devices : \A k \in Pending(x)' : k \in Pending(x)
<1> SUFFICES ASSUME NEW x \in Devices, NEW k \in Pending(x)'
             PROVE  k \in Pending(x)
  OBVIOUS
<1>1. k \in conflicts'[x] /\ k.pending
  BY DEF Pending
<1>2. CASE x # d
  BY <1>1, <1>2 DEF Pending, TypeOK
<1>3. CASE x = d
  <2>1. k \in (conflicts[d] \ decided) \/ \E j \in decided : k = [j EXCEPT !.pending = FALSE]
    BY <1>1, <1>3 DEF TypeOK
  <2>2. ASSUME NEW j \in decided, k = [j EXCEPT !.pending = FALSE]
        PROVE  FALSE
    <3>1. k.pending = FALSE
      BY <2>2 DEF Conflicts
    <3> QED
      BY <1>1, <3>1
  <2> QED
    BY <1>1, <1>3, <2>1, <2>2 DEF Pending
<1> QED
  BY <1>2, <1>3

\* A user's decision keeps AckInv.
LEMMA ResolveAck ==
    ASSUME TypeOK, AckInv, NEW d \in Devices, NEW gid \in GroupIds,
           NEW keepLocal \in BOOLEAN, Resolve(d, gid, keepLocal)
    PROVE  AckInv'
<1> DEFINE group == ConflictsOf(d, gid)
           about(e) == CHOOSE c \in group : c.ent = e
           desired(e) == IF keepLocal THEN table[d][e] ELSE about(e).val
           edits == [e \in Entities |->
                       IF \E c \in group : c.ent = e
                       THEN [prev |-> table[d][e], val |-> desired(e),
                             resolves |-> {about(e).local, about(e).op} \ {None}]
                       ELSE None]
<1>1. group \subseteq Conflicts
  BY DEF ConflictsOf, TypeOK
<1>2. edits \in [Entities -> Edits \cup {None}]
  <2>1. ASSUME NEW e \in Entities, \E c \in group : c.ent = e
        PROVE  [prev |-> table[d][e], val |-> desired(e),
                resolves |-> {about(e).local, about(e).op} \ {None}] \in Edits
    <3>1. about(e) \in Conflicts
      BY <1>1, <2>1
    <3> HIDE DEF about
    <3>2. desired(e) \in Cell /\ table[d][e] \in Cell
      BY <3>1 DEF Conflicts, TypeOK
    <3>3. {about(e).local, about(e).op} \ {None} \in SUBSET OpIds
      BY <3>1 DEF Conflicts
    <3> QED
      BY <3>2, <3>3 DEF Edits
  <2> QED
    BY <2>1
<1>3. Enqueue(d, edits, Len(outbox[d]) + 1)
  BY DEF Resolve
<1>4. Len(outbox[d]) + 1 \in 1..(Len(outbox[d]) + 1)
  BY DEF TypeOK
<1>5. PendingConflictsHoldAck'
  <2>1. UNCHANGED <<log, acked>>
    BY DEF Resolve, serverVars
  <2>2. \A x \in Devices : \A k \in Pending(x)' : k \in Pending(x)
    <3>1. conflicts' = [conflicts EXCEPT ![d] =
                          (@ \ group) \cup {[c EXCEPT !.pending = FALSE] : c \in group}]
      BY DEF Resolve
    <3> HIDE DEF group
    <3> QED
      BY <1>1, <3>1, ClosingConflicts
  <2> QED
    BY <2>1, <2>2 DEF AckInv, PendingConflictsHoldAck
<1> HIDE DEF edits
<1>6. SignedAreOwn' /\ OwnAreUploading'
  BY <1>2, <1>3, <1>4, EnqueueAck DEF Resolve, serverVars
<1> QED
  BY <1>5, <1>6, InboxUnchanged DEF AckInv, Resolve, serverVars

\* Signing the first group keeps AckInv: it signs as the device itself.
LEMMA PrepareAck ==
    ASSUME TypeOK, AckInv, NEW d \in Devices, Prepare(d)
    PROVE  AckInv'
<1> DEFINE group == FirstGroup(d)
           es    == Touched(group)
           ops   == [e \in Entities |-> IF e \in es THEN PreparedOp(d, group, e) ELSE None]
           signed == [group EXCEPT !.ops = ops]
<1>1. /\ outbox[d] \in Seq(Groups) /\ outbox[d] # <<>> /\ group = outbox[d][1]
      /\ group \in Groups /\ ~Prepared(group)
  BY DEF Prepare, Uploading, FirstGroup, TypeOK
<1>2. /\ outbox'[d] = [outbox[d] EXCEPT ![1] = signed]
      /\ \A x \in Devices \ {d} : outbox'[x] = outbox[x]
  BY <1>1 DEF Prepare, TypeOK
<1>3. \A e \in Signed(signed) : signed.ops[e].dev = d
  <2>1. signed.ops = ops
    BY <1>1 DEF Groups
  <2>2. \A e \in Signed(signed) : e \in es /\ signed.ops[e] = PreparedOp(d, group, e)
    <3> HIDE DEF es, signed
    <3> QED
      BY <2>1 DEF Signed
  <2>3. ASSUME NEW e
        PROVE  PreparedOp(d, group, e).dev = d
    BY DEF PreparedOp
  <2> QED
    BY <2>2, <2>3
<1> HIDE DEF signed
<1>4. SignedAreOwn'
  <2> SUFFICES ASSUME NEW x \in Devices, NEW i \in 1..Len(outbox'[x]),
                      NEW e \in Signed(outbox'[x][i])
               PROVE  outbox'[x][i].ops[e].dev = x
    BY DEF SignedAreOwn
  <2>1. CASE x # d \/ i # 1
    <3>1. i \in 1..Len(outbox[x]) /\ outbox'[x][i] = outbox[x][i]
      BY <1>1, <1>2, <2>1
    <3>2. \A f \in Signed(outbox[x][i]) : outbox[x][i].ops[f].dev = x
      BY <3>1 DEF AckInv, SignedAreOwn
    <3> QED
      BY <3>1, <3>2
  <2>2. CASE x = d /\ i = 1
    BY <1>1, <1>2, <1>3, <2>2
  <2> QED
    BY <2>1, <2>2
<1>5. OwnAreUploading'
  <2> SUFFICES ASSUME NEW x \in Devices, NEW c \in 1..Len(log),
                      log[c].dev = x, c \notin processed[x]
               PROVE  /\ phase[x] = "upload" /\ outbox'[x] # <<>>
                      /\ \E e \in Signed(outbox'[x][1]) : outbox'[x][1].ops[e] = log[c]
    <3>1. UNCHANGED <<log, processed, phase>>
      BY DEF Prepare, serverVars
    <3> QED
      BY <3>1 DEF OwnAreUploading, FirstGroup
  <2>1. /\ phase[x] = "upload" /\ outbox[x] # <<>>
        /\ \E e \in Signed(outbox[x][1]) : outbox[x][1].ops[e] = log[c]
    BY DEF AckInv, OwnAreUploading, FirstGroup
  <2>2. x # d
    BY <1>1, <2>1 DEF Prepared
  <2> QED
    BY <1>2, <2>1, <2>2
<1>6. PendingConflictsHoldAck'
  BY DEF AckInv, PendingConflictsHoldAck, Pending, Prepare, serverVars
<1> QED
  BY <1>4, <1>5, <1>6, InboxUnchanged DEF AckInv, Prepare, serverVars

\* The service's answer to an operation of an outbox: its cursor holds exactly
\* that operation, and no other cursor holds its id.
LEMMA UploadLog ==
    ASSUME TypeOK, AckInv, NEW op \in Operations, Accepts(op), log' = LogAfter(op)
    PROVE  /\ Len(log) \in Nat /\ Len(log') \in Nat /\ Len(log) <= Len(log')
           /\ \A c \in 1..Len(log) : log'[c] = log[c]
           /\ CursorOf(op) \in 1..Len(log') /\ log'[CursorOf(op)] = op
           /\ \A c \in 1..Len(log') : c \in 1..Len(log) \/ c = CursorOf(op)
           /\ LogIdsUnique'
<1>1. log \in Seq(Operations) /\ Len(log) \in Nat
  BY DEF TypeOK
<1>2. CASE Stored(op) # {}
  <2>1. CursorOf(op) \in Stored(op) /\ log' = log
    BY <1>2 DEF CursorOf, LogAfter
  <2>2. log[CursorOf(op)] = op /\ CursorOf(op) \in 1..Len(log)
    BY <1>2, <2>1 DEF Accepts, Stored
  <2>3. LogIdsUnique'
    BY <2>1 DEF AckInv, LogIdsUnique
  <2> QED
    BY <1>1, <2>1, <2>2, <2>3
<1>3. CASE Stored(op) = {}
  <2>1. CursorOf(op) = Len(log) + 1 /\ log' = Append(log, op)
    BY <1>3 DEF CursorOf, LogAfter
  <2>2. /\ Len(log') = Len(log) + 1 /\ log'[Len(log) + 1] = op
        /\ \A c \in 1..Len(log) : log'[c] = log[c]
    BY <1>1, <2>1
  <2>3. \A c \in 1..Len(log) : log[c].id # op.id
    BY <1>3 DEF Stored
  <2>4. \A c \in 1..Len(log') : c \in 1..Len(log) \/ c = Len(log) + 1
    BY <1>1, <2>2
  <2>5. LogIdsUnique'
    <3> SUFFICES ASSUME NEW c \in 1..Len(log'), NEW k \in 1..Len(log'), log'[c].id = log'[k].id
                 PROVE  c = k
      BY DEF LogIdsUnique
    <3> QED
      BY <2>2, <2>3, <2>4 DEF AckInv, LogIdsUnique
  <2> QED
    BY <1>1, <2>1, <2>2, <2>4, <2>5
<1> QED
  BY <1>2, <1>3

\* What the two upload actions keep of the inbox and of the acknowledgements.
LEMMA UploadPending ==
    ASSUME TypeOK, AckInv, NEW op \in Operations, Accepts(op), log' = LogAfter(op),
           UNCHANGED <<acked, conflicts>>
    PROVE  PendingConflictsHoldAck'
<1> SUFFICES ASSUME NEW x \in Devices, NEW k \in Pending(x)
             PROVE  \E c \in (acked[x] + 1)..Len(log') : log'[c].id = k.op
  BY DEF PendingConflictsHoldAck, Pending
<1>1. PICK c \in (acked[x] + 1)..Len(log) : log[c].id = k.op
  BY DEF AckInv, PendingConflictsHoldAck
<1>2. acked[x] \in Nat
  BY DEF TypeOK
<1> QED
  BY <1>1, <1>2, UploadLog

\* An answered upload keeps AckInv: the one operation it records is processed.
LEMMA UploadAck ==
    ASSUME TypeOK, AckInv, NEW d \in Devices, Upload(d)
    PROVE  AckInv'
<1>1. PICK e \in Entities :
        LET op   == FirstGroup(d).ops[e]
            rest == [FirstGroup(d) EXCEPT !.ops[e] = None]
        IN  /\ Sends(d, e) /\ Accepts(op)
            /\ log' = LogAfter(op)
            /\ processed' = [processed EXCEPT ![d] = @ \cup {CursorOf(op)}]
            /\ outbox' = [outbox EXCEPT ![d] =
                             IF Prepared(rest) THEN [@ EXCEPT ![1] = rest] ELSE Tail(@)]
  BY DEF Upload
<1> DEFINE first == FirstGroup(d)
           op   == first.ops[e]
           rest == [first EXCEPT !.ops[e] = None]
           cur  == CursorOf(op)
<1>2. /\ outbox[d] \in Seq(Groups) /\ outbox[d] # <<>> /\ Len(outbox[d]) \in Nat
      /\ Len(outbox[d]) >= 1
      /\ first = outbox[d][1] /\ first \in Groups /\ phase[d] = "upload"
      /\ UNCHANGED <<acked, received, lastCursor, conflicts, phase>>
  BY DEF Upload, Uploading, FirstGroup, TypeOK
<1>3. e \in Signed(first) /\ op \in Operations /\ op.dev = d
  <2>1. e \in Signed(first)
    BY <1>1 DEF Sends
  <2>2. op \in Operations
    BY <1>2, <2>1 DEF Signed, Groups
  <2>3. op.dev = d
    BY <1>2, <2>1 DEF AckInv, SignedAreOwn
  <2> QED
    BY <2>1, <2>2, <2>3
<1>4. /\ Accepts(op) /\ log' = LogAfter(op)
      /\ processed'[d] = processed[d] \cup {cur}
      /\ \A x \in Devices \ {d} : processed'[x] = processed[x] /\ outbox'[x] = outbox[x]
      /\ outbox'[d] = IF Prepared(rest) THEN [outbox[d] EXCEPT ![1] = rest] ELSE Tail(outbox[d])
  <2>1. DOMAIN processed = Devices /\ DOMAIN outbox = Devices
    BY DEF TypeOK
  <2> HIDE DEF first, op, rest, cur
  <2>2. /\ Accepts(op) /\ log' = LogAfter(op)
        /\ processed' = [processed EXCEPT ![d] = @ \cup {cur}]
        /\ outbox' = [outbox EXCEPT ![d] =
                         IF Prepared(rest) THEN [@ EXCEPT ![1] = rest] ELSE Tail(@)]
    BY <1>1 DEF first, op, rest, cur
  <2> QED
    BY <2>1, <2>2
<1>5. /\ \A f \in Signed(rest) : f \in Signed(first) /\ rest.ops[f] = first.ops[f]
      /\ \A f \in Signed(first) \ {e} : f \in Signed(rest) /\ rest.ops[f] = first.ops[f]
  BY <1>2 DEF Signed, Groups
<1> HIDE DEF first, op, rest, cur
<1>6. /\ Len(log) \in Nat /\ Len(log') \in Nat /\ Len(log) <= Len(log')
      /\ \A c \in 1..Len(log) : log'[c] = log[c]
      /\ cur \in 1..Len(log') /\ log'[cur] = op
      /\ \A c \in 1..Len(log') : c \in 1..Len(log) \/ c = cur
      /\ LogIdsUnique'
  BY <1>3, <1>4, UploadLog DEF cur
<1>7. PendingConflictsHoldAck'
  BY <1>2, <1>3, <1>4, UploadPending
<1>8. \A x \in Devices : received[x] \subseteq 1..Len(log)
  BY DEF TypeOK
<1>9. cur \notin received[d]
  BY <1>3, <1>6, <1>8 DEF AckInv, OwnNeverReceived
<1>10. InboxCovers' /\ InboxOnce' /\ AckedProcessed'
  BY <1>2, <1>4, <1>9 DEF AckInv, InboxCovers, InInbox, InboxOnce, AckedProcessed
<1>11. OwnNeverReceived'
  BY <1>2, <1>6, <1>8 DEF AckInv, OwnNeverReceived
<1>12. SignedAreOwn'
  <2> SUFFICES ASSUME NEW x \in Devices, NEW i \in 1..Len(outbox'[x]),
                      NEW f \in Signed(outbox'[x][i])
               PROVE  outbox'[x][i].ops[f].dev = x
    BY DEF SignedAreOwn
  <2>1. CASE x # d
    BY <1>4, <2>1 DEF AckInv, SignedAreOwn
  <2>2. CASE x = d /\ Prepared(rest) /\ i = 1
    <3>1. outbox'[x][i] = rest
      BY <1>2, <1>4, <2>2
    <3> QED
      BY <1>2, <1>5, <2>2, <3>1 DEF AckInv, SignedAreOwn
  <2>3. CASE x = d /\ Prepared(rest) /\ i # 1
    BY <1>2, <1>4, <2>3 DEF AckInv, SignedAreOwn
  <2>4. CASE x = d /\ ~Prepared(rest)
    <3>1. i + 1 \in 1..Len(outbox[d]) /\ outbox'[x][i] = outbox[d][i + 1]
      <4>1. outbox'[x] = Tail(outbox[d])
        BY <1>4, <2>4
      <4>2. Len(Tail(outbox[d])) = Len(outbox[d]) - 1
        BY <1>2
      <4> QED
        BY <1>2, <4>1, <4>2
    <3> QED
      BY <2>4, <3>1 DEF AckInv, SignedAreOwn
  <2> QED
    BY <2>1, <2>2, <2>3, <2>4
<1>13. OwnAreUploading'
  <2> SUFFICES ASSUME NEW x \in Devices, NEW c \in 1..Len(log'),
                      log'[c].dev = x, c \notin processed'[x]
               PROVE  /\ phase[x] = "upload" /\ outbox'[x] # <<>>
                      /\ \E f \in Signed(outbox'[x][1]) : outbox'[x][1].ops[f] = log'[c]
    BY <1>2 DEF OwnAreUploading, FirstGroup
  <2>1. CASE x # d
    <3>1. c \in 1..Len(log) /\ log'[c] = log[c]
      BY <1>3, <1>6, <2>1
    <3> QED
      BY <1>4, <2>1, <3>1 DEF AckInv, OwnAreUploading, FirstGroup
  <2>2. CASE x = d
    <3>1. c # cur /\ c \in 1..Len(log) /\ log'[c] = log[c] /\ c \notin processed[d]
      BY <1>4, <1>6, <2>2
    <3>2. PICK f \in Signed(first) : first.ops[f] = log[c]
      BY <1>2, <2>2, <3>1 DEF AckInv, OwnAreUploading, FirstGroup
    <3>3. f # e
      BY <1>6, <3>1, <3>2 DEF LogIdsUnique, op
    <3>4. f \in Signed(rest) /\ rest.ops[f] = log'[c]
      BY <1>5, <3>1, <3>2, <3>3
    <3>5. outbox'[d] = [outbox[d] EXCEPT ![1] = rest]
      BY <1>4, <3>4 DEF Prepared
    <3>6. outbox'[d] # <<>> /\ outbox'[d][1] = rest
      BY <1>2, <3>5
    <3> QED
      BY <1>2, <2>2, <3>4, <3>6
  <2> QED
    BY <2>1, <2>2
<1> QED
  BY <1>6, <1>7, <1>10, <1>11, <1>12, <1>13 DEF AckInv

\* A lost answer keeps AckInv: the operation is still in the signed group.
LEMMA UploadUnansweredAck ==
    ASSUME TypeOK, AckInv, NEW d \in Devices, UploadUnanswered(d)
    PROVE  AckInv'
<1>1. PICK e \in Entities :
        /\ Sends(d, e) /\ Accepts(FirstGroup(d).ops[e])
        /\ log' = LogAfter(FirstGroup(d).ops[e])
  BY DEF UploadUnanswered
<1> DEFINE op  == FirstGroup(d).ops[e]
           cur == CursorOf(op)
<1>2. /\ outbox[d] # <<>> /\ phase[d] = "upload" /\ FirstGroup(d) \in Groups
      /\ FirstGroup(d) = outbox[d][1] /\ 1 \in 1..Len(outbox[d])
      /\ UNCHANGED <<acked, outbox, received, processed, lastCursor, conflicts, phase>>
  BY DEF UploadUnanswered, Uploading, FirstGroup, TypeOK, deviceVars
<1>3. e \in Signed(FirstGroup(d)) /\ op \in Operations /\ op.dev = d
  BY <1>1, <1>2 DEF Sends, Signed, Groups, AckInv, SignedAreOwn
<1>4. Accepts(op) /\ log' = LogAfter(op)
  BY <1>1
<1>5. /\ \A c \in 1..Len(log) : log'[c] = log[c]
      /\ log'[cur] = op
      /\ \A c \in 1..Len(log') : c \in 1..Len(log) \/ c = cur
      /\ LogIdsUnique'
  BY <1>3, <1>4, UploadLog
<1>6. PendingConflictsHoldAck'
  BY <1>2, <1>3, <1>4, UploadPending
<1>7. InboxCovers' /\ InboxOnce' /\ AckedProcessed' /\ SignedAreOwn'
  BY <1>2 DEF AckInv, InboxCovers, InInbox, InboxOnce, AckedProcessed, SignedAreOwn
<1>8. OwnNeverReceived'
  BY <1>2, <1>5 DEF AckInv, OwnNeverReceived, TypeOK
<1>9. OwnAreUploading'
  <2> SUFFICES ASSUME NEW x \in Devices, NEW c \in 1..Len(log'),
                      log'[c].dev = x, c \notin processed[x]
               PROVE  /\ phase[x] = "upload" /\ outbox[x] # <<>>
                      /\ \E f \in Signed(FirstGroup(x)) : FirstGroup(x).ops[f] = log'[c]
    BY <1>2 DEF OwnAreUploading, FirstGroup
  <2>1. CASE c \in 1..Len(log)
    BY <1>5, <2>1 DEF AckInv, OwnAreUploading
  <2>2. CASE c = cur
    BY <1>2, <1>3, <1>5, <2>2
  <2> QED
    BY <1>5, <2>1, <2>2
<1> QED
  BY <1>5, <1>6, <1>7, <1>8, <1>9 DEF AckInv

\* Staging a page keeps AckInv: the device's own operations are in its inbox.
LEMMA PullAck ==
    ASSUME TypeOK, AckInv, NEW d \in Devices, Pull(d)
    PROVE  AckInv'
<1>1. /\ received' = [received EXCEPT ![d] = @ \cup (Page(d) \ InInbox(d))]
      /\ lastCursor' = [lastCursor EXCEPT ![d] = PageEnd(d)]
      /\ UNCHANGED <<log, acked, outbox, processed, conflicts>>
      /\ \A x \in Devices \ {d} : phase'[x] = phase[x]
      /\ Pulling(d)
  BY DEF Pull, serverVars, TypeOK
<1>2. /\ PageEnd(d) \in lastCursor[d]..Len(log) /\ Page(d) \subseteq 1..Len(log)
      /\ lastCursor[d] \in Nat /\ Len(log) \in Nat /\ acked[d] \in Nat
  <2>1. lastCursor[d] \in Nat /\ Len(log) \in Nat /\ acked[d] \in Nat
    BY DEF TypeOK
  <2> QED
    BY <2>1, PageInLog
<1>3. \A c \in 1..Len(log) : log[c].dev = d => c \in processed[d]
  BY <1>1 DEF AckInv, OwnAreUploading, Pulling, FirstGroup, Prepared
<1>4. InboxCovers'
  <2> SUFFICES ASSUME NEW x \in Devices
               PROVE  /\ 1..lastCursor'[x] \subseteq received'[x] \cup processed[x]
                      /\ acked[x] <= lastCursor'[x]
    BY <1>1 DEF InboxCovers, InInbox
  <2>1. CASE x # d
    BY <1>1, <2>1 DEF AckInv, InboxCovers, InInbox, TypeOK
  <2>2. CASE x = d
    <3>1. lastCursor'[d] = PageEnd(d) /\ received'[d] = received[d] \cup (Page(d) \ InInbox(d))
      BY <1>1 DEF TypeOK
    <3>2. \A c \in 1..PageEnd(d) : c \in 1..lastCursor[d] \/ c \in Page(d)
      BY <1>2 DEF Page
    <3> QED
      BY <1>2, <2>2, <3>1, <3>2 DEF AckInv, InboxCovers, InInbox
  <2> QED
    BY <2>1, <2>2
<1>5. InboxOnce' /\ AckedProcessed' /\ LogIdsUnique' /\ SignedAreOwn'
  <2>1. InboxOnce'
    BY <1>1 DEF AckInv, InboxOnce, InInbox, TypeOK
  <2>2. AckedProcessed' /\ LogIdsUnique'
    BY <1>1 DEF AckInv, AckedProcessed, LogIdsUnique
  <2>3. SignedAreOwn'
    BY <1>1 DEF AckInv, SignedAreOwn
  <2> QED
    BY <2>1, <2>2, <2>3
<1>6. OwnNeverReceived'
  BY <1>1, <1>2, <1>3 DEF AckInv, OwnNeverReceived, InInbox, TypeOK
<1>7. OwnAreUploading'
  <2> SUFFICES ASSUME NEW x \in Devices, NEW c \in 1..Len(log),
                      log[c].dev = x, c \notin processed[x]
               PROVE  /\ phase'[x] = "upload" /\ outbox[x] # <<>>
                      /\ \E e \in Signed(FirstGroup(x)) : FirstGroup(x).ops[e] = log[c]
    BY <1>1 DEF OwnAreUploading, FirstGroup
  <2>1. x # d
    BY <1>3
  <2> QED
    BY <1>1, <2>1 DEF AckInv, OwnAreUploading
<1>8. PendingConflictsHoldAck'
  BY <1>1 DEF AckInv, PendingConflictsHoldAck, Pending
<1> QED
  BY <1>4, <1>5, <1>6, <1>7, <1>8 DEF AckInv

\* Applying a group keeps AckInv: a new conflict lies above the acknowledgement.
LEMMA ApplyGroupAck ==
    ASSUME TypeOK, AckInv, NEW d \in Devices, ApplyGroup(d)
    PROVE  AckInv'
<1>1. PICK first \in received[d], newest \in received[d] :
        LET group == Members(d, log[first].gid)
        IN  /\ received' = [received EXCEPT ![d] = @ \ group]
            /\ processed' = [processed EXCEPT ![d] = @ \cup group]
            /\ IF \A c \in group : Accepted(d, log[c])
               THEN AcceptGroup(d, group) ELSE RecordConflict(d, group)
  BY DEF ApplyGroup
<1> DEFINE group == Members(d, log[first].gid)
<1>2. /\ received'[d] = received[d] \ group /\ processed'[d] = processed[d] \cup group
      /\ \A x \in Devices \ {d} : received'[x] = received[x] /\ processed'[x] = processed[x]
      /\ AcceptGroup(d, group) \/ RecordConflict(d, group)
      /\ UNCHANGED <<log, acked, outbox, lastCursor, phase>>
      /\ group \subseteq received[d] /\ received[d] \subseteq 1..Len(log)
  BY <1>1 DEF ApplyGroup, serverVars, TypeOK, Members
<1> HIDE DEF group
<1>3. InboxCovers' /\ InboxOnce' /\ OwnNeverReceived' /\ AckedProcessed' /\ LogIdsUnique'
  BY <1>2 DEF AckInv, InboxCovers, InInbox, InboxOnce, OwnNeverReceived, AckedProcessed,
              LogIdsUnique
<1>4. SignedAreOwn' /\ OwnAreUploading'
  BY <1>2 DEF AckInv, SignedAreOwn, OwnAreUploading, FirstGroup
<1>5. \A c \in group : c \in (acked[d] + 1)..Len(log)
  <2> SUFFICES ASSUME NEW c \in group
               PROVE  c \in (acked[d] + 1)..Len(log)
    OBVIOUS
  <2>1. c \in 1..Len(log) /\ c \notin processed[d] /\ acked[d] \in Nat /\ Len(log) \in Nat
    BY <1>2 DEF AckInv, InboxOnce, TypeOK
  <2>2. c \notin 1..acked[d]
    BY <2>1 DEF AckInv, AckedProcessed
  <2> QED
    BY <2>1, <2>2
<1>6. PendingConflictsHoldAck'
  <2> SUFFICES ASSUME NEW x \in Devices, NEW k \in Pending(x)'
               PROVE  \E c \in (acked[x] + 1)..Len(log) : log[c].id = k.op
    BY <1>2 DEF PendingConflictsHoldAck
  <2>1. CASE k \in Pending(x)
    BY <2>1 DEF AckInv, PendingConflictsHoldAck
  <2>2. CASE k \notin Pending(x)
    <3>1. CASE AcceptGroup(d, group)
      <4> DEFINE decided == UNION {Resolved(d, log[c]) : c \in group}
      <4>1. conflicts' = [conflicts EXCEPT ![d] =
                            (@ \ decided) \cup {[j EXCEPT !.pending = FALSE] : j \in decided}]
        BY <3>1 DEF AcceptGroup
      <4>2. decided \subseteq Conflicts
        BY DEF Resolved, TypeOK
      <4> HIDE DEF decided
      <4> QED
        BY <2>2, <4>1, <4>2, ClosingConflicts
    <3>2. CASE RecordConflict(d, group)
      <4>1. conflicts' = [conflicts EXCEPT ![d] =
                            @ \cup {ConflictRecord(d, log[c]) : c \in group}]
        BY <3>2 DEF RecordConflict
      <4>2. x = d /\ \E c \in group : k = ConflictRecord(d, log[c])
        BY <2>2, <4>1 DEF Pending, TypeOK
      <4> QED
        BY <1>5, <4>2 DEF ConflictRecord
    <3> QED
      BY <1>2, <3>1, <3>2
  <2> QED
    BY <2>1, <2>2
<1> QED
  BY <1>3, <1>4, <1>6 DEF AckInv

\* Acknowledging keeps AckInv: the inbox is drained and no conflict is pending.
LEMMA FinishAck ==
    ASSUME TypeOK, AckInv, NEW d \in Devices, Finish(d)
    PROVE  AckInv'
<1>1. /\ phase[d] = "apply" /\ received[d] = {}
      /\ UNCHANGED <<log, outbox, received, processed, lastCursor, conflicts>>
      /\ phase' = [phase EXCEPT ![d] = "upload"]
      /\ acked' = IF Acknowledges(d) THEN [acked EXCEPT ![d] = lastCursor[d]] ELSE acked
      /\ acked \in [Devices -> Nat]
  BY DEF Finish, Drained, deviceVars, TypeOK
<1>2. 1..lastCursor[d] \subseteq processed[d] /\ lastCursor[d] \in Nat
  BY <1>1 DEF AckInv, InboxCovers, InInbox, TypeOK
<1>3. InboxCovers' /\ AckedProcessed'
  BY <1>1, <1>2 DEF AckInv, InboxCovers, InInbox, AckedProcessed
<1>4. InboxOnce' /\ OwnNeverReceived' /\ LogIdsUnique' /\ SignedAreOwn'
  BY <1>1 DEF AckInv, InboxOnce, OwnNeverReceived, LogIdsUnique, SignedAreOwn
<1>5. OwnAreUploading'
  <2> SUFFICES ASSUME NEW x \in Devices, NEW c \in 1..Len(log),
                      log[c].dev = x, c \notin processed[x]
               PROVE  /\ phase'[x] = "upload" /\ outbox[x] # <<>>
                      /\ \E e \in Signed(FirstGroup(x)) : FirstGroup(x).ops[e] = log[c]
    BY <1>1 DEF OwnAreUploading, FirstGroup
  <2>1. phase[x] = "upload" => phase'[x] = "upload"
    BY <1>1 DEF TypeOK
  <2> QED
    BY <2>1 DEF AckInv, OwnAreUploading
<1>6. PendingConflictsHoldAck'
  <2>1. CASE Acknowledges(d)
    BY <1>1, <2>1 DEF AckInv, PendingConflictsHoldAck, Pending, Acknowledges
  <2>2. CASE ~Acknowledges(d)
    BY <1>1, <2>2 DEF AckInv, PendingConflictsHoldAck, Pending
  <2> QED
    BY <2>1, <2>2
<1> QED
  BY <1>3, <1>4, <1>5, <1>6 DEF AckInv

\* Abandoning or interrupting a cycle keeps AckInv.
LEMMA CycleEndsAck ==
    ASSUME TypeOK, AckInv, NEW d \in Devices, GroupIncomplete(d) \/ Interrupt(d)
    PROVE  AckInv'
<1>1. /\ UNCHANGED <<log, acked, outbox, received, processed, lastCursor, conflicts>>
      /\ phase' = [phase EXCEPT ![d] = "upload"]
  BY DEF GroupIncomplete, Interrupt, serverVars, deviceVars
<1>2. SignedAreOwn'
  BY <1>1 DEF AckInv, SignedAreOwn
<1>4. OwnAreUploading'
  <2> SUFFICES ASSUME NEW x \in Devices, NEW c \in 1..Len(log),
                      log[c].dev = x, c \notin processed[x]
               PROVE  /\ phase'[x] = "upload" /\ outbox[x] # <<>>
                      /\ \E e \in Signed(FirstGroup(x)) : FirstGroup(x).ops[e] = log[c]
    BY <1>1 DEF OwnAreUploading, FirstGroup
  <2>1. phase[x] = "upload" => phase'[x] = "upload"
    BY <1>1 DEF TypeOK
  <2> QED
    BY <2>1 DEF AckInv, OwnAreUploading
<1>3. PendingConflictsHoldAck'
  BY <1>1 DEF AckInv, PendingConflictsHoldAck, Pending
<1> QED
  BY <1>1, <1>2, <1>3, <1>4, InboxUnchanged DEF AckInv

\* AckInv is an invariant: it is inductive with the types.
LEMMA AckInvariant == Spec => []AckInv
<1>1. Init => AckInv
  BY InitAck
<1>2. TypeOK /\ AckInv /\ [Next]_vars => AckInv'
  <2> SUFFICES ASSUME TypeOK, AckInv, [Next]_vars
               PROVE  AckInv'
    OBVIOUS
  <2>1. CASE Next
    <3>1. PICK d \in Devices : SyncStep(d) \/ UserStep(d) \/ Fault(d)
      BY <2>1 DEF Next
    <3>2. CASE SyncStep(d)
      BY <3>2, PrepareAck, UploadAck, PullAck, ApplyGroupAck, CycleEndsAck, FinishAck
         DEF SyncStep
    <3>3. CASE UserStep(d)
      BY <3>3, LocalEditAck, ResolveAck DEF UserStep
    <3>4. CASE Fault(d)
      BY <3>4, UploadUnansweredAck, CycleEndsAck DEF Fault
    <3> QED
      BY <3>1, <3>2, <3>3, <3>4
  <2>2. CASE UNCHANGED vars
    BY <2>2 DEF vars, serverVars, deviceVars, AckInv, InboxCovers, InInbox, InboxOnce,
         OwnNeverReceived, AckedProcessed, PendingConflictsHoldAck, Pending, LogIdsUnique,
         SignedAreOwn, OwnAreUploading, FirstGroup
  <2> QED
    BY <2>1, <2>2
<1> QED
  BY <1>1, <1>2, TypeCorrect, PTL DEF Spec

\* Whatever is edited, interrupted or lost, a device acknowledges only
\* operations it has applied or recorded as a conflict.
THEOREM AcksAreProcessed == Spec => []AckedProcessed
<1>1. AckInv => AckedProcessed
  BY DEF AckInv
<1> QED
  BY <1>1, AckInvariant, PTL

\* While a conflict waits for its user, the acknowledgement of its device stays
\* below the conflicting operation.
THEOREM ConflictsHoldAcks == Spec => []PendingConflictsHoldAck
<1>1. AckInv => PendingConflictsHoldAck
  BY DEF AckInv
<1> QED
  BY <1>1, AckInvariant, PTL

\* A device is never sent its own work back as a remote change, lost answers
\* and retries included: applyRemoteGroup only ever sees other devices.
THEOREM OwnWorkNeverReturns == Spec => []OwnNeverReceived
<1>1. AckInv => OwnNeverReceived
  BY DEF AckInv
<1> QED
  BY <1>1, AckInvariant, PTL

-----------------------------------------------------------------------------
(* The inductive invariant behind FrontierMatchesInbox.                    *)

\* Every group of an outbox has its own number, issued by its device, and only
\* the first group of an outbox is ever signed.
OutboxFits ==
    \A d \in Devices : \A i \in 1..Len(outbox[d]) :
       /\ outbox[d][i].gid[1] = d /\ outbox[d][i].gid[2] \in 1..spent.groups
       /\ \A j \in 1..Len(outbox[d]) : outbox[d][j].gid = outbox[d][i].gid => j = i
       /\ i # 1 => Signed(outbox[d][i]) = {}

\* What is signed and not yet accepted carries the newest sequences of its
\* device, in entity order, and belongs to one group of the size it names.
SignedRun(d, group) ==
    /\ Signed(group) \subseteq Touched(group)
    /\ {group.ops[e].seq : e \in Signed(group)} =
          (frontier[d][d] - Cardinality(Signed(group)) + 1)..frontier[d][d]
    /\ \A e, f \in Signed(group) : e < f => group.ops[e].seq < group.ops[f].seq
    /\ \A e \in Signed(group) :
          /\ group.ops[e].gid = group.gid /\ group.ops[e].seq >= 1
          /\ group.ops[e].size = Cardinality(Touched(group))
SignedRuns ==
    \A d \in Devices : outbox[d] # <<>> => SignedRun(d, FirstGroup(d))

\* The log holds the sequences of a device one after the other.
LogRuns ==
    \A c \in 1..Len(log) :
       /\ log[c].seq >= 1
       /\ \A n \in 1..(log[c].seq - 1) :
             \E k \in 1..(c - 1) : log[k].dev = log[c].dev /\ log[k].seq = n
       /\ \A k \in 1..(c - 1) : log[k].dev = log[c].dev => log[k].seq < log[c].seq

\* The operations of one group come from one device and lie closer together
\* than the size they all name.
LogGroups ==
    \A c \in 1..Len(log) :
       /\ log[c].gid[1] = log[c].dev /\ log[c].gid[2] \in 1..spent.groups
       /\ \A k \in 1..Len(log) : log[k].gid = log[c].gid =>
             /\ log[k].size = log[c].size /\ log[c].seq - log[k].seq < log[c].size

\* A group of an outbox of which the log holds an operation is the signed one,
\* and what the log holds of it lies among its sequences.
LogOfOutbox ==
    \A d \in Devices : \A i \in 1..Len(outbox[d]) : \A c \in 1..Len(log) :
       log[c].gid = outbox[d][i].gid =>
          /\ i = 1 /\ Prepared(outbox[d][i])
          /\ log[c].size = Cardinality(Touched(outbox[d][i]))
          /\ log[c].seq \in (frontier[d][d] - Cardinality(Touched(outbox[d][i])) + 1)
                                ..frontier[d][d]

\* What an operation names as already seen precedes it in the log.
CausalKnown ==
    \A c \in 1..Len(log) : \A x \in Devices : log[c].causal[x] > 0 =>
       \E k \in 1..(c - 1) : log[k].dev = x /\ log[k].seq = log[c].causal[x]

\* What a signed operation names as already seen is in the log, or is the
\* operation its device signed before it.
SignedCausal ==
    \A d \in Devices : outbox[d] # <<>> =>
       \A e \in Signed(FirstGroup(d)) :
          LET op == FirstGroup(d).ops[e]
          IN  /\ op.causal[d] = op.seq - 1
              /\ \A x \in Devices \ {d} : op.causal[x] > 0 =>
                    \E k \in 1..Len(log) : log[k].dev = x /\ log[k].seq = op.causal[x]

\* The inbox holds nothing above the cursor.
ReceivedBehind == \A d \in Devices : received[d] \subseteq 1..lastCursor[d]

OrderInv ==
    /\ OutboxFits /\ SignedRuns /\ LogRuns /\ LogGroups /\ LogOfOutbox
    /\ CausalKnown /\ SignedCausal /\ ReceivedBehind /\ FrontierMatchesInbox

-----------------------------------------------------------------------------
(* Counting.                                                               *)

\* An interval from a to b has b - a + 1 numbers, and none when that is 0.
LEMMA IntervalSize ==
    ASSUME NEW a \in Int, NEW b \in Int, a <= b + 1
    PROVE  IsFiniteSet(a..b) /\ Cardinality(a..b) = b - a + 1
<1>1. /\ IsFiniteSet(a..b)
      /\ Cardinality(a..b) = IF a > b THEN 0 ELSE b - a + 1
  BY FS_Interval
<1> QED
  BY <1>1

\* In a finite set that a strictly increasing function maps onto the numbers
\* from a on, an element's rank is its value counted from a.
LEMMA RankIsValue ==
    ASSUME NEW G, NEW a \in Int, NEW b \in Int, NEW f \in [G -> a..b], NEW c \in G,
           IsFiniteSet(G), G \subseteq Nat, \A x, y \in G : x < y => f[x] < f[y],
           \A t \in a..b : \E x \in G : f[x] = t
    PROVE  Index(G, c) = f[c] - a + 1
<1> DEFINE H == {k \in G : k <= c}
           g == [k \in H |-> f[k]]
<1>1. IsFiniteSet(H)
  BY FS_Subset
<1>2. f[c] \in a..b /\ c \in Nat
  OBVIOUS
<1>3. \A k \in H : f[k] \in a..f[c]
  <2> TAKE k \in H
  <2>1. k \in Nat /\ k \in G /\ f[k] \in a..b /\ (k < c \/ k = c)
    BY <1>2
  <2> QED
    BY <1>2, <2>1
<1>4. g \in [H -> a..f[c]]
  BY <1>3
<1>5. \A x, y \in H : g[x] = g[y] => x = y
  <2> SUFFICES ASSUME NEW x \in H, NEW y \in H, f[x] = f[y]
               PROVE  x = y
    OBVIOUS
  <2>1. x \in Nat /\ y \in Nat /\ x \in G /\ y \in G /\ f[x] \in Int /\ f[y] \in Int
    OBVIOUS
  <2>2. ~(x < y) /\ ~(y < x)
    BY <2>1
  <2> QED
    BY <2>1, <2>2
<1>6. \A t \in a..f[c] : \E x \in H : g[x] = t
  <2> TAKE t \in a..f[c]
  <2>1. t \in a..b
    BY <1>2
  <2>2. PICK x \in G : f[x] = t
    BY <2>1
  <2>3. ~(c < x)
    <3>1. c < x => f[c] < f[x]
      BY <2>2
    <3> QED
      BY <1>2, <2>2, <3>1
  <2>4. x \in H
    BY <1>2, <2>2, <2>3
  <2> QED
    BY <2>2, <2>4
<1> HIDE DEF g
<1>7. g \in Bijection(H, a..f[c])
  BY <1>4, <1>5, <1>6, Fun_IsBij
<1>8. ExistsBijection(H, a..f[c])
  BY <1>7, Fun_ExistsBij
<1>9. Cardinality(a..f[c]) = Cardinality(H)
  BY <1>1, <1>8, FS_Bijection
<1>10. Cardinality(a..f[c]) = IF a > f[c] THEN 0 ELSE f[c] - a + 1
  BY <1>2, FS_Interval
<1> QED
  BY <1>2, <1>9, <1>10 DEF Index

\* The positions of a group's entities are the numbers from 1 to its size, in
\* the order of the entities.
LEMMA IndexOrder ==
    ASSUME NEW T, IsFiniteSet(T), T \subseteq Nat
    PROVE  /\ \A e, f \in T : e < f => Index(T, e) < Index(T, f)
           /\ \A e \in T : Index(T, e) \in 1..Cardinality(T)
           /\ {Index(T, e) : e \in T} = 1..Cardinality(T)
<1> DEFINE U(e) == {f \in T : f <= e}
<1>1. \A e \in T : IsFiniteSet(U(e)) /\ Cardinality(U(e)) \in Nat
  BY FS_Subset, FS_CardinalityType
<1>2. ASSUME NEW e \in T, NEW f \in T, e < f
      PROVE  Cardinality(U(e)) < Cardinality(U(f))
  <2>1. U(e) \in SUBSET U(f)
    <3>1. ASSUME NEW x \in T, x <= e
          PROVE  x <= f
      <4>1. x \in Nat /\ e \in Nat /\ f \in Nat
        OBVIOUS
      <4> QED
        BY <1>2, <3>1, <4>1
    <3> QED
      BY <3>1
  <2>2. f \in U(f) /\ f \notin U(e)
    BY <1>2
  <2> HIDE DEF U
  <2>3. Cardinality(U(e)) <= Cardinality(U(f)) /\ Cardinality(U(e)) # Cardinality(U(f))
    BY <1>1, <2>1, <2>2, FS_Subset
  <2> QED
    BY <1>1, <2>3
<1>3. ASSUME NEW e \in T
      PROVE  Cardinality(U(e)) \in 1..Cardinality(T)
  <2>1. U(e) \in SUBSET T /\ e \in U(e)
    OBVIOUS
  <2> HIDE DEF U
  <2>2. Cardinality(U(e)) <= Cardinality(T) /\ Cardinality(T) \in Nat /\ Cardinality(U(e)) # 0
    BY <1>1, <2>1, FS_Subset, FS_CardinalityType, FS_EmptySet
  <2> QED
    BY <1>1, <2>2
<1> DEFINE g == [e \in T |-> Cardinality(U(e))]
<1>4. g \in [T -> 1..Cardinality(T)]
  BY <1>3
<1>5. \A x, y \in T : g[x] = g[y] => x = y
  <2> SUFFICES ASSUME NEW x \in T, NEW y \in T, Cardinality(U(x)) = Cardinality(U(y))
               PROVE  x = y
    OBVIOUS
  <2>1. ~(x < y) /\ ~(y < x) /\ x \in Nat /\ y \in Nat
    <3>1. x \in Nat /\ y \in Nat
      OBVIOUS
    <3> HIDE DEF U
    <3> QED
      BY <1>1, <1>2, <3>1
  <2> QED
    BY <2>1
<1>6. Cardinality(T) \in Nat
  BY FS_CardinalityType
<1>7. \A t \in 1..Cardinality(T) : \E e \in T : g[e] = t
  <2> DEFINE n == Cardinality(T)
  <2>1. n = Cardinality(T) /\ n \in Nat /\ g \in [T -> 1..n]
    BY <1>4, <1>6
  <2> HIDE DEF g, n
  <2> DEFINE I == 1..n
  <2>2. IsFiniteSet(I) /\ Cardinality(I) = Cardinality(T) /\ g \in [T -> I]
    BY <2>1, IntervalSize
  <2> HIDE DEF I
  <2>3. IsFiniteSet(T) /\ IsFiniteSet(I) /\ Cardinality(T) = Cardinality(I)
    BY <2>2
  <2>4. g \in Injection(T, I)
    BY <1>5, <2>2, Fun_IsInj
  <2>5. g \in Surjection(T, I)
    BY <2>3, <2>4, FS_Injection
  <2>6. \A t \in I : \E e \in T : g[e] = t
    BY <2>5, Fun_SurjectionProperties
  <2> QED
    BY <2>6 DEF n, I
<1>8. \A e \in T : Index(T, e) = Cardinality(U(e)) /\ g[e] = Cardinality(U(e))
  BY DEF Index
<1> HIDE DEF U, g
<1>9. {Index(T, e) : e \in T} = 1..Cardinality(T)
  BY <1>3, <1>7, <1>8
<1> QED
  BY <1>2, <1>3, <1>7, <1>8, <1>9

-----------------------------------------------------------------------------
(* OrderInv is inductive.                                                  *)

\* What d has signed and not yet uploaded.
SignedOf(d) == IF outbox[d] = <<>> THEN {} ELSE Signed(FirstGroup(d))

\* The newest operation of x in the inbox of d, by its frontier rows.
Newest(d, x) == frontier[d][x] - IF x = d THEN Cardinality(SignedOf(d)) ELSE 0

\* FrontierMatchesInbox, number by number.
LEMMA FrontierIs ==
    FrontierMatchesInbox <=>
      \A d, x \in Devices : \A n :
         (\E c \in processed[d] : log[c].dev = x /\ log[c].seq = n) <=> n \in 1..Newest(d, x)
BY DEF FrontierMatchesInbox, SignedOf, Newest

\* The same of the state after a step.
LEMMA NextFrontierIs ==
    (FrontierMatchesInbox <=>
       \A d, x \in Devices : \A n :
          (\E c \in processed[d] : log[c].dev = x /\ log[c].seq = n)
             <=> n \in 1..Newest(d, x))'
BY FrontierIs, PTL

\* A signed set is finite.
LEMMA SignedFinite ==
    ASSUME NEW group
    PROVE  IsFiniteSet(Signed(group)) /\ Cardinality(Signed(group)) \in Nat
BY SyncAssumption, FS_Subset, FS_CardinalityType DEF SyncAssumption, Signed

\* OrderInv holds of a bootstrapped vault.
LEMMA InitOrder == Init => OrderInv
<1> SUFFICES ASSUME Init
             PROVE  OrderInv
  OBVIOUS
<1>1. /\ log = <<>> /\ Len(log) = 0
      /\ \A d \in Devices : outbox[d] = <<>> /\ Len(outbox[d]) = 0
      /\ \A d \in Devices : received[d] = {} /\ processed[d] = {}
      /\ \A d, x \in Devices : frontier[d][x] = 0
  BY DEF Init
<1>2. \A d \in Devices : SignedOf(d) = {}
  BY <1>1 DEF SignedOf
<1>3. FrontierMatchesInbox
  <2>1. Cardinality({}) = 0
    BY FS_EmptySet
  <2>2. ASSUME NEW d \in Devices, NEW x \in Devices
        PROVE  Newest(d, x) = 0
    <3>1. frontier[d][x] = 0 /\ Cardinality(SignedOf(d)) = 0
      BY <1>1, <1>2, <2>1
    <3> QED
      BY <3>1 DEF Newest
  <2>3. \A n : n \notin 1..0
    OBVIOUS
  <2>4. ASSUME NEW d \in Devices, NEW x \in Devices, NEW n
        PROVE  (\E c \in processed[d] : log[c].dev = x /\ log[c].seq = n)
                  <=> n \in 1..Newest(d, x)
    <3>1. processed[d] = {} /\ Newest(d, x) = 0 /\ n \notin 1..0
      BY <1>1, <2>2, <2>3
    <3> QED
      BY <3>1
  <2> QED
    BY <2>4, FrontierIs
<1> QED
  BY <1>1, <1>3 DEF OrderInv, OutboxFits, SignedRuns, LogRuns, LogGroups, LogOfOutbox,
                    CausalKnown, SignedCausal, ReceivedBehind

\* Where each group of the outbox is after a new one was enqueued, and that
\* the signed group stays the first.
LEMMA EnqueueShape ==
    ASSUME TypeOK, NEW d \in Devices,
           NEW edits \in [Entities -> Edits \cup {None}],
           NEW at \in 1..(Len(outbox[d]) + 1), Enqueue(d, edits, at)
    PROVE  /\ \A x \in Devices \ {d} : outbox'[x] = outbox[x]
           /\ Len(outbox'[d]) = Len(outbox[d]) + 1 /\ outbox'[d] # <<>>
           /\ outbox'[d][at].gid = <<d, spent.groups + 1>>
           /\ outbox'[d][at].edits = edits /\ Signed(outbox'[d][at]) = {}
           /\ \A i \in 1..(at - 1) : i \in 1..Len(outbox[d]) /\ outbox'[d][i] = outbox[d][i]
           /\ \A i \in (at + 1)..(Len(outbox[d]) + 1) :
                 i - 1 \in 1..Len(outbox[d]) /\ outbox'[d][i] = outbox[d][i - 1]
           /\ at = 1 => SignedOf(d) = {}
           /\ spent'.groups = spent.groups + 1 /\ spent.groups \in Nat
<1> DEFINE group == [gid |-> <<d, spent.groups + 1>>, edits |-> edits,
                     ops |-> [e \in Entities |-> None]]
           box == outbox[d]
<1>1. /\ box \in Seq(Groups) /\ Len(box) \in Nat /\ at \in 1..(Len(box) + 1)
      /\ outbox'[d] = InsertAt(box, at, group)
      /\ \A x \in Devices \ {d} : outbox'[x] = outbox[x]
      /\ at <= Len(box) => ~Prepared(box[at])
  BY DEF Enqueue, TypeOK
<1>2. Signed(group) = {} /\ group.gid = <<d, spent.groups + 1>> /\ group.edits = edits
  BY DEF Signed
<1>3. spent'.groups = spent.groups + 1 /\ spent.groups \in Nat
  <2>1. spent \in [groups : 0..MaxGroups, failures : 0..MaxFailures,
                   clockSteps : 0..MaxClockSteps]
    BY DEF TypeOK
  <2>2. spent.groups \in 0..MaxGroups
    BY <2>1
  <2>3. spent'.groups = spent.groups + 1
    BY <2>1 DEF Enqueue
  <2> QED
    BY <2>2, <2>3, SyncAssumption DEF SyncAssumption
<1> DEFINE G == Groups \cup {group}
<1>4. box \in Seq(G) /\ group \in G
  BY <1>1
<1> HIDE DEF group, box, G
<1>5. /\ Len(outbox'[d]) = Len(box) + 1
      /\ \A j \in 1..(Len(box) + 1) :
            outbox'[d][j] = IF j < at THEN box[j] ELSE IF j = at THEN group ELSE box[j - 1]
  <2>1. /\ Len(InsertAt(box, at, group)) = Len(box) + 1
        /\ \A j \in 1..(Len(box) + 1) :
              InsertAt(box, at, group)[j] = IF j < at THEN box[j]
                                            ELSE IF j = at THEN group ELSE box[j - 1]
    BY <1>1, <1>4, InsertAtElements
  <2> QED
    BY <1>1, <2>1
<1>6. at = 1 => SignedOf(d) = {}
  BY <1>1 DEF SignedOf, FirstGroup, Prepared, box
<1>7. \A i \in 1..(at - 1) : i \in 1..Len(box) /\ outbox'[d][i] = box[i]
  BY <1>1, <1>5
<1>8. \A i \in (at + 1)..(Len(box) + 1) : i - 1 \in 1..Len(box) /\ outbox'[d][i] = box[i - 1]
  BY <1>1, <1>5
<1>9. outbox'[d] # <<>> /\ outbox'[d][at] = group
  BY <1>1, <1>5
<1> QED
  BY <1>1, <1>2, <1>3, <1>5, <1>6, <1>7, <1>8, <1>9 DEF box

\* Committing a group changes nothing of what is signed, and its number is new.
LEMMA EnqueueOrder ==
    ASSUME TypeOK, OrderInv, NEW d \in Devices,
           NEW edits \in [Entities -> Edits \cup {None}],
           NEW at \in 1..(Len(outbox[d]) + 1), Enqueue(d, edits, at),
           UNCHANGED <<log, frontier, received, processed, lastCursor>>
    PROVE  OrderInv'
<1> DEFINE size == Len(outbox[d])
           n    == spent.groups
           old(i) == IF i < at THEN i ELSE i - 1
<1>1. /\ \A x \in Devices \ {d} : outbox'[x] = outbox[x]
      /\ Len(outbox'[d]) = size + 1 /\ outbox'[d] # <<>>
      /\ outbox'[d][at].gid = <<d, n + 1>> /\ Signed(outbox'[d][at]) = {}
      /\ at = 1 => SignedOf(d) = {}
      /\ spent'.groups = n + 1 /\ n \in Nat /\ size \in Nat
  <2>1. size \in Nat
    BY DEF TypeOK
  <2> QED
    BY <2>1, EnqueueShape
<1>2. ASSUME NEW i \in 1..(size + 1), i # at
      PROVE  /\ old(i) \in 1..size /\ outbox'[d][i] = outbox[d][old(i)]
             /\ i = 1 => old(i) = 1
             /\ old(i) = 1 /\ i # 1 => at = 1
  <2>1. CASE i < at
    <3>1. i \in 1..(at - 1)
      BY <2>1
    <3> QED
      BY <2>1, <3>1, EnqueueShape
  <2>2. CASE i > at
    <3>1. i \in (at + 1)..(size + 1)
      BY <2>2
    <3>2. i - 1 \in 1..size /\ outbox'[d][i] = outbox[d][i - 1]
      BY <3>1, EnqueueShape
    <3> QED
      BY <1>1, <2>2, <3>2
  <2> QED
    BY <1>2, <2>1, <2>2
<1>3. \A i, j \in 1..(size + 1) : i # at /\ j # at /\ old(i) = old(j) => i = j
  BY <1>1
<1> HIDE DEF size, n, old
<1>4. OutboxFits'
  <2> SUFFICES ASSUME NEW x \in Devices, NEW i \in 1..Len(outbox'[x])
               PROVE  /\ outbox'[x][i].gid[1] = x /\ outbox'[x][i].gid[2] \in 1..(n + 1)
                      /\ \A j \in 1..Len(outbox'[x]) :
                            outbox'[x][j].gid = outbox'[x][i].gid => j = i
                      /\ i # 1 => Signed(outbox'[x][i]) = {}
    BY <1>1 DEF OutboxFits
  <2>0. ASSUME NEW y \in Devices, NEW j \in 1..Len(outbox[y])
        PROVE  /\ outbox[y][j].gid[1] = y /\ outbox[y][j].gid[2] \in 1..n
               /\ \A k \in 1..Len(outbox[y]) : outbox[y][k].gid = outbox[y][j].gid => k = j
               /\ j # 1 => Signed(outbox[y][j]) = {}
    BY DEF OrderInv, OutboxFits, n
  <2>1. CASE x # d
    <3>1. outbox'[x] = outbox[x] /\ i \in 1..Len(outbox[x]) /\ n \in Nat
      BY <1>1, <2>1
    <3>2. /\ outbox[x][i].gid[1] = x /\ outbox[x][i].gid[2] \in 1..n
          /\ \A k \in 1..Len(outbox[x]) : outbox[x][k].gid = outbox[x][i].gid => k = i
          /\ i # 1 => Signed(outbox[x][i]) = {}
      BY <2>0, <3>1
    <3> QED
      BY <3>1, <3>2
  <2>2. CASE x = d
    <3>1. CASE i = at
      <4>1. ASSUME NEW j \in 1..(size + 1), j # at
            PROVE  outbox'[d][j].gid[2] # n + 1
        <5>1. old(j) \in 1..size /\ outbox'[d][j] = outbox[d][old(j)]
          BY <1>2, <4>1
        <5>2. outbox[d][old(j)].gid[2] \in 1..n
          BY <2>0, <5>1 DEF size
        <5> QED
          BY <1>1, <5>1, <5>2
      <4> QED
        BY <1>1, <2>2, <3>1, <4>1
    <3>2. CASE i # at
      <4>1. /\ old(i) \in 1..size /\ outbox'[d][i] = outbox[d][old(i)]
            /\ old(i) = 1 /\ i # 1 => at = 1
        <5>1. i \in 1..(size + 1)
          BY <1>1, <2>2
        <5> QED
          BY <1>2, <3>2, <5>1
      <4>2. outbox'[d][i].gid[1] = d /\ outbox'[d][i].gid[2] \in 1..(n + 1)
        <5>1. outbox[d][old(i)].gid[1] = d /\ outbox[d][old(i)].gid[2] \in 1..n
          BY <2>0, <4>1 DEF size
        <5> QED
          BY <1>1, <4>1, <5>1
      <4>3. ASSUME NEW j \in 1..(size + 1), outbox'[d][j].gid = outbox'[d][i].gid
            PROVE  j = i
        <5>1. j # at
          BY <1>1, <2>0, <4>1, <4>3 DEF size
        <5>2. old(j) \in 1..size /\ outbox'[d][j] = outbox[d][old(j)]
          BY <1>2, <5>1
        <5>3. old(j) = old(i)
          BY <2>0, <4>1, <4>3, <5>2 DEF size
        <5> QED
          BY <1>1, <1>3, <2>2, <3>2, <5>1, <5>3
      <4>4. i # 1 => Signed(outbox'[d][i]) = {}
        <5>1. CASE old(i) = 1 /\ i # 1
          <6>1. SignedOf(d) = {} /\ outbox[d] # <<>>
            BY <1>1, <4>1, <5>1 DEF size
          <6> QED
            BY <4>1, <5>1, <6>1 DEF SignedOf, FirstGroup
        <5>2. CASE old(i) # 1
          BY <2>0, <4>1, <5>2 DEF size
        <5> QED
          BY <5>1, <5>2
      <4> QED
        BY <1>1, <2>2, <4>2, <4>3, <4>4
    <3> QED
      BY <3>1, <3>2
  <2> QED
    BY <2>1, <2>2
<1>5. \/ outbox'[d][1] = FirstGroup(d) /\ outbox[d] # <<>>
      \/ Signed(outbox'[d][1]) = {} /\ SignedOf(d) = {}
  <2>1. CASE at = 1
    BY <1>1, <2>1
  <2>2. CASE at # 1
    <3>1. 1 \in 1..(size + 1) /\ at # 1
      BY <1>1, <2>2
    <3>2. old(1) = 1 /\ old(1) \in 1..size /\ outbox'[d][1] = outbox[d][old(1)]
      BY <1>2, <3>1
    <3> QED
      BY <1>1, <3>2 DEF FirstGroup, size
  <2> QED
    BY <2>1, <2>2
<1>6. SignedOf(d)' = SignedOf(d) /\ \A x \in Devices \ {d} : SignedOf(x)' = SignedOf(x)
  BY <1>1, <1>5 DEF SignedOf, FirstGroup
<1>7. SignedRuns' /\ SignedCausal'
  <2>1. ASSUME NEW x \in Devices, outbox'[x] # <<>>
        PROVE  \/ outbox'[x][1] = FirstGroup(x) /\ outbox[x] # <<>>
               \/ Signed(outbox'[x][1]) = {}
    <3>1. CASE x = d
      BY <1>5, <3>1
    <3>2. CASE x # d
      BY <1>1, <2>1, <3>2 DEF FirstGroup
    <3> QED
      BY <3>1, <3>2
  <2>2. SignedCausal'
    <3> SUFFICES ASSUME NEW x \in Devices, outbox'[x] # <<>>,
                        NEW e \in Signed(outbox'[x][1])
                 PROVE  LET op == outbox'[x][1].ops[e]
                        IN  /\ op.causal[x] = op.seq - 1
                            /\ \A y \in Devices \ {x} : op.causal[y] > 0 =>
                                  \E k \in 1..Len(log) :
                                     log[k].dev = y /\ log[k].seq = op.causal[y]
      BY DEF SignedCausal, FirstGroup
    <3>1. outbox'[x][1] = FirstGroup(x) /\ outbox[x] # <<>>
      BY <2>1
    <3> QED
      BY <3>1 DEF OrderInv, SignedCausal
  <2>3. ASSUME NEW x \in Devices, NEW group, Signed(group) = {}
        PROVE  SignedRun(x, group)
    <3>1. frontier[x][x] \in Nat
      BY DEF TypeOK
    <3>2. Cardinality(Signed(group)) = 0
      BY <2>3, FS_EmptySet
    <3> QED
      BY <2>3, <3>1, <3>2 DEF SignedRun
  <2>4. ASSUME NEW x \in Devices, outbox'[x] # <<>>
        PROVE  SignedRun(x, outbox'[x][1])
    BY <2>1, <2>3, <2>4 DEF OrderInv, SignedRuns
  <2>5. ASSUME NEW x \in Devices, NEW group, SignedRun(x, group)
        PROVE  SignedRun(x, group)'
    BY <2>5 DEF SignedRun
  <2> QED
    BY <2>2, <2>4, <2>5 DEF SignedRuns, FirstGroup
<1>8. LogGroups' /\ LogRuns' /\ CausalKnown' /\ ReceivedBehind'
  <2>1. LogRuns' /\ CausalKnown' /\ ReceivedBehind'
    BY DEF OrderInv, LogRuns, CausalKnown, ReceivedBehind
  <2>2. LogGroups'
    <3>1. \A m \in 1..n : m \in 1..(n + 1)
      BY <1>1
    <3>2. \A c \in 1..Len(log) : log[c].gid[2] \in 1..n
      BY DEF OrderInv, LogGroups, n
    <3> QED
      BY <1>1, <3>1, <3>2 DEF OrderInv, LogGroups
  <2> QED
    BY <2>1, <2>2
<1>9. LogOfOutbox'
  <2> SUFFICES ASSUME NEW x \in Devices, NEW i \in 1..Len(outbox'[x]),
                      NEW c \in 1..Len(log), log[c].gid = outbox'[x][i].gid
               PROVE  /\ i = 1 /\ Prepared(outbox'[x][i])
                      /\ log[c].size = Cardinality(Touched(outbox'[x][i]))
                      /\ log[c].seq \in
                            (frontier[x][x] - Cardinality(Touched(outbox'[x][i])) + 1)
                                ..frontier[x][x]
    BY DEF LogOfOutbox
  <2>1. CASE x # d
    <3>1. outbox'[x] = outbox[x] /\ i \in 1..Len(outbox[x])
      BY <1>1, <2>1
    <3> QED
      BY <3>1 DEF OrderInv, LogOfOutbox
  <2>2. CASE x = d
    <3>1. i # at
      BY <1>1, <2>2 DEF OrderInv, LogGroups, n
    <3>2. /\ old(i) \in 1..size /\ outbox'[d][i] = outbox[d][old(i)]
          /\ old(i) = 1 /\ i # 1 => at = 1
      BY <1>1, <1>2, <2>2, <3>1
    <3>3. /\ old(i) = 1 /\ Prepared(outbox'[d][i])
          /\ log[c].size = Cardinality(Touched(outbox'[d][i]))
          /\ log[c].seq \in (frontier[d][d] - Cardinality(Touched(outbox'[d][i])) + 1)
                                ..frontier[d][d]
      BY <2>2, <3>2 DEF OrderInv, LogOfOutbox, size
    <3>4. i = 1
      <4>1. outbox[d] # <<>> /\ SignedOf(d) # {}
        BY <1>1, <3>2, <3>3 DEF SignedOf, FirstGroup, Prepared, size
      <4> QED
        BY <1>1, <3>2, <3>3, <4>1
    <3> QED
      BY <2>2, <3>3, <3>4
  <2> QED
    BY <2>1, <2>2
<1>10. FrontierMatchesInbox'
  <2>1. \A x, y \in Devices : Newest(x, y)' = Newest(x, y)
    BY <1>6 DEF Newest
  <2>2. \A x \in Devices : processed'[x] = processed[x]
    OBVIOUS
  <2> QED
    BY <2>1, <2>2, FrontierIs DEF OrderInv, FrontierMatchesInbox, Newest, SignedOf
<1> QED
  BY <1>4, <1>7, <1>8, <1>9, <1>10 DEF OrderInv

\* A user's edit and a user's decision both commit one group.
LEMMA UserEnqueues ==
    ASSUME TypeOK, NEW d \in Devices, UserStep(d)
    PROVE  /\ \E edits \in [Entities -> Edits \cup {None}], at \in 1..(Len(outbox[d]) + 1) :
                 Enqueue(d, edits, at)
           /\ UNCHANGED <<log, state, frontier, received, processed, lastCursor, overtaken>>
<1>1. CASE LocalEdit(d)
  <2>1. PICK es \in SUBSET Entities \ {{}} :
          \E new \in [es -> Cell] : \E at \in 1..(Len(outbox[d]) + 1) :
             Enqueue(d, [e \in Entities |->
                           IF e \in es THEN [prev |-> table[d][e], val |-> new[e],
                                             resolves |-> {}] ELSE None], at)
    BY <1>1 DEF LocalEdit
  <2>2. PICK new \in [es -> Cell], at \in 1..(Len(outbox[d]) + 1) :
          Enqueue(d, [e \in Entities |->
                        IF e \in es THEN [prev |-> table[d][e], val |-> new[e],
                                          resolves |-> {}] ELSE None], at)
    BY <2>1
  <2>3. [e \in Entities |-> IF e \in es THEN [prev |-> table[d][e], val |-> new[e],
                                            resolves |-> {}] ELSE None]
          \in [Entities -> Edits \cup {None}]
    BY DEF Edits, TypeOK
  <2> QED
    BY <1>1, <2>2, <2>3 DEF LocalEdit, serverVars
<1>2. CASE \E gid \in GroupIds, keepLocal \in BOOLEAN : Resolve(d, gid, keepLocal)
  <2>1. PICK gid \in GroupIds, keepLocal \in BOOLEAN : Resolve(d, gid, keepLocal)
    BY <1>2
  <2> DEFINE group == ConflictsOf(d, gid)
             about(e) == CHOOSE c \in group : c.ent = e
             desired(e) == IF keepLocal THEN table[d][e] ELSE about(e).val
             edits == [e \in Entities |->
                         IF \E c \in group : c.ent = e
                         THEN [prev |-> table[d][e], val |-> desired(e),
                               resolves |-> {about(e).local, about(e).op} \ {None}]
                         ELSE None]
  <2>2. group \subseteq Conflicts
    BY DEF ConflictsOf, TypeOK
  <2>3. ASSUME NEW e \in Entities, \E c \in group : c.ent = e
        PROVE  [prev |-> table[d][e], val |-> desired(e),
                resolves |-> {about(e).local, about(e).op} \ {None}] \in Edits
    <3>1. about(e) \in Conflicts
      BY <2>2, <2>3
    <3> HIDE DEF about
    <3>2. desired(e) \in Cell /\ table[d][e] \in Cell
      BY <3>1 DEF Conflicts, TypeOK
    <3>3. {about(e).local, about(e).op} \ {None} \in SUBSET OpIds
      BY <3>1 DEF Conflicts
    <3> QED
      BY <3>2, <3>3 DEF Edits
  <2>4. edits \in [Entities -> Edits \cup {None}]
    BY <2>3
  <2>5. Enqueue(d, edits, Len(outbox[d]) + 1)
    BY <2>1 DEF Resolve
  <2>6. Len(outbox[d]) + 1 \in 1..(Len(outbox[d]) + 1)
    BY DEF TypeOK
  <2>7. UNCHANGED <<log, state, frontier, received, processed, lastCursor, overtaken>>
    BY <2>1 DEF Resolve, serverVars
  <2> HIDE DEF edits
  <2> QED
    BY <2>4, <2>5, <2>6, <2>7
<1> QED
  BY <1>1, <1>2 DEF UserStep

\* A user's step keeps OrderInv.
LEMMA UserOrder ==
    ASSUME TypeOK, OrderInv, NEW d \in Devices, UserStep(d)
    PROVE  OrderInv'
BY UserEnqueues, EnqueueOrder

\* A group with nothing signed is trivially a signed run.
LEMMA UnsignedRun ==
    ASSUME TypeOK, NEW d \in Devices, NEW group, Signed(group) = {}
    PROVE  SignedRun(d, group)
<1>1. frontier[d][d] \in Nat
  BY DEF TypeOK
<1>2. Cardinality(Signed(group)) = 0
  BY FS_EmptySet
<1> QED
  BY <1>1, <1>2 DEF SignedRun

\* What signing a group writes.
LEMMA PrepareShape ==
    ASSUME TypeOK, NEW d \in Devices, Prepare(d)
    PROVE  LET group == FirstGroup(d)
               es    == Touched(group)
               now   == outbox'[d][1]
           IN  /\ outbox[d] # <<>> /\ group = outbox[d][1] /\ Signed(group) = {}
               /\ 1 \in 1..Len(outbox[d]) /\ Len(outbox'[d]) = Len(outbox[d])
               /\ \A i \in 2..Len(outbox[d]) : outbox'[d][i] = outbox[d][i]
               /\ \A x \in Devices \ {d} : outbox'[x] = outbox[x]
               /\ now.gid = group.gid /\ now.edits = group.edits /\ Touched(now) = es
               /\ Signed(now) = es
               /\ \A e \in es : now.ops[e] = PreparedOp(d, group, e)
               /\ frontier'[d][d] = frontier[d][d] + Cardinality(es)
               /\ \A x, y \in Devices : x # d \/ y # d => frontier'[x][y] = frontier[x][y]
<1> DEFINE group == FirstGroup(d)
           es    == Touched(group)
           ops   == [e \in Entities |-> IF e \in es THEN PreparedOp(d, group, e) ELSE None]
           now   == [group EXCEPT !.ops = ops]
<1>1. /\ outbox[d] \in Seq(Groups) /\ outbox[d] # <<>> /\ group = outbox[d][1]
      /\ group \in Groups /\ ~Prepared(group) /\ Len(outbox[d]) \in Nat
  BY DEF Prepare, Uploading, FirstGroup, TypeOK
<1>2. /\ outbox'[d] = [outbox[d] EXCEPT ![1] = now]
      /\ \A x \in Devices \ {d} : outbox'[x] = outbox[x]
  BY <1>1 DEF Prepare, TypeOK
<1>3. now.gid = group.gid /\ now.edits = group.edits /\ now.ops = ops
  BY <1>1 DEF Groups
<1>4. Touched(now) = es
  BY <1>3 DEF Touched
<1>5. \A e \in es : PreparedOp(d, group, e) # None /\ e \in Entities
  BY <1>1, PreparedOpType, NoneAssumption DEF NoneAssumption, Touched
<1>6. Signed(now) = es /\ \A e \in es : now.ops[e] = PreparedOp(d, group, e)
  <2> HIDE DEF es, now, group
  <2>1. \A e \in Entities : now.ops[e] = IF e \in es THEN PreparedOp(d, group, e) ELSE None
    BY <1>3
  <2> QED
    BY <1>5, <2>1 DEF Signed
<1>7. /\ frontier'[d][d] = frontier[d][d] + Cardinality(es)
      /\ \A x, y \in Devices : x # d \/ y # d => frontier'[x][y] = frontier[x][y]
  <2>1. frontier' = [frontier EXCEPT ![d][d] = @ + Cardinality(es)]
    BY DEF Prepare
  <2> HIDE DEF es
  <2> QED
    BY <2>1 DEF TypeOK
<1> HIDE DEF now, es, group
<1>8. /\ outbox'[d][1] = now /\ 1 \in 1..Len(outbox[d]) /\ Len(outbox'[d]) = Len(outbox[d])
      /\ \A i \in 2..Len(outbox[d]) : outbox'[d][i] = outbox[d][i]
  BY <1>1, <1>2
<1>9. Signed(group) = {}
  BY <1>1 DEF Prepared
<1> QED
  BY <1>1, <1>2, <1>3, <1>4, <1>6, <1>7, <1>8, <1>9 DEF es, group

\* The sequences of a group just signed follow those of its device.
LEMMA PreparedRun ==
    ASSUME TypeOK, NEW d \in Devices, Prepare(d)
    PROVE  SignedRun(d, FirstGroup(d))'
<1> DEFINE es == Touched(FirstGroup(d))
           now == outbox'[d][1]
           fr == frontier[d][d]
           n == Cardinality(es)
           idx(e) == Index(es, e)
<1>1. /\ now.gid = FirstGroup(d).gid /\ Touched(now) = es /\ Signed(now) = es
      /\ \A e \in es : now.ops[e] = PreparedOp(d, FirstGroup(d), e)
      /\ frontier'[d][d] = fr + n
  BY PrepareShape
<1>2. \A e \in es : /\ now.ops[e].gid = now.gid /\ now.ops[e].size = n
                    /\ now.ops[e].seq = fr + idx(e)
  <2> TAKE e \in es
  <2>1. now.ops[e] = PreparedOp(d, FirstGroup(d), e)
    BY <1>1
  <2>2. /\ PreparedOp(d, FirstGroup(d), e).gid = FirstGroup(d).gid
        /\ PreparedOp(d, FirstGroup(d), e).size = n
        /\ PreparedOp(d, FirstGroup(d), e).seq = fr + idx(e)
    BY DEF PreparedOp
  <2> QED
    BY <1>1, <2>1, <2>2
<1>3. fr \in Nat /\ n \in Nat /\ IsFiniteSet(es) /\ es \subseteq Nat
  <2>1. fr \in Nat
    BY DEF TypeOK
  <2>2. es \subseteq Entities
    BY DEF Touched
  <2> QED
    BY <2>1, <2>2, TouchedFinite, SyncAssumption DEF SyncAssumption
<1>4. /\ \A e, f \in es : e < f => idx(e) < idx(f)
      /\ \A e \in es : idx(e) \in 1..n
      /\ {idx(e) : e \in es} = 1..n
  BY <1>3, IndexOrder
<1> HIDE DEF es, now, fr, n, idx
<1>5. {now.ops[e].seq : e \in es} = (fr + 1)..(fr + n)
  <2>1. \A e \in es : now.ops[e].seq \in (fr + 1)..(fr + n)
    BY <1>2, <1>3, <1>4
  <2>2. ASSUME NEW t \in (fr + 1)..(fr + n)
        PROVE  \E e \in es : now.ops[e].seq = t
    <3>1. t - fr \in 1..n
      BY <1>3
    <3>2. PICK e \in es : idx(e) = t - fr
      BY <1>4, <3>1
    <3> QED
      BY <1>2, <1>3, <3>2
  <2> QED
    BY <2>1, <2>2
<1>6. \A e, f \in es : e < f => now.ops[e].seq < now.ops[f].seq
  BY <1>2, <1>3, <1>4
<1>7. \A e \in es : now.ops[e].seq >= 1
  <2> TAKE e \in es
  <2>1. now.ops[e].seq = fr + idx(e) /\ idx(e) \in 1..n
    BY <1>2, <1>4
  <2> QED
    BY <1>3, <2>1
<1>8. frontier'[d][d] - n + 1 = fr + 1
  BY <1>1, <1>3
<1>9. {now.ops[e].seq : e \in es} = (frontier'[d][d] - n + 1)..frontier'[d][d]
  <2> DEFINE I == {now.ops[e].seq : e \in es}
  <2>1. I = (fr + 1)..(fr + n)
    BY <1>5
  <2> HIDE DEF I
  <2>2. I = (frontier'[d][d] - n + 1)..frontier'[d][d]
    BY <1>1, <1>8, <2>1
  <2> QED
    BY <2>2 DEF I
<1>10. Cardinality(Signed(now)) = n /\ Cardinality(Touched(now)) = n
  BY <1>1 DEF n
<1>11. SignedRun(d, FirstGroup(d))'  <=>
         /\ Signed(now) \subseteq Touched(now)
         /\ {now.ops[e].seq : e \in Signed(now)} =
               (frontier'[d][d] - Cardinality(Signed(now)) + 1)..frontier'[d][d]
         /\ \A e, f \in Signed(now) : e < f => now.ops[e].seq < now.ops[f].seq
         /\ \A e \in Signed(now) :
               /\ now.ops[e].gid = now.gid /\ now.ops[e].seq >= 1
               /\ now.ops[e].size = Cardinality(Touched(now))
  BY DEF SignedRun, FirstGroup, now
<1> QED
  BY <1>1, <1>2, <1>6, <1>7, <1>9, <1>10, <1>11

\* Signing a group keeps OrderInv: what it names as seen is in the log.
LEMMA PrepareOrder ==
    ASSUME TypeOK, OrderInv, NEW d \in Devices, Prepare(d)
    PROVE  OrderInv'
<1> DEFINE group == FirstGroup(d)
           es == Touched(group)
           now == outbox'[d][1]
<1>1. /\ outbox[d] # <<>> /\ group = outbox[d][1] /\ Signed(group) = {}
      /\ 1 \in 1..Len(outbox[d]) /\ Len(outbox'[d]) = Len(outbox[d])
      /\ \A i \in 2..Len(outbox[d]) : outbox'[d][i] = outbox[d][i]
      /\ \A x \in Devices \ {d} : outbox'[x] = outbox[x]
      /\ now.gid = group.gid /\ Touched(now) = es /\ Signed(now) = es
      /\ \A e \in es : now.ops[e] = PreparedOp(d, group, e)
      /\ frontier'[d][d] = frontier[d][d] + Cardinality(es)
      /\ \A x, y \in Devices : x # d \/ y # d => frontier'[x][y] = frontier[x][y]
  BY PrepareShape
<1>2. UNCHANGED <<log, received, processed, lastCursor, spent>>
  BY DEF Prepare, serverVars
<1>3. outbox'[d] # <<>> /\ Len(outbox[d]) \in Nat
  BY <1>1 DEF TypeOK
<1> HIDE DEF group, es, now
<1>4. ASSUME NEW x \in Devices, NEW i \in 1..Len(outbox'[x])
      PROVE  /\ i \in 1..Len(outbox[x]) /\ outbox'[x][i].gid = outbox[x][i].gid
             /\ x # d \/ i # 1 => outbox'[x][i] = outbox[x][i]
  <2>1. CASE x # d
    BY <1>1, <2>1
  <2>2. CASE x = d /\ i = 1
    BY <1>1, <2>2 DEF now
  <2>3. CASE x = d /\ i # 1
    BY <1>1, <1>3, <2>3
  <2> QED
    BY <2>1, <2>2, <2>3
<1>5. \A x \in Devices : Len(outbox'[x]) = Len(outbox[x])
  BY <1>1
<1>6. OutboxFits'
  <2> SUFFICES ASSUME NEW x \in Devices, NEW i \in 1..Len(outbox'[x])
               PROVE  /\ outbox'[x][i].gid[1] = x /\ outbox'[x][i].gid[2] \in 1..spent.groups
                      /\ \A j \in 1..Len(outbox'[x]) :
                            outbox'[x][j].gid = outbox'[x][i].gid => j = i
                      /\ i # 1 => Signed(outbox'[x][i]) = {}
    BY <1>2 DEF OutboxFits
  <2>1. /\ outbox[x][i].gid[1] = x /\ outbox[x][i].gid[2] \in 1..spent.groups
        /\ \A j \in 1..Len(outbox[x]) : outbox[x][j].gid = outbox[x][i].gid => j = i
        /\ i # 1 => Signed(outbox[x][i]) = {}
    BY <1>4 DEF OrderInv, OutboxFits
  <2> QED
    BY <1>4, <1>5, <2>1
<1>7. SignedRuns'
  <2> SUFFICES ASSUME NEW x \in Devices, outbox'[x] # <<>>
               PROVE  SignedRun(x, FirstGroup(x))'
    BY DEF SignedRuns
  <2>1. CASE x = d
    BY <2>1, PreparedRun
  <2>2. CASE x # d
    <3>1. outbox'[x] = outbox[x] /\ frontier'[x][x] = frontier[x][x]
      BY <1>1, <2>2
    <3>2. SignedRun(x, FirstGroup(x))
      BY <3>1 DEF OrderInv, SignedRuns
    <3> QED
      BY <3>1, <3>2 DEF SignedRun, FirstGroup
  <2> QED
    BY <2>1, <2>2
<1>8. LogRuns' /\ LogGroups' /\ CausalKnown' /\ ReceivedBehind'
  BY <1>2 DEF OrderInv, LogRuns, LogGroups, CausalKnown, ReceivedBehind
<1>9. LogOfOutbox'
  <2> SUFFICES ASSUME NEW x \in Devices, NEW i \in 1..Len(outbox'[x]),
                      NEW c \in 1..Len(log), log[c].gid = outbox'[x][i].gid
               PROVE  /\ i = 1 /\ Prepared(outbox'[x][i])
                      /\ log[c].size = Cardinality(Touched(outbox'[x][i]))
                      /\ log[c].seq \in
                            (frontier'[x][x] - Cardinality(Touched(outbox'[x][i])) + 1)
                                ..frontier'[x][x]
    BY <1>2 DEF LogOfOutbox
  <2>1. /\ i \in 1..Len(outbox[x]) /\ log[c].gid = outbox[x][i].gid
        /\ i = 1 /\ Prepared(outbox[x][i])
        /\ log[c].size = Cardinality(Touched(outbox[x][i]))
        /\ log[c].seq \in (frontier[x][x] - Cardinality(Touched(outbox[x][i])) + 1)
                              ..frontier[x][x]
    BY <1>4 DEF OrderInv, LogOfOutbox
  <2>2. x # d
    BY <1>1, <2>1 DEF Prepared
  <2>3. outbox'[x] = outbox[x] /\ frontier'[x][x] = frontier[x][x]
    BY <1>1, <2>2
  <2> QED
    BY <2>1, <2>3
<1>10. SignedCausal'
  <2> SUFFICES ASSUME NEW x \in Devices, outbox'[x] # <<>>,
                      NEW e \in Signed(outbox'[x][1])
               PROVE  LET op == outbox'[x][1].ops[e]
                      IN  /\ op.causal[x] = op.seq - 1
                          /\ \A y \in Devices \ {x} : op.causal[y] > 0 =>
                                \E k \in 1..Len(log) :
                                   log[k].dev = y /\ log[k].seq = op.causal[y]
    BY <1>2 DEF SignedCausal, FirstGroup
  <2>1. CASE x # d
    <3>1. outbox'[x] = outbox[x]
      BY <1>1, <2>1
    <3> QED
      BY <3>1 DEF OrderInv, SignedCausal, FirstGroup
  <2>2. CASE x = d
    <3> DEFINE op == PreparedOp(d, group, e)
    <3>1. outbox'[x][1].ops[e] = op
      BY <1>1, <2>2 DEF now
    <3>2. op.causal = [frontier[d] EXCEPT ![d] = op.seq - 1]
      BY DEF PreparedOp
    <3> HIDE DEF op
    <3>3. /\ op.causal[d] = op.seq - 1
          /\ \A y \in Devices \ {d} : op.causal[y] = frontier[d][y]
      BY <3>2 DEF TypeOK
    <3>4. ASSUME NEW y \in Devices \ {d}, frontier[d][y] > 0
          PROVE  \E k \in 1..Len(log) : log[k].dev = y /\ log[k].seq = frontier[d][y]
      <4>1. frontier[d][y] \in Nat /\ processed[d] \subseteq 1..Len(log)
        BY DEF TypeOK
      <4>2. Newest(d, y) = frontier[d][y]
        BY <4>1 DEF Newest
      <4>3. frontier[d][y] \in 1..Newest(d, y)
        BY <3>4, <4>1, <4>2
      <4>4. \E k \in processed[d] : log[k].dev = y /\ log[k].seq = frontier[d][y]
        BY <4>3, FrontierIs DEF OrderInv
      <4> QED
        BY <4>1, <4>4
    <3> QED
      BY <2>2, <3>1, <3>3, <3>4
  <2> QED
    BY <2>1, <2>2
<1>11. FrontierMatchesInbox'
  <2>1. SignedOf(d) = {} /\ SignedOf(d)' = es
    BY <1>1, <1>3 DEF SignedOf, FirstGroup, now, group
  <2>2. \A x \in Devices \ {d} : SignedOf(x)' = SignedOf(x)
    BY <1>1 DEF SignedOf, FirstGroup
  <2>3. Newest(d, d)' = Newest(d, d)
    <3>1. frontier[d][d] \in Nat /\ Cardinality(es) \in Nat /\ Cardinality({}) = 0
      BY TouchedFinite, FS_EmptySet DEF TypeOK, es
    <3>2. Newest(d, d) = frontier[d][d]
      BY <2>1, <3>1 DEF Newest
    <3>3. Newest(d, d)' = (frontier[d][d] + Cardinality(es)) - Cardinality(es)
      <4>1. Newest(d, d)' = frontier'[d][d] - Cardinality(SignedOf(d)')
        BY DEF Newest
      <4> QED
        BY <1>1, <2>1, <4>1
    <3> QED
      BY <3>1, <3>2, <3>3
  <2>4. ASSUME NEW x \in Devices, NEW y \in Devices
        PROVE  Newest(x, y)' = Newest(x, y)
    <3>1. CASE x = d /\ y = d
      BY <2>3, <3>1
    <3>2. CASE x # d
      BY <1>1, <2>2, <3>2 DEF Newest
    <3>3. CASE x = d /\ y # d
      BY <1>1, <3>3 DEF Newest
    <3> QED
      BY <3>1, <3>2, <3>3
  <2> QED
    BY <1>2, <2>4, FrontierIs, NextFrontierIs DEF OrderInv
<1> QED
  BY <1>6, <1>7, <1>8, <1>9, <1>10, <1>11 DEF OrderInv

\* The operation sent next carries the lowest of the signed sequences, and
\* what stays signed is a run again.
LEMMA SendsLowest ==
    ASSUME TypeOK, OrderInv, NEW d \in Devices, outbox[d] # <<>>,
           NEW e \in Entities, Sends(d, e)
    PROVE  LET group == FirstGroup(d)
               op    == group.ops[e]
               rest  == [group EXCEPT !.ops[e] = None]
           IN  /\ op.seq = frontier[d][d] - Cardinality(Signed(group)) + 1
               /\ op.seq = Newest(d, d) + 1 /\ op.seq \in Nat /\ op.seq <= frontier[d][d]
               /\ Signed(rest) = Signed(group) \ {e} /\ rest.gid = group.gid
               /\ rest.edits = group.edits
               /\ Cardinality(Signed(rest)) = Cardinality(Signed(group)) - 1
               /\ \A f \in Signed(rest) : rest.ops[f] = group.ops[f]
               /\ SignedRun(d, rest)
<1> DEFINE group == FirstGroup(d)
           S     == Signed(group)
           n     == Cardinality(S)
           fr    == frontier[d][d]
           q(f)  == group.ops[f].seq
           rest  == [group EXCEPT !.ops[e] = None]
<1>1. /\ group \in Groups /\ SignedRun(d, group)
  BY DEF FirstGroup, TypeOK, OrderInv, SignedRuns
<1>2. e \in S /\ \A f \in S : e <= f
  BY DEF Sends
<1>3. /\ S \subseteq Touched(group)
      /\ {q(f) : f \in S} = (fr - n + 1)..fr
      /\ \A f, g \in S : f < g => q(f) < q(g)
      /\ \A f \in S : /\ group.ops[f].gid = group.gid /\ q(f) >= 1
                      /\ group.ops[f].size = Cardinality(Touched(group))
  BY <1>1 DEF SignedRun
<1>4. fr \in Nat /\ n \in Nat /\ IsFiniteSet(S) /\ S \subseteq Entities /\ S \subseteq Nat
  <2>1. S \subseteq Entities
    BY DEF Signed
  <2>2. fr \in Nat
    BY DEF TypeOK
  <2> QED
    BY <2>1, <2>2, SignedFinite, SyncAssumption DEF SyncAssumption
<1>5. \A f \in S : q(f) \in Nat
  BY <1>1 DEF Signed, Groups, Operations
<1>6. /\ rest.gid = group.gid /\ rest.edits = group.edits
      /\ rest.ops = [group.ops EXCEPT ![e] = None]
      /\ group.ops \in [Entities -> Operations \cup {None}]
  BY <1>1 DEF Groups
<1>7. Signed(rest) = S \ {e} /\ \A f \in Signed(rest) : rest.ops[f] = group.ops[f]
  <2>1. \A f \in Entities : rest.ops[f] = IF f = e THEN None ELSE group.ops[f]
    BY <1>6
  <2> HIDE DEF rest, group
  <2> QED
    BY <2>1 DEF Signed
<1>8. Cardinality(Signed(rest)) = n - 1
  BY <1>2, <1>4, <1>7, FS_RemoveElement
<1>9. Touched(rest) = Touched(group)
  BY <1>6 DEF Touched
<1>10. Newest(d, d) = fr - n
  BY DEF Newest, SignedOf
<1> HIDE DEF group, S, n, fr, q, rest
<1>11. q(e) = fr - n + 1
  <2>1. q(e) \in (fr - n + 1)..fr
    BY <1>2, <1>3
  <2>2. fr - n + 1 \in (fr - n + 1)..fr
    BY <1>4, <2>1
  <2>3. PICK f \in S : q(f) = fr - n + 1
    BY <1>3, <2>2
  <2>4. f \in Nat /\ e \in Nat /\ (f = e \/ e < f)
    BY <1>2, <1>4
  <2>5. ~(e < f)
    <3>1. e < f => q(e) < q(f)
      BY <1>2, <1>3
    <3> QED
      BY <1>2, <1>4, <1>5, <2>1, <2>3, <3>1
  <2> QED
    BY <2>3, <2>4, <2>5
<1>12. {q(f) : f \in S \ {e}} = (fr - (n - 1) + 1)..fr
  <2>1. ASSUME NEW f \in S \ {e}
        PROVE  q(f) \in (fr - (n - 1) + 1)..fr
    <3>1. q(f) \in (fr - n + 1)..fr /\ f \in Nat /\ e \in Nat /\ e < f
      BY <1>2, <1>3, <1>4
    <3>2. q(e) < q(f)
      BY <1>2, <1>3, <3>1
    <3> QED
      BY <1>4, <1>11, <3>1, <3>2
  <2>2. ASSUME NEW t \in (fr - (n - 1) + 1)..fr
        PROVE  \E f \in S \ {e} : q(f) = t
    <3>1. t \in (fr - n + 1)..fr /\ t # fr - n + 1
      BY <1>4
    <3>2. PICK f \in S : q(f) = t
      BY <1>3, <3>1
    <3>3. f # e
      BY <1>11, <3>1, <3>2
    <3> QED
      BY <3>2, <3>3
  <2> QED
    BY <2>1, <2>2
<1>13. SignedRun(d, rest)
  <2>1. {rest.ops[f].seq : f \in Signed(rest)} = {q(f) : f \in S \ {e}}
    BY <1>7 DEF q
  <2>2. \A f, g \in Signed(rest) : f < g => rest.ops[f].seq < rest.ops[g].seq
    BY <1>3, <1>7 DEF q
  <2>3. \A f \in Signed(rest) :
           /\ rest.ops[f].gid = rest.gid /\ rest.ops[f].seq >= 1
           /\ rest.ops[f].size = Cardinality(Touched(rest))
    BY <1>3, <1>6, <1>7, <1>9 DEF q
  <2>4. Signed(rest) \subseteq Touched(rest)
    BY <1>3, <1>7, <1>9
  <2>5. {rest.ops[f].seq : f \in Signed(rest)} =
           (frontier[d][d] - Cardinality(Signed(rest)) + 1)..frontier[d][d]
    BY <1>8, <1>12, <2>1 DEF fr
  <2> QED
    BY <2>2, <2>3, <2>4, <2>5 DEF SignedRun
<1>14. q(e) = Newest(d, d) + 1 /\ q(e) <= fr
  <2>1. q(e) \in (fr - n + 1)..fr
    BY <1>2, <1>3
  <2> QED
    BY <1>4, <1>10, <1>11, <2>1
<1> QED
  BY <1>2, <1>5, <1>6, <1>7, <1>8, <1>11, <1>13, <1>14 DEF group, S, n, fr, q, rest

\* While the operation d sends next is not in the log, the log holds of d
\* exactly the sequences below it.
LEMMA OwnLogged ==
    ASSUME TypeOK, AckInv, OrderInv, NEW d \in Devices, outbox[d] # <<>>,
           NEW e \in Entities, Sends(d, e), Stored(FirstGroup(d).ops[e]) = {}, NEW n
    PROVE  (\E c \in 1..Len(log) : log[c].dev = d /\ log[c].seq = n)
              <=> n \in 1..(FirstGroup(d).ops[e].seq - 1)
<1> DEFINE op == FirstGroup(d).ops[e]
<1>1. /\ op.seq = Newest(d, d) + 1 /\ op.seq \in Nat
      /\ op.seq = frontier[d][d] - Cardinality(Signed(FirstGroup(d))) + 1
  BY SendsLowest
<1>2. op.dev = d
  <2>1. e \in Signed(FirstGroup(d)) /\ 1 \in 1..Len(outbox[d])
    BY DEF Sends, TypeOK
  <2> QED
    BY <2>1 DEF AckInv, SignedAreOwn, FirstGroup
<1>3. \A m : (\E c \in processed[d] : log[c].dev = d /\ log[c].seq = m) <=> m \in 1..Newest(d, d)
  BY FrontierIs DEF OrderInv
<1>4. processed[d] \subseteq 1..Len(log) /\ Newest(d, d) \in Int /\ Newest(d, d) = op.seq - 1
  <2>1. processed[d] \subseteq 1..Len(log)
    BY DEF TypeOK
  <2> HIDE DEF op
  <2>2. frontier[d][d] \in Nat /\ Cardinality(SignedOf(d)) \in Nat
    BY SignedFinite DEF TypeOK, SignedOf
  <2>3. Newest(d, d) = frontier[d][d] - Cardinality(SignedOf(d))
    BY DEF Newest
  <2> QED
    BY <1>1, <2>1, <2>2, <2>3
<1> HIDE DEF op
<1>5. ASSUME NEW c \in 1..Len(log), log[c].dev = d
      PROVE  c \in processed[d]
  <2> SUFFICES ASSUME c \notin processed[d]
               PROVE  FALSE
    OBVIOUS
  <2>1. PICK f \in Signed(FirstGroup(d)) : FirstGroup(d).ops[f] = log[c]
    BY <1>5 DEF AckInv, OwnAreUploading
  <2>2. log[c].seq \in Nat /\ log[c].seq >= op.seq
    <3>1. SignedRun(d, FirstGroup(d))
      BY DEF OrderInv, SignedRuns
    <3>2. log[c].seq \in {FirstGroup(d).ops[g].seq : g \in Signed(FirstGroup(d))}
      BY <2>1
    <3>3. log[c].seq \in (frontier[d][d] - Cardinality(Signed(FirstGroup(d))) + 1)..frontier[d][d]
      BY <3>1, <3>2 DEF SignedRun
    <3>4. log[c].seq \in Nat
      <4>1. log \in Seq(Operations)
        BY DEF TypeOK
      <4>2. log[c] \in Operations
        BY <4>1
      <4> QED
        BY <4>2 DEF Operations
    <3> QED
      BY <1>1, <3>3, <3>4
  <2>3. \E k \in 1..Len(log) : log[k].dev = d /\ log[k].seq = op.seq
    <3>1. CASE log[c].seq = op.seq
      BY <1>5, <3>1
    <3>2. CASE log[c].seq # op.seq
      <4>1. op.seq \in 1..(log[c].seq - 1)
        <5>1. op.seq >= 1
          <6>1. SignedRun(d, FirstGroup(d))
            BY DEF OrderInv, SignedRuns
          <6>2. e \in Signed(FirstGroup(d))
            BY DEF Sends
          <6> QED
            BY <6>1, <6>2 DEF SignedRun, op
        <5> QED
          BY <1>1, <2>2, <3>2, <5>1
      <4>2. PICK k \in 1..(c - 1) : log[k].dev = log[c].dev /\ log[k].seq = op.seq
        BY <4>1 DEF OrderInv, LogRuns
      <4>3. k \in 1..Len(log)
        BY DEF TypeOK
      <4> QED
        BY <1>5, <4>2, <4>3
    <3> QED
      BY <3>1, <3>2
  <2>4. Stored(op) = {}
    BY DEF op
  <2> QED
    BY <1>2, <2>3, <2>4 DEF Stored
<1>6. (\E c \in 1..Len(log) : log[c].dev = d /\ log[c].seq = n)
        <=> (\E c \in processed[d] : log[c].dev = d /\ log[c].seq = n)
  BY <1>4, <1>5
<1> QED
  BY <1>3, <1>4, <1>6 DEF op

\* The service's log keeps its runs, its groups and its causal order when it
\* accepts the operation a device sends next.
LEMMA AcceptedLog ==
    ASSUME TypeOK, AckInv, OrderInv, NEW d \in Devices, outbox[d] # <<>>,
           NEW e \in Entities, Sends(d, e), Accepts(FirstGroup(d).ops[e]),
           log' = LogAfter(FirstGroup(d).ops[e]), spent'.groups = spent.groups
    PROVE  LogRuns' /\ LogGroups' /\ CausalKnown'
<1> DEFINE op == FirstGroup(d).ops[e]
           group == FirstGroup(d)
<1>1. CASE Stored(op) # {}
  <2>1. log' = log
    BY <1>1 DEF LogAfter
  <2> QED
    BY <2>1 DEF OrderInv, LogRuns, LogGroups, CausalKnown
<1>2. CASE Stored(op) = {}
  <2>1. /\ group = outbox[d][1] /\ 1 \in 1..Len(outbox[d]) /\ group \in Groups
        /\ e \in Signed(group) /\ op \in Operations /\ op.dev = d
    <3>1. group = outbox[d][1] /\ 1 \in 1..Len(outbox[d]) /\ group \in Groups
      BY DEF FirstGroup, TypeOK
    <3>2. e \in Signed(group)
      BY DEF Sends
    <3> QED
      BY <3>1, <3>2 DEF AckInv, SignedAreOwn, Signed, Groups
  <2>2. /\ op.gid = group.gid /\ op.seq >= 1 /\ op.size = Cardinality(Touched(group))
        /\ Cardinality(Signed(group)) <= Cardinality(Touched(group))
        /\ Signed(group) \subseteq Touched(group)
        /\ op.seq \in (frontier[d][d] - Cardinality(Signed(group)) + 1)..frontier[d][d]
    <3>1. SignedRun(d, group)
      BY DEF OrderInv, SignedRuns
    <3>2. Signed(group) \subseteq Touched(group)
      BY <3>1 DEF SignedRun
    <3>3. Cardinality(Signed(group)) <= Cardinality(Touched(group))
      BY <3>2, TouchedFinite, FS_Subset
    <3>4. op.seq \in {group.ops[f].seq : f \in Signed(group)}
      BY <2>1
    <3> QED
      BY <2>1, <3>1, <3>2, <3>3, <3>4 DEF SignedRun
  <2>3. /\ op.causal[d] = op.seq - 1
        /\ \A x \in Devices \ {d} : op.causal[x] > 0 =>
              \E k \in 1..Len(log) : log[k].dev = x /\ log[k].seq = op.causal[x]
    BY <2>1 DEF OrderInv, SignedCausal
  <2>4. op.gid[1] = d /\ op.gid[2] \in 1..spent.groups
    BY <2>1, <2>2 DEF OrderInv, OutboxFits
  <2>5. \A n : (\E c \in 1..Len(log) : log[c].dev = d /\ log[c].seq = n) <=> n \in 1..(op.seq - 1)
    BY <1>2, OwnLogged
  <2>6. ASSUME NEW c \in 1..Len(log), log[c].gid = op.gid
        PROVE  /\ log[c].size = op.size
               /\ log[c].seq - op.seq < op.size /\ op.seq - log[c].seq < op.size
    <3>1. /\ log[c].size = Cardinality(Touched(group))
          /\ log[c].seq \in (frontier[d][d] - Cardinality(Touched(group)) + 1)..frontier[d][d]
      BY <2>1, <2>2, <2>6 DEF OrderInv, LogOfOutbox
    <3>2. /\ frontier[d][d] \in Nat /\ Cardinality(Signed(group)) \in Nat
          /\ Cardinality(Touched(group)) \in Nat
      BY SignedFinite, TouchedFinite DEF TypeOK
    <3> QED
      BY <2>2, <3>1, <3>2
  <2>7. op.seq \in Nat /\ op.size \in Nat
    BY <2>1 DEF Operations
  <2>8. Len(log) \in Nat
    BY DEF TypeOK
  <2> HIDE DEF op, group
  <2>9. /\ Len(log') = Len(log) + 1 /\ log'[Len(log) + 1] = op
        /\ \A c \in 1..Len(log) : log'[c] = log[c]
    <3>1. log' = Append(log, op) /\ log \in Seq(Operations)
      BY <1>2 DEF LogAfter, TypeOK, op
    <3> QED
      BY <2>1, <3>1
  <2>10. LogRuns'
    <3> SUFFICES ASSUME NEW c \in 1..Len(log')
                 PROVE  /\ log'[c].seq >= 1
                        /\ \A n \in 1..(log'[c].seq - 1) : \E k \in 1..(c - 1) :
                              log'[k].dev = log'[c].dev /\ log'[k].seq = n
                        /\ \A k \in 1..(c - 1) :
                              log'[k].dev = log'[c].dev => log'[k].seq < log'[c].seq
      BY DEF LogRuns
    <3>1. CASE c = Len(log) + 1
      <4>1. \A k \in 1..(c - 1) : k \in 1..Len(log) /\ log'[k] = log[k]
        BY <2>8, <2>9, <3>1
      <4>2. log'[c] = op /\ c - 1 = Len(log)
        BY <2>8, <2>9, <3>1
      <4>3. \A n \in 1..(op.seq - 1) : \E k \in 1..Len(log) :
               log[k].dev = d /\ log[k].seq = n
        BY <2>5
      <4>4. ASSUME NEW k \in 1..Len(log), log[k].dev = d
            PROVE  log[k].seq < op.seq
        <5>1. log[k].seq \in 1..(op.seq - 1)
          BY <2>5, <4>4
        <5> QED
          BY <2>7, <5>1
      <4>5. \A n \in 1..(op.seq - 1) : \E k \in 1..(c - 1) :
               log'[k].dev = d /\ log'[k].seq = n
        BY <4>1, <4>2, <4>3
      <4>6. \A k \in 1..(c - 1) : log'[k].dev = d => log'[k].seq < op.seq
        BY <4>1, <4>4
      <4>7. log'[c].dev = d /\ log'[c].seq = op.seq /\ op.seq >= 1
        BY <2>1, <2>2, <4>2
      <4> QED
        BY <4>5, <4>6, <4>7
    <3>2. CASE c # Len(log) + 1
      <4>1. c \in 1..Len(log) /\ \A k \in 1..(c - 1) : k \in 1..Len(log) /\ log'[k] = log[k]
        BY <2>8, <2>9, <3>2
      <4>2. log'[c] = log[c]
        BY <2>9, <4>1
      <4>3. /\ log[c].seq >= 1
            /\ \A n \in 1..(log[c].seq - 1) : \E k \in 1..(c - 1) :
                  log[k].dev = log[c].dev /\ log[k].seq = n
            /\ \A k \in 1..(c - 1) : log[k].dev = log[c].dev => log[k].seq < log[c].seq
        BY <4>1 DEF OrderInv, LogRuns
      <4> QED
        BY <4>1, <4>2, <4>3
    <3> QED
      BY <3>1, <3>2
  <2>11. LogGroups'
    <3> SUFFICES ASSUME NEW c \in 1..Len(log')
                 PROVE  /\ log'[c].gid[1] = log'[c].dev
                        /\ log'[c].gid[2] \in 1..spent.groups
                        /\ \A k \in 1..Len(log') : log'[k].gid = log'[c].gid =>
                              /\ log'[k].size = log'[c].size
                              /\ log'[c].seq - log'[k].seq < log'[c].size
      BY DEF LogGroups
    <3>1. \A k \in 1..Len(log') : k = Len(log) + 1 \/ k \in 1..Len(log)
      BY <2>8, <2>9
    <3>2. \A k \in 1..Len(log) :
             /\ log[k].gid[1] = log[k].dev /\ log[k].gid[2] \in 1..spent.groups
             /\ \A j \in 1..Len(log) : log[j].gid = log[k].gid =>
                   log[j].size = log[k].size /\ log[k].seq - log[j].seq < log[k].size
      BY DEF OrderInv, LogGroups
    <3>3. op.seq - op.seq < op.size
      <4>1. op.size # 0
        <5>1. e \in Touched(group) /\ IsFiniteSet(Touched(group))
          BY <2>1, <2>2, TouchedFinite
        <5>2. Cardinality(Touched(group)) # 0
          BY <5>1, FS_EmptySet
        <5> QED
          BY <2>2, <5>2
      <4> QED
        BY <2>7, <4>1
    <3>4. CASE c = Len(log) + 1
      BY <2>1, <2>4, <2>6, <2>9, <3>1, <3>3, <3>4
    <3>5. CASE c \in 1..Len(log)
      BY <2>6, <2>9, <3>1, <3>2, <3>5
    <3> QED
      BY <3>1, <3>4, <3>5
  <2>12. CausalKnown'
    <3> SUFFICES ASSUME NEW c \in 1..Len(log'), NEW x \in Devices, log'[c].causal[x] > 0
                 PROVE  \E k \in 1..(c - 1) :
                           log'[k].dev = x /\ log'[k].seq = log'[c].causal[x]
      BY DEF CausalKnown
    <3>1. CASE c = Len(log) + 1
      <4>1. log'[c] = op /\ c - 1 = Len(log) /\ \A k \in 1..Len(log) : log'[k] = log[k]
        BY <2>8, <2>9, <3>1
      <4>2. \E k \in 1..Len(log) : log[k].dev = x /\ log[k].seq = op.causal[x]
        <5>1. CASE x # d
          BY <2>3, <4>1, <5>1
        <5>2. CASE x = d
          <6>1. op.seq - 1 \in 1..(op.seq - 1)
            BY <2>3, <2>7, <4>1, <5>2
          <6> QED
            BY <2>3, <2>5, <5>2, <6>1
        <5> QED
          BY <5>1, <5>2
      <4> QED
        BY <4>1, <4>2
    <3>2. CASE c # Len(log) + 1
      <4>1. /\ c \in 1..Len(log) /\ log'[c] = log[c]
            /\ \A k \in 1..(c - 1) : log'[k] = log[k]
        BY <2>8, <2>9, <3>2
      <4>2. \E k \in 1..(c - 1) : log[k].dev = x /\ log[k].seq = log[c].causal[x]
        BY <4>1 DEF OrderInv, CausalKnown
      <4> QED
        BY <4>1, <4>2
    <3> QED
      BY <3>1, <3>2
  <2> QED
    BY <2>10, <2>11, <2>12
<1> QED
  BY <1>1, <1>2

\* The operation sent next belongs to the signed group.
LEMMA SentOp ==
    ASSUME TypeOK, AckInv, OrderInv, NEW d \in Devices, outbox[d] # <<>>,
           NEW e \in Entities, Sends(d, e)
    PROVE  LET group == FirstGroup(d)
               op    == group.ops[e]
           IN  /\ group = outbox[d][1] /\ 1 \in 1..Len(outbox[d]) /\ Prepared(group)
               /\ op \in Operations /\ op.dev = d /\ op.gid = group.gid
               /\ group.gid[1] = d
               /\ op.size = Cardinality(Touched(group))
               /\ op.seq \in (frontier[d][d] - Cardinality(Touched(group)) + 1)..frontier[d][d]
<1> DEFINE group == FirstGroup(d)
           op    == group.ops[e]
<1>1. group = outbox[d][1] /\ 1 \in 1..Len(outbox[d]) /\ group \in Groups
  BY DEF FirstGroup, TypeOK
<1>2. e \in Signed(group)
  BY DEF Sends
<1>3. op \in Operations /\ op.dev = d /\ Prepared(group)
  BY <1>1, <1>2 DEF AckInv, SignedAreOwn, Signed, Groups, Prepared
<1>4. SignedRun(d, group)
  BY DEF OrderInv, SignedRuns
<1>5. Cardinality(Signed(group)) <= Cardinality(Touched(group))
  BY <1>4, TouchedFinite, FS_Subset DEF SignedRun
<1>6. /\ op.gid = group.gid /\ op.size = Cardinality(Touched(group))
      /\ op.seq \in (frontier[d][d] - Cardinality(Signed(group)) + 1)..frontier[d][d]
  <2>1. op.seq \in {group.ops[f].seq : f \in Signed(group)}
    BY <1>2
  <2> QED
    BY <1>2, <1>4, <2>1 DEF SignedRun
<1>7. group.gid[1] = d
  BY <1>1 DEF OrderInv, OutboxFits
<1>8. /\ frontier[d][d] \in Nat /\ Cardinality(Signed(group)) \in Nat
      /\ Cardinality(Touched(group)) \in Nat
  BY SignedFinite, TouchedFinite DEF TypeOK
<1> HIDE DEF op, group
<1>9. op.seq \in (frontier[d][d] - Cardinality(Touched(group)) + 1)..frontier[d][d]
  BY <1>5, <1>6, <1>8
<1> QED
  BY <1>1, <1>3, <1>6, <1>7, <1>9 DEF op, group

\* A lost answer keeps OrderInv: the operation may be in the log already.
LEMMA UploadUnansweredOrder ==
    ASSUME TypeOK, AckInv, OrderInv, NEW d \in Devices, UploadUnanswered(d)
    PROVE  OrderInv'
<1>1. PICK e \in Entities :
        /\ Sends(d, e) /\ Accepts(FirstGroup(d).ops[e])
        /\ log' = LogAfter(FirstGroup(d).ops[e])
  BY DEF UploadUnanswered
<1> DEFINE op  == FirstGroup(d).ops[e]
           cur == CursorOf(op)
<1>2. /\ outbox[d] # <<>>
      /\ UNCHANGED <<frontier, outbox, received, processed, lastCursor>>
      /\ spent'.groups = spent.groups
  BY DEF UploadUnanswered, Uploading, deviceVars, TypeOK
<1>3. /\ FirstGroup(d) = outbox[d][1] /\ 1 \in 1..Len(outbox[d]) /\ Prepared(FirstGroup(d))
      /\ op \in Operations /\ op.dev = d /\ op.gid = FirstGroup(d).gid
      /\ FirstGroup(d).gid[1] = d
      /\ op.size = Cardinality(Touched(FirstGroup(d)))
      /\ op.seq \in (frontier[d][d] - Cardinality(Touched(FirstGroup(d))) + 1)..frontier[d][d]
  BY <1>1, <1>2, SentOp
<1>4. LogRuns' /\ LogGroups' /\ CausalKnown'
  BY <1>1, <1>2, AcceptedLog
<1>5. Accepts(op) /\ log' = LogAfter(op)
  BY <1>1
<1> HIDE DEF op, cur
<1>6. /\ \A c \in 1..Len(log) : log'[c] = log[c]
      /\ log'[cur] = op /\ Len(log) \in Nat /\ Len(log') \in Nat /\ Len(log) <= Len(log')
      /\ \A c \in 1..Len(log') : c \in 1..Len(log) \/ c = cur
  BY <1>3, <1>5, UploadLog DEF cur
<1>7. OutboxFits' /\ SignedRuns' /\ ReceivedBehind'
  <2>1. OutboxFits' /\ ReceivedBehind'
    BY <1>2 DEF OrderInv, OutboxFits, ReceivedBehind
  <2>2. SignedRuns'
    BY <1>2 DEF OrderInv, SignedRuns, SignedRun, FirstGroup
  <2> QED
    BY <2>1, <2>2
<1>8. SignedCausal'
  <2>1. \A k \in 1..Len(log) : k \in 1..Len(log')
    BY <1>6
  <2> QED
    BY <1>2, <1>6, <2>1 DEF OrderInv, SignedCausal, FirstGroup
<1>9. LogOfOutbox'
  <2> SUFFICES ASSUME NEW x \in Devices, NEW i \in 1..Len(outbox[x]),
                      NEW c \in 1..Len(log'), log'[c].gid = outbox[x][i].gid
               PROVE  /\ i = 1 /\ Prepared(outbox[x][i])
                      /\ log'[c].size = Cardinality(Touched(outbox[x][i]))
                      /\ log'[c].seq \in
                            (frontier[x][x] - Cardinality(Touched(outbox[x][i])) + 1)
                                ..frontier[x][x]
    BY <1>2 DEF LogOfOutbox
  <2>1. CASE c \in 1..Len(log)
    BY <1>6, <2>1 DEF OrderInv, LogOfOutbox
  <2>2. CASE c = cur
    <3>1. outbox[x][i].gid = outbox[d][1].gid /\ outbox[x][i].gid[1] = x
      BY <1>3, <1>6, <2>2 DEF OrderInv, OutboxFits
    <3>2. x = d
      BY <1>3, <3>1
    <3>3. i = 1
      BY <1>3, <3>1, <3>2 DEF OrderInv, OutboxFits
    <3> QED
      BY <1>3, <1>6, <2>2, <3>2, <3>3
  <2> QED
    BY <1>6, <2>1, <2>2
<1>10. FrontierMatchesInbox'
  <2>1. \A x, y \in Devices : Newest(x, y)' = Newest(x, y)
    BY <1>2 DEF Newest, SignedOf, FirstGroup
  <2>2. \A x \in Devices : \A c \in processed[x] : log'[c] = log[c]
    BY <1>6 DEF TypeOK
  <2> QED
    BY <1>2, <2>1, <2>2, FrontierIs, NextFrontierIs DEF OrderInv
<1> QED
  BY <1>4, <1>7, <1>8, <1>9, <1>10 DEF OrderInv

\* The parts of OrderInv that speak of the log, the outboxes and the frontier
\* only.
LEMMA OrderUnchanged ==
    ASSUME OrderInv, UNCHANGED <<log, outbox, frontier>>, spent'.groups = spent.groups
    PROVE  /\ OutboxFits' /\ SignedRuns' /\ LogRuns' /\ LogGroups' /\ LogOfOutbox'
           /\ CausalKnown' /\ SignedCausal'
<1>1. OutboxFits'
  BY DEF OrderInv, OutboxFits
<1>2. SignedRuns'
  BY DEF OrderInv, SignedRuns, SignedRun, FirstGroup
<1>3. LogRuns'
  BY DEF OrderInv, LogRuns
<1>4. LogGroups'
  BY DEF OrderInv, LogGroups
<1>5. LogOfOutbox'
  BY DEF OrderInv, LogOfOutbox
<1>6. CausalKnown'
  BY DEF OrderInv, CausalKnown
<1>7. SignedCausal'
  BY DEF OrderInv, SignedCausal, FirstGroup
<1> QED
  BY <1>1, <1>2, <1>3, <1>4, <1>5, <1>6, <1>7

\* Staging a page keeps OrderInv: the cursor moves over what is staged.
LEMMA PullOrder ==
    ASSUME TypeOK, OrderInv, NEW d \in Devices, Pull(d)
    PROVE  OrderInv'
<1>1. /\ received' = [received EXCEPT ![d] = @ \cup (Page(d) \ InInbox(d))]
      /\ lastCursor' = [lastCursor EXCEPT ![d] = PageEnd(d)]
      /\ UNCHANGED <<log, outbox, processed, frontier, spent>>
  BY DEF Pull, serverVars
<1>2. /\ PageEnd(d) \in lastCursor[d]..Len(log) /\ Page(d) = (lastCursor[d] + 1)..PageEnd(d)
      /\ lastCursor[d] \in Nat /\ Len(log) \in Nat
  <2>1. lastCursor[d] \in Nat /\ Len(log) \in Nat
    BY DEF TypeOK
  <2> QED
    BY <2>1, PageInLog DEF Page
<1>3. ReceivedBehind'
  <2> SUFFICES ASSUME NEW x \in Devices, NEW c \in received'[x]
               PROVE  c \in 1..lastCursor'[x]
    BY DEF ReceivedBehind
  <2>1. CASE x # d
    BY <1>1, <2>1 DEF OrderInv, ReceivedBehind, TypeOK
  <2>2. CASE x = d
    <3>1. c \in received[d] \/ c \in Page(d)
      BY <1>1, <2>2 DEF TypeOK
    <3>2. lastCursor'[d] = PageEnd(d)
      BY <1>1 DEF TypeOK
    <3>3. c \in received[d] => c \in 1..lastCursor[d]
      BY DEF OrderInv, ReceivedBehind
    <3> QED
      BY <1>2, <2>2, <3>1, <3>2, <3>3
  <2> QED
    BY <2>1, <2>2
<1>4. FrontierMatchesInbox'
  BY <1>1 DEF OrderInv, FrontierMatchesInbox, FirstGroup
<1> QED
  BY <1>1, <1>3, <1>4, OrderUnchanged DEF OrderInv

\* Ending or abandoning a cycle keeps OrderInv.
LEMMA CycleEndsOrder ==
    ASSUME TypeOK, OrderInv, NEW d \in Devices,
           GroupIncomplete(d) \/ Interrupt(d) \/ Finish(d)
    PROVE  OrderInv'
<1>1. UNCHANGED <<log, outbox, received, processed, lastCursor, frontier>>
  BY DEF GroupIncomplete, Interrupt, Finish, serverVars, deviceVars
<1>2. spent'.groups = spent.groups
  BY DEF GroupIncomplete, Interrupt, Finish, TypeOK
<1>3. ReceivedBehind' /\ FrontierMatchesInbox'
  <2>1. ReceivedBehind'
    BY <1>1 DEF OrderInv, ReceivedBehind
  <2>2. FrontierMatchesInbox'
    BY <1>1 DEF OrderInv, FrontierMatchesInbox, FirstGroup
  <2> QED
    BY <2>1, <2>2
<1> QED
  BY <1>1, <1>2, <1>3, OrderUnchanged DEF OrderInv

\* Where the groups of the outbox are after an upload was answered: the first
\* has one operation less, or is gone and was the only signed one.
LEMMA UploadShape ==
    ASSUME TypeOK, AckInv, OrderInv, NEW d \in Devices, Upload(d), NEW e \in Entities,
           Sends(d, e),
           outbox' = [outbox EXCEPT ![d] =
                        IF Prepared([FirstGroup(d) EXCEPT !.ops[e] = None])
                        THEN [@ EXCEPT ![1] = [FirstGroup(d) EXCEPT !.ops[e] = None]]
                        ELSE Tail(@)]
    PROVE  LET rest == [FirstGroup(d) EXCEPT !.ops[e] = None]
           IN  /\ \A x \in Devices \ {d} : outbox'[x] = outbox[x]
               /\ \/ /\ Prepared(rest) /\ Len(outbox'[d]) = Len(outbox[d])
                     /\ outbox'[d] # <<>> /\ outbox'[d][1] = rest
                     /\ \A i \in 2..Len(outbox[d]) : outbox'[d][i] = outbox[d][i]
                  \/ /\ ~Prepared(rest) /\ Len(outbox'[d]) = Len(outbox[d]) - 1
                     /\ \A i \in 1..(Len(outbox[d]) - 1) : outbox'[d][i] = outbox[d][i + 1]
<1> DEFINE rest == [FirstGroup(d) EXCEPT !.ops[e] = None]
<1>1. outbox[d] \in Seq(Groups) /\ outbox[d] # <<>> /\ Len(outbox[d]) \in Nat
  BY DEF Upload, Uploading, TypeOK
<1>2. outbox' = [outbox EXCEPT ![d] =
                   IF Prepared(rest) THEN [@ EXCEPT ![1] = rest] ELSE Tail(@)]
  OBVIOUS
<1> HIDE DEF rest
<1>3. /\ outbox'[d] = IF Prepared(rest) THEN [outbox[d] EXCEPT ![1] = rest] ELSE Tail(outbox[d])
      /\ \A x \in Devices \ {d} : outbox'[x] = outbox[x]
  BY <1>2 DEF TypeOK
<1>4. CASE Prepared(rest)
  <2>1. outbox'[d] = [outbox[d] EXCEPT ![1] = rest] /\ 1 \in 1..Len(outbox[d])
    BY <1>1, <1>3, <1>4
  <2>2. Len(outbox'[d]) = Len(outbox[d]) /\ outbox'[d][1] = rest /\ outbox'[d] # <<>>
    BY <1>1, <2>1
  <2>3. \A i \in 2..Len(outbox[d]) : outbox'[d][i] = outbox[d][i]
    BY <1>1, <2>1
  <2> QED
    BY <1>3, <1>4, <2>2, <2>3 DEF rest
<1>5. CASE ~Prepared(rest)
  <2>1. outbox'[d] = Tail(outbox[d])
    BY <1>3, <1>5
  <2> DEFINE s == outbox[d]
  <2>2. s \in Seq(Groups) /\ s # <<>> /\ Len(s) \in Nat /\ outbox'[d] = Tail(s)
    BY <1>1, <2>1
  <2> HIDE DEF s
  <2>3. Len(Tail(s)) = Len(s) - 1 /\ \A i \in 1..(Len(s) - 1) : Tail(s)[i] = s[i + 1]
    BY <2>2
  <2>4. Len(outbox'[d]) = Len(s) - 1 /\ \A i \in 1..(Len(s) - 1) : outbox'[d][i] = s[i + 1]
    BY <2>2, <2>3
  <2> QED
    BY <1>3, <1>5, <2>4 DEF rest, s
<1> QED
  BY <1>4, <1>5

\* An answered upload keeps OrderInv.
LEMMA UploadOrder ==
    ASSUME TypeOK, AckInv, OrderInv, NEW d \in Devices, Upload(d)
    PROVE  OrderInv'
<1>1. PICK e \in Entities :
        LET op   == FirstGroup(d).ops[e]
            rest == [FirstGroup(d) EXCEPT !.ops[e] = None]
        IN  /\ Sends(d, e) /\ Accepts(op)
            /\ log' = LogAfter(op)
            /\ processed' = [processed EXCEPT ![d] = @ \cup {CursorOf(op)}]
            /\ outbox' = [outbox EXCEPT ![d] =
                             IF Prepared(rest) THEN [@ EXCEPT ![1] = rest] ELSE Tail(@)]
  BY DEF Upload
<1> DEFINE group == FirstGroup(d)
           op   == group.ops[e]
           rest == [group EXCEPT !.ops[e] = None]
           cur  == CursorOf(op)
           size == Len(outbox[d])
<1>2. /\ outbox[d] # <<>> /\ size \in Nat
      /\ UNCHANGED <<frontier, received, lastCursor, spent>>
  BY DEF Upload, Uploading, TypeOK
<1>3. /\ group = outbox[d][1] /\ 1 \in 1..size /\ Prepared(group)
      /\ op \in Operations /\ op.dev = d /\ op.gid = group.gid /\ group.gid[1] = d
      /\ op.size = Cardinality(Touched(group))
      /\ op.seq \in (frontier[d][d] - Cardinality(Touched(group)) + 1)..frontier[d][d]
  BY <1>1, <1>2, SentOp
<1>4. LogRuns' /\ LogGroups' /\ CausalKnown'
  BY <1>1, <1>2, AcceptedLog
<1>5. Accepts(op) /\ log' = LogAfter(op)
  BY <1>1
<1>6. /\ op.seq = Newest(d, d) + 1 /\ op.seq \in Nat
      /\ op.seq = frontier[d][d] - Cardinality(Signed(group)) + 1
      /\ Signed(rest) = Signed(group) \ {e} /\ rest.gid = group.gid
      /\ rest.edits = group.edits
      /\ Cardinality(Signed(rest)) = Cardinality(Signed(group)) - 1
      /\ \A f \in Signed(rest) : rest.ops[f] = group.ops[f]
      /\ SignedRun(d, rest)
  BY <1>1, <1>2, SendsLowest
<1>7. /\ \A x \in Devices \ {d} : outbox'[x] = outbox[x]
      /\ \/ /\ Prepared(rest) /\ Len(outbox'[d]) = size
            /\ outbox'[d] # <<>> /\ outbox'[d][1] = rest
            /\ \A i \in 2..size : outbox'[d][i] = outbox[d][i]
         \/ /\ ~Prepared(rest) /\ Len(outbox'[d]) = size - 1
            /\ \A i \in 1..(size - 1) : outbox'[d][i] = outbox[d][i + 1]
  BY <1>1, UploadShape
<1>8. processed' = [processed EXCEPT ![d] = @ \cup {cur}]
  BY <1>1
<1> HIDE DEF op, rest, cur, group, size
<1>9. /\ \A c \in 1..Len(log) : log'[c] = log[c]
      /\ log'[cur] = op /\ Len(log) \in Nat /\ Len(log') \in Nat /\ Len(log) <= Len(log')
      /\ \A c \in 1..Len(log') : c \in 1..Len(log) \/ c = cur
  BY <1>3, <1>5, UploadLog DEF cur
<1>10. Touched(rest) = Touched(group)
  BY <1>6 DEF Touched
<1> DEFINE old(i) == IF Prepared(rest) THEN i ELSE i + 1
<1>11. ASSUME NEW i \in 1..Len(outbox'[d])
       PROVE  /\ old(i) \in 1..size /\ outbox'[d][i].gid = outbox[d][old(i)].gid
              /\ old(i) # 1 => outbox'[d][i] = outbox[d][old(i)]
              /\ old(i) = 1 => i = 1 /\ Prepared(rest) /\ outbox'[d][i] = rest
              /\ Prepared(rest) => old(i) = i
  <2>1. CASE Prepared(rest)
    <3>1. CASE i = 1
      BY <1>3, <1>6, <1>7, <2>1, <3>1
    <3>2. CASE i # 1
      <4>1. i \in 2..size
        BY <1>7, <2>1, <3>2
      <4> QED
        BY <1>7, <2>1, <3>2, <4>1
    <3> QED
      BY <3>1, <3>2
  <2>2. CASE ~Prepared(rest)
    <3>1. i \in 1..(size - 1) /\ i + 1 \in 1..size /\ i + 1 # 1
      BY <1>2, <1>7, <2>2
    <3> QED
      BY <1>7, <2>2, <3>1
  <2> QED
    BY <2>1, <2>2
<1>12. \A i, j \in 1..Len(outbox'[d]) : old(i) = old(j) => i = j
  OBVIOUS
<1> HIDE DEF old
<1>13. OutboxFits'
  <2> SUFFICES ASSUME NEW x \in Devices, NEW i \in 1..Len(outbox'[x])
               PROVE  /\ outbox'[x][i].gid[1] = x /\ outbox'[x][i].gid[2] \in 1..spent.groups
                      /\ \A j \in 1..Len(outbox'[x]) :
                            outbox'[x][j].gid = outbox'[x][i].gid => j = i
                      /\ i # 1 => Signed(outbox'[x][i]) = {}
    BY <1>2 DEF OutboxFits
  <2>1. CASE x # d
    <3>1. outbox'[x] = outbox[x]
      BY <1>7, <2>1
    <3> QED
      BY <3>1 DEF OrderInv, OutboxFits
  <2>2. CASE x = d
    <3>1. /\ old(i) \in 1..size /\ outbox'[d][i].gid = outbox[d][old(i)].gid
          /\ old(i) # 1 => outbox'[d][i] = outbox[d][old(i)]
          /\ old(i) = 1 => i = 1
      BY <1>11, <2>2
    <3>2. /\ outbox[d][old(i)].gid[1] = d /\ outbox[d][old(i)].gid[2] \in 1..spent.groups
          /\ \A j \in 1..size : outbox[d][j].gid = outbox[d][old(i)].gid => j = old(i)
          /\ old(i) # 1 => Signed(outbox[d][old(i)]) = {}
      BY <3>1 DEF OrderInv, OutboxFits, size
    <3>3. ASSUME NEW j \in 1..Len(outbox'[d]), outbox'[d][j].gid = outbox'[d][i].gid
          PROVE  j = i
      <4>1. old(j) \in 1..size /\ outbox'[d][j].gid = outbox[d][old(j)].gid
        BY <1>11
      <4>2. old(j) = old(i)
        BY <3>1, <3>2, <3>3, <4>1
      <4> QED
        BY <1>12, <2>2, <4>2
    <3> QED
      BY <2>2, <3>1, <3>2, <3>3
  <2> QED
    BY <2>1, <2>2
<1>14. ASSUME outbox'[d] # <<>>
       PROVE  outbox'[d][1] = rest \/ Signed(outbox'[d][1]) = {}
  <2>1. 1 \in 1..Len(outbox'[d])
    <3>1. TypeOK'
      BY UploadType
    <3>2. outbox'[d] \in Seq(Groups)
      BY <3>1 DEF TypeOK
    <3> QED
      BY <1>14, <3>2
  <2>2. CASE old(1) = 1
    BY <1>11, <2>1, <2>2
  <2>3. CASE old(1) # 1
    <3>1. old(1) \in 1..size /\ outbox'[d][1] = outbox[d][old(1)]
      BY <1>11, <2>1, <2>3
    <3> QED
      BY <2>3, <3>1 DEF OrderInv, OutboxFits, size
  <2> QED
    BY <2>2, <2>3
<1>15. SignedRuns'
  <2> SUFFICES ASSUME NEW x \in Devices, outbox'[x] # <<>>
               PROVE  SignedRun(x, FirstGroup(x))'
    BY DEF SignedRuns
  <2>1. SignedRun(x, outbox'[x][1])
    <3>1. CASE x = d
      BY <1>6, <1>14, <3>1, UnsignedRun
    <3>2. CASE x # d
      BY <1>7, <3>2 DEF OrderInv, SignedRuns, FirstGroup
    <3> QED
      BY <3>1, <3>2
  <2> QED
    BY <1>2, <2>1 DEF SignedRun, FirstGroup
<1>16. SignedCausal'
  <2> SUFFICES ASSUME NEW x \in Devices, outbox'[x] # <<>>,
                      NEW f \in Signed(outbox'[x][1])
               PROVE  LET o == outbox'[x][1].ops[f]
                      IN  /\ o.causal[x] = o.seq - 1
                          /\ \A y \in Devices \ {x} : o.causal[y] > 0 =>
                                \E k \in 1..Len(log') :
                                   log'[k].dev = y /\ log'[k].seq = o.causal[y]
    BY DEF SignedCausal, FirstGroup
  <2>1. outbox[x] # <<>> /\ f \in Signed(FirstGroup(x)) /\ outbox'[x][1].ops[f] = FirstGroup(x).ops[f]
    <3>1. CASE x = d
      BY <1>2, <1>6, <1>14, <3>1 DEF group
    <3>2. CASE x # d
      BY <1>7, <3>2 DEF FirstGroup
    <3> QED
      BY <3>1, <3>2
  <2>2. \A k \in 1..Len(log) : k \in 1..Len(log') /\ log'[k] = log[k]
    BY <1>9
  <2> QED
    BY <2>1, <2>2 DEF OrderInv, SignedCausal
<1>17. ReceivedBehind'
  BY <1>2 DEF OrderInv, ReceivedBehind
<1>18. LogOfOutbox'
  <2> SUFFICES ASSUME NEW x \in Devices, NEW i \in 1..Len(outbox'[x]),
                      NEW c \in 1..Len(log'), log'[c].gid = outbox'[x][i].gid
               PROVE  /\ i = 1 /\ Prepared(outbox'[x][i])
                      /\ log'[c].size = Cardinality(Touched(outbox'[x][i]))
                      /\ log'[c].seq \in
                            (frontier[x][x] - Cardinality(Touched(outbox'[x][i])) + 1)
                                ..frontier[x][x]
    BY <1>2 DEF LogOfOutbox
  <2>1. CASE x # d
    <3>1. outbox'[x] = outbox[x] /\ i \in 1..Len(outbox[x])
      BY <1>7, <2>1
    <3>2. CASE c \in 1..Len(log)
      BY <1>9, <3>1, <3>2 DEF OrderInv, LogOfOutbox
    <3>3. c # cur
      <4>1. outbox[x][i].gid[1] = x
        BY <3>1 DEF OrderInv, OutboxFits
      <4> QED
        BY <1>3, <1>9, <2>1, <3>1, <4>1
    <3> QED
      BY <1>9, <3>2, <3>3
  <2>2. CASE x = d
    <3>1. /\ old(i) \in 1..size /\ log'[c].gid = outbox[d][old(i)].gid
          /\ old(i) = 1 => i = 1 /\ Prepared(rest) /\ outbox'[d][i] = rest
      BY <1>11, <2>2
    <3>2. CASE c \in 1..Len(log)
      <4>1. /\ old(i) = 1 /\ log[c].size = Cardinality(Touched(outbox[d][1]))
            /\ log[c].seq \in (frontier[d][d] - Cardinality(Touched(outbox[d][1])) + 1)
                                  ..frontier[d][d]
        BY <1>9, <3>1, <3>2 DEF OrderInv, LogOfOutbox, size
      <4> QED
        BY <1>3, <1>9, <1>10, <2>2, <3>1, <3>2, <4>1
    <3>3. CASE c = cur
      <4>1. old(i) = 1
        BY <1>3, <1>9, <3>1, <3>3 DEF OrderInv, OutboxFits, size
      <4> QED
        BY <1>3, <1>9, <1>10, <2>2, <3>1, <3>3, <4>1
    <3> QED
      BY <1>9, <3>2, <3>3
  <2> QED
    BY <2>1, <2>2
<1>19. FrontierMatchesInbox'
  <2>1. Cardinality(SignedOf(d)') = Cardinality(Signed(rest))
    <3>1. CASE Prepared(rest)
      BY <1>7, <3>1 DEF SignedOf, FirstGroup
    <3>2. CASE ~Prepared(rest)
      <4>1. Signed(rest) = {}
        BY <3>2 DEF Prepared
      <4>2. SignedOf(d)' = {}
        <5>1. outbox'[d] # <<>> => Signed(outbox'[d][1]) = {}
          BY <1>14, <4>1
        <5> QED
          BY <5>1 DEF SignedOf, FirstGroup
      <4> QED
        BY <4>1, <4>2
    <3> QED
      BY <3>1, <3>2
  <2>2. Newest(d, d)' = op.seq
    <3>1. Newest(d, d)' = frontier'[d][d] - Cardinality(SignedOf(d)')
      BY DEF Newest
    <3>2. frontier[d][d] \in Nat /\ Cardinality(Signed(group)) \in Nat
      BY SignedFinite DEF TypeOK
    <3> QED
      BY <1>2, <1>6, <2>1, <3>1, <3>2
  <2>3. ASSUME NEW x \in Devices, NEW y \in Devices, x # d \/ y # d
        PROVE  Newest(x, y)' = Newest(x, y)
    <3>1. x # d => SignedOf(x)' = SignedOf(x)
      BY <1>7 DEF SignedOf, FirstGroup
    <3> QED
      BY <1>2, <2>3, <3>1 DEF Newest
  <2>4. \A x, y \in Devices : \A n :
           (\E c \in processed[x] : log[c].dev = y /\ log[c].seq = n) <=> n \in 1..Newest(x, y)
    BY FrontierIs DEF OrderInv
  <2>5. \A x \in Devices : \A c \in processed[x] : log'[c] = log[c]
    BY <1>9 DEF TypeOK
  <2>6. ASSUME NEW x \in Devices, NEW y \in Devices, NEW n
        PROVE  (\E c \in processed'[x] : log'[c].dev = y /\ log'[c].seq = n)
                  <=> n \in 1..(Newest(x, y)')
    <3>1. CASE x # d
      <4>1. processed'[x] = processed[x]
        BY <1>8, <3>1 DEF TypeOK
      <4> QED
        BY <2>3, <2>4, <2>5, <3>1, <4>1
    <3>2. CASE x = d /\ y # d
      <4>1. processed'[d] = processed[d] \cup {cur}
        BY <1>8 DEF TypeOK
      <4> QED
        BY <1>3, <1>9, <2>3, <2>4, <2>5, <3>2, <4>1
    <3>3. CASE x = d /\ y = d
      <4>1. processed'[d] = processed[d] \cup {cur}
        BY <1>8 DEF TypeOK
      <4>2. (\E c \in processed'[d] : log'[c].dev = d /\ log'[c].seq = n)
              <=> n \in 1..Newest(d, d) \/ n = op.seq
        BY <1>3, <1>9, <2>4, <2>5, <4>1
      <4>3. Newest(d, d) \in Int /\ op.seq >= 1
        <5>1. frontier[d][d] \in Nat /\ Cardinality(SignedOf(d)) \in Nat
          <6>1. SignedOf(d) = Signed(group)
            BY <1>2 DEF SignedOf, group
          <6>2. frontier[d][d] \in Nat
            BY DEF TypeOK
          <6> QED
            BY <6>1, <6>2, SignedFinite
        <5>2. Newest(d, d) = frontier[d][d] - Cardinality(SignedOf(d))
          BY DEF Newest
        <5>3. SignedRun(d, group)
          BY <1>2 DEF OrderInv, SignedRuns, group
        <5>4. e \in Signed(group) /\ op = group.ops[e]
          BY <1>1 DEF Sends, group, op
        <5> QED
          BY <5>1, <5>2, <5>3, <5>4 DEF SignedRun
      <4>4. n \in 1..Newest(d, d) \/ n = op.seq <=> n \in 1..op.seq
        BY <1>6, <4>3
      <4> QED
        BY <2>2, <3>3, <4>2, <4>4
    <3> QED
      BY <3>1, <3>2, <3>3
  <2> QED
    BY <2>6, NextFrontierIs
<1> QED
  BY <1>4, <1>13, <1>15, <1>16, <1>17, <1>18, <1>19 DEF OrderInv

\* The oldest received group, when nothing received is incomplete, holds the
\* sequences of its device that follow what the inbox has processed of it.
LEMMA GroupFollows ==
    ASSUME TypeOK, AckInv, OrderInv, NEW d \in Devices, AllComplete(d),
           NEW first \in received[d], \A c \in received[d] : first <= c
    PROVE  LET group == Members(d, log[first].gid)
               s     == log[first].dev
               known == frontier[d][s]
           IN  /\ s \in Devices \ {d} /\ first \in group
               /\ group \subseteq received[d] /\ IsFiniteSet(group) /\ group \subseteq Nat
               /\ \A c \in group : log[c].dev = s
               /\ \A c, k \in group : c < k => log[c].seq < log[k].seq
               /\ \A c \in group : log[c].seq \in (known + 1)..(known + Cardinality(group))
               /\ \A t \in (known + 1)..(known + Cardinality(group)) :
                     \E c \in group : log[c].seq = t
<1> DEFINE group == Members(d, log[first].gid)
           s     == log[first].dev
           known == frontier[d][s]
           p     == log[first].seq
           n     == Cardinality(group)
<1>1. /\ log \in Seq(Operations) /\ Len(log) \in Nat /\ received[d] \subseteq 1..Len(log)
      /\ \A c \in 1..Len(log) : log[c] \in Operations
  <2>1. log \in Seq(Operations) /\ received[d] \subseteq 1..Len(log)
    BY DEF TypeOK
  <2> QED
    BY <2>1
<1>2. group \subseteq received[d] /\ first \in group /\ \A c \in group : log[c].gid = log[first].gid
  BY DEF Members
<1>3. group \subseteq 1..Len(log) /\ group \subseteq Nat
  BY <1>1, <1>2
<1>4. IsFiniteSet(group) /\ n \in Nat /\ n = log[first].size
  <2>1. IsFiniteSet(1..Len(log))
    BY <1>1, FS_Interval
  <2>2. IsFiniteSet(group) /\ n \in Nat
    BY <1>3, <2>1, FS_Subset, FS_CardinalityType
  <2>3. n = log[first].size
    BY DEF AllComplete
  <2> QED
    BY <2>2, <2>3
<1>5. s \in Devices \ {d} /\ p \in Nat /\ known \in Nat
  <2>1. log[first] \in Operations /\ s # d
    BY <1>1 DEF AckInv, OwnNeverReceived
  <2>2. s \in Devices /\ p \in Nat
    BY <2>1 DEF Operations
  <2>3. known \in Nat
    BY <2>2 DEF TypeOK
  <2> QED
    BY <2>1, <2>2, <2>3
<1>6. \A c \in group : log[c].dev = s /\ log[c].seq \in Nat
  <2> TAKE c \in group
  <2>1. c \in 1..Len(log) /\ first \in 1..Len(log) /\ log[c].gid = log[first].gid
    BY <1>1, <1>2, <1>3
  <2>2. log[c].gid[1] = log[c].dev /\ log[first].gid[1] = s
    BY <2>1 DEF OrderInv, LogGroups
  <2>3. log[c].seq \in Nat
    BY <1>1, <2>1 DEF Operations
  <2> QED
    BY <2>1, <2>2, <2>3
<1>7. ASSUME NEW c \in 1..Len(log), NEW k \in 1..Len(log), c < k, log[c].dev = log[k].dev
      PROVE  log[c].seq < log[k].seq
  <2>1. c \in 1..(k - 1)
    BY <1>7
  <2> QED
    BY <1>7, <2>1 DEF OrderInv, LogRuns
<1>8. \A c, k \in group : c < k => log[c].seq < log[k].seq
  BY <1>3, <1>6, <1>7
<1> HIDE DEF group, s, known, p, n
<1>9. ASSUME NEW c \in group
      PROVE  log[c].seq \in p..(p + n - 1)
  <2>1. /\ c \in 1..Len(log) /\ first \in 1..Len(log) /\ log[c].gid = log[first].gid
        /\ first <= c
    BY <1>1, <1>2, <1>3
  <2>2. log[c].size = log[first].size /\ log[c].seq - log[first].seq < log[c].size
    BY <2>1 DEF OrderInv, LogGroups
  <2>3. first < c \/ first = c
    BY <2>1
  <2>4. p <= log[c].seq
    BY <1>2, <1>5, <1>6, <1>8, <2>3 DEF p
  <2> QED
    BY <1>4, <1>5, <1>6, <2>2, <2>4 DEF p
<1>10. \A t \in p..(p + n - 1) : \E c \in group : log[c].seq = t
  <2> DEFINE f == [c \in group |-> log[c].seq]
             I == p..(p + n - 1)
  <2>1. f \in [group -> I]
    BY <1>9
  <2>2. \A x, y \in group : f[x] = f[y] => x = y
    <3> SUFFICES ASSUME NEW x \in group, NEW y \in group, log[x].seq = log[y].seq
                 PROVE  x = y
      OBVIOUS
    <3>1. x \in Nat /\ y \in Nat /\ log[x].seq \in Nat /\ log[y].seq \in Nat
      BY <1>3, <1>6
    <3>2. ~(x < y) /\ ~(y < x)
      BY <1>8, <3>1
    <3> QED
      BY <3>1, <3>2
  <2>3. IsFiniteSet(I) /\ Cardinality(I) = n
    <3>1. p \in Int /\ p + n - 1 \in Int /\ p <= (p + n - 1) + 1 /\ (p + n - 1) - p + 1 = n
      BY <1>4, <1>5
    <3> QED
      BY <3>1, IntervalSize
  <2>4. n = Cardinality(group)
    BY DEF n
  <2> HIDE DEF f, I
  <2>5. f \in Injection(group, I)
    BY <2>1, <2>2, Fun_IsInj
  <2>6. f \in Surjection(group, I)
    BY <1>4, <2>3, <2>4, <2>5, FS_Injection
  <2>7. \A t \in I : \E c \in group : f[c] = t
    BY <2>6, Fun_SurjectionProperties
  <2> QED
    BY <2>7 DEF f, I
<1>11. Newest(d, s) = known
  BY <1>5 DEF Newest, known
<1>12. \A m : (\E c \in processed[d] : log[c].dev = s /\ log[c].seq = m) <=> m \in 1..known
  BY <1>5, <1>11, FrontierIs DEF OrderInv
<1>13. first \in 1..Len(log) /\ p >= 1
  <2>1. first \in 1..Len(log)
    BY <1>1
  <2> QED
    BY <2>1 DEF OrderInv, LogRuns, p
<1>14. p - 1 <= known
  <2>1. CASE p = 1
    BY <1>5, <2>1
  <2>2. CASE p # 1
    <3>1. p - 1 \in 1..(p - 1)
      BY <1>5, <1>13, <2>2
    <3>2. PICK k \in 1..(first - 1) : log[k].dev = s /\ log[k].seq = p - 1
      BY <1>13, <3>1 DEF OrderInv, LogRuns, p, s
    <3>3. first \in 1..lastCursor[d] /\ lastCursor[d] \in Nat
      BY DEF OrderInv, ReceivedBehind, TypeOK
    <3>4. k \in 1..lastCursor[d]
      BY <3>3
    <3>5. k \in received[d] \cup processed[d]
      BY <3>4 DEF AckInv, InboxCovers, InInbox
    <3>6. k \notin received[d]
      BY <1>13
    <3>7. p - 1 \in 1..known
      BY <1>12, <3>2, <3>5, <3>6
    <3> QED
      BY <1>5, <3>7
  <2> QED
    BY <2>1, <2>2
<1>15. known < p
  <2> SUFFICES ASSUME p \in 1..known
               PROVE  FALSE
    BY <1>5, <1>13
  <2>1. PICK k \in processed[d] : log[k].dev = s /\ log[k].seq = p
    BY <1>12
  <2>2. k \in 1..Len(log)
    BY DEF TypeOK
  <2>3. ~(k < first) /\ ~(first < k)
    BY <1>5, <1>7, <1>13, <2>1, <2>2 DEF p, s
  <2>4. k = first
    BY <1>13, <2>2, <2>3
  <2> QED
    BY <2>1, <2>4 DEF AckInv, InboxOnce
<1>16. p = known + 1
  BY <1>5, <1>14, <1>15
<1>17. p + n - 1 = known + n
  BY <1>4, <1>5, <1>16
<1>18. /\ \A c \in group : log[c].seq \in (known + 1)..(known + n)
       /\ \A t \in (known + 1)..(known + n) : \E c \in group : log[c].seq = t
  BY <1>9, <1>10, <1>16, <1>17
<1> QED
  BY <1>2, <1>3, <1>4, <1>5, <1>6, <1>8, <1>18 DEF group, s, known, n

\* Applying or recording a whole group keeps OrderInv: the frontier row of its
\* device ends at the newest sequence of the group.
LEMMA ApplyGroupOrder ==
    ASSUME TypeOK, AckInv, OrderInv, NEW d \in Devices, ApplyGroup(d)
    PROVE  OrderInv'
<1>1. PICK first \in received[d], newest \in received[d] :
        LET group == Members(d, log[first].gid)
        IN  /\ \A c \in received[d] : first <= c
            /\ newest \in group /\ \A c \in group : c <= newest
            /\ received' = [received EXCEPT ![d] = @ \ group]
            /\ processed' = [processed EXCEPT ![d] = @ \cup group]
            /\ frontier' = [frontier EXCEPT ![d] = FrontierAfter(d, newest)]
  BY DEF ApplyGroup
<1> DEFINE group == Members(d, log[first].gid)
           s     == log[first].dev
           known == frontier[d][s]
           n     == Cardinality(group)
<1>2. AllComplete(d) /\ UNCHANGED <<log, outbox, lastCursor, spent>>
  BY DEF ApplyGroup, serverVars
<1>3. /\ s \in Devices \ {d} /\ first \in group
      /\ group \subseteq received[d] /\ IsFiniteSet(group) /\ group \subseteq Nat
      /\ \A c \in group : log[c].dev = s
      /\ \A c, k \in group : c < k => log[c].seq < log[k].seq
      /\ \A c \in group : log[c].seq \in (known + 1)..(known + n)
      /\ \A t \in (known + 1)..(known + n) : \E c \in group : log[c].seq = t
  BY <1>1, <1>2, GroupFollows
<1>4. /\ newest \in group /\ \A c \in group : c <= newest
      /\ received'[d] = received[d] \ group /\ processed'[d] = processed[d] \cup group
      /\ \A x \in Devices \ {d} : /\ received'[x] = received[x]
                                  /\ processed'[x] = processed[x]
                                  /\ frontier'[x] = frontier[x]
      /\ frontier'[d] = FrontierAfter(d, newest)
  BY <1>1 DEF TypeOK
<1>5. known \in Nat /\ n \in Nat /\ n # 0
  <2>1. known \in Nat
    BY <1>3 DEF TypeOK
  <2>2. n \in Nat /\ n # 0
    BY <1>3, FS_CardinalityType, FS_EmptySet
  <2> QED
    BY <2>1, <2>2
<1> HIDE DEF group, s, known, n
<1>6. log[newest].dev = s /\ log[newest].seq = known + n
  <2>1. known + n \in (known + 1)..(known + n)
    BY <1>5
  <2>2. PICK c \in group : log[c].seq = known + n
    BY <1>3, <2>1
  <2>3. c <= newest /\ c \in Nat /\ newest \in Nat
    BY <1>3, <1>4
  <2>4. log[newest].seq \in (known + 1)..(known + n)
    BY <1>3, <1>4
  <2>5. c < newest => log[c].seq < log[newest].seq
    BY <1>3, <1>4
  <2>6. c = newest
    BY <1>5, <2>2, <2>3, <2>4, <2>5
  <2> QED
    BY <1>3, <1>4, <2>2, <2>6
<1>7. /\ frontier'[d][s] = known + n
      /\ \A x \in Devices \ {s} : frontier'[d][x] = frontier[d][x]
  BY <1>3, <1>4, <1>6 DEF FrontierAfter, TypeOK
<1>8. \A x \in Devices : frontier'[x][x] = frontier[x][x]
  BY <1>3, <1>4, <1>7
<1>9. OutboxFits' /\ LogRuns' /\ LogGroups' /\ CausalKnown'
  <2>1. OutboxFits'
    BY <1>2 DEF OrderInv, OutboxFits
  <2>2. LogRuns'
    BY <1>2 DEF OrderInv, LogRuns
  <2>3. LogGroups'
    BY <1>2 DEF OrderInv, LogGroups
  <2>4. CausalKnown'
    BY <1>2 DEF OrderInv, CausalKnown
  <2> QED
    BY <2>1, <2>2, <2>3, <2>4
<1>10. SignedRuns' /\ LogOfOutbox' /\ SignedCausal'
  <2>1. SignedRuns'
    BY <1>2, <1>8 DEF OrderInv, SignedRuns, SignedRun, FirstGroup
  <2>2. LogOfOutbox'
    BY <1>2, <1>8 DEF OrderInv, LogOfOutbox
  <2>3. SignedCausal'
    BY <1>2 DEF OrderInv, SignedCausal, FirstGroup
  <2> QED
    BY <2>1, <2>2, <2>3
<1>11. ReceivedBehind'
  <2> SUFFICES ASSUME NEW x \in Devices
               PROVE  received'[x] \subseteq received[x]
    BY <1>2 DEF OrderInv, ReceivedBehind
  <2> QED
    BY <1>4
<1>12. FrontierMatchesInbox'
  <2>1. \A x, y \in Devices : \A m :
           (\E c \in processed[x] : log[c].dev = y /\ log[c].seq = m) <=> m \in 1..Newest(x, y)
    BY FrontierIs DEF OrderInv
  <2>2. \A x \in Devices : SignedOf(x)' = SignedOf(x)
    BY <1>2 DEF SignedOf, FirstGroup
  <2>3. ASSUME NEW x \in Devices, NEW y \in Devices, NEW m
        PROVE  (\E c \in processed'[x] : log'[c].dev = y /\ log'[c].seq = m)
                  <=> m \in 1..(Newest(x, y)')
    <3>1. CASE x # d
      <4>1. processed'[x] = processed[x] /\ Newest(x, y)' = Newest(x, y)
        BY <1>4, <2>2, <3>1 DEF Newest
      <4> QED
        BY <1>2, <2>1, <4>1
    <3>2. CASE x = d /\ y # s
      <4>1. Newest(d, y)' = Newest(d, y)
        BY <1>7, <2>2, <3>2 DEF Newest
      <4>2. \A c \in group : log[c].dev # y
        BY <1>3, <3>2
      <4> QED
        BY <1>2, <1>4, <2>1, <3>2, <4>1, <4>2
    <3>3. CASE x = d /\ y = s
      <4>1. Newest(d, y) = known /\ Newest(d, y)' = known + n
        BY <1>3, <1>5, <1>7, <3>3 DEF Newest, known
      <4>2. (\E c \in processed'[d] : log'[c].dev = s /\ log'[c].seq = m)
              <=> m \in 1..known \/ m \in (known + 1)..(known + n)
        <5>1. (\E c \in processed[d] : log[c].dev = s /\ log[c].seq = m) <=> m \in 1..known
          BY <2>1, <3>3, <4>1
        <5>2. (\E c \in group : log[c].dev = s /\ log[c].seq = m)
                <=> m \in (known + 1)..(known + n)
          BY <1>3
        <5> QED
          BY <1>2, <1>4, <5>1, <5>2
      <4>3. m \in 1..known \/ m \in (known + 1)..(known + n) <=> m \in 1..(known + n)
        BY <1>5
      <4> QED
        BY <3>3, <4>1, <4>2, <4>3
    <3> QED
      BY <3>1, <3>2, <3>3
  <2> QED
    BY <2>3, NextFrontierIs
<1> QED
  BY <1>9, <1>10, <1>11, <1>12 DEF OrderInv

\* The order of operations holds in every reachable state.
THEOREM OrderInvariant == Spec => []OrderInv
<1>1. Init => OrderInv
  BY InitOrder
<1>2. TypeOK /\ AckInv /\ OrderInv /\ [Next]_vars => OrderInv'
  <2> SUFFICES ASSUME TypeOK, AckInv, OrderInv, [Next]_vars
               PROVE  OrderInv'
    OBVIOUS
  <2>1. CASE Next
    <3>1. PICK d \in Devices : SyncStep(d) \/ UserStep(d) \/ Fault(d)
      BY <2>1 DEF Next
    <3>2. CASE SyncStep(d)
      BY <3>2, PrepareOrder, UploadOrder, PullOrder, ApplyGroupOrder, CycleEndsOrder
         DEF SyncStep
    <3>3. CASE UserStep(d)
      BY <3>3, UserOrder
    <3>4. CASE Fault(d)
      BY <3>4, UploadUnansweredOrder, CycleEndsOrder DEF Fault
    <3> QED
      BY <3>1, <3>2, <3>3, <3>4
  <2>2. CASE UNCHANGED vars
    <3>1. /\ UNCHANGED <<log, outbox, frontier, received, processed, lastCursor>>
          /\ spent'.groups = spent.groups
      BY <2>2 DEF vars, serverVars, deviceVars
    <3>2. ReceivedBehind' /\ FrontierMatchesInbox'
      BY <3>1 DEF OrderInv, ReceivedBehind, FrontierMatchesInbox, FirstGroup
    <3> QED
      BY <3>1, <3>2, OrderUnchanged DEF OrderInv
  <2> QED
    BY <2>1, <2>2
<1> QED
  BY <1>1, <1>2, TypeCorrect, AckInvariant, PTL DEF Spec

\* What a device knows of another is exactly what its inbox processed of it,
\* without a gap, and what it knows of itself is what it uploaded and what it
\* has signed: loadCausalFrontier and the rows recordAcceptedLocal leaves agree.
THEOREM FrontierIsExact == Spec => []FrontierMatchesInbox
<1>1. OrderInv => FrontierMatchesInbox
  BY DEF OrderInv
<1> QED
  BY <1>1, OrderInvariant, PTL

-----------------------------------------------------------------------------
(* What the order is for: nothing the service sends is refused.            *)

\* What precedes an operation of the page in the log is in the inbox or in the
\* page, so the inbox proves its number.
LEMMA EarlierIsProven ==
    ASSUME TypeOK, AckInv, NEW d \in Devices, NEW c \in Page(d), NEW x \in Devices,
           NEW k \in 1..(c - 1), log[k].dev = x
    PROVE  Proves(d, x, log[k].seq, c)
<1>1. lastCursor[d] \in Nat /\ Len(log) \in Nat
  BY DEF TypeOK
<1>2. PageEnd(d) \in lastCursor[d]..Len(log)
  BY <1>1, PageInLog
<1>3. k \in Nat /\ c \in Nat /\ k >= 1 /\ k < c /\ c <= PageEnd(d) /\ PageEnd(d) \in Nat
  BY <1>1, <1>2 DEF Page
<1>4. k \in InInbox(d) \cup Page(d)
  <2>1. CASE k <= lastCursor[d]
    BY <1>1, <1>3, <2>1 DEF AckInv, InboxCovers
  <2>2. CASE k > lastCursor[d]
    BY <1>1, <1>3, <2>2 DEF Page
  <2> QED
    BY <1>1, <1>3, <2>1, <2>2
<1> QED
  BY <1>3, <1>4 DEF Proves

\* The hash chain and the causal frontier of every staged operation are proven
\* locally: stageRemoteOperations accepts whatever page handleGetChanges sends.
LEMMA PageIsStageable ==
    ASSUME TypeOK, AckInv, OrderInv, NEW d \in Devices, NEW c \in Page(d)
    PROVE  Stageable(d, c)
<1>1. c \in 1..Len(log) /\ log[c] \in Operations
  <2>1. c \in 1..Len(log) /\ log \in Seq(Operations)
    BY PageInLog DEF TypeOK
  <2> QED
    BY <2>1
<1>2. log[c].seq \in Nat /\ log[c].dev \in Devices /\ log[c].causal \in [Devices -> Nat]
  BY <1>1 DEF Operations
<1>3. ASSUME log[c].seq > 1
      PROVE  Proves(d, log[c].dev, log[c].seq - 1, c)
  <2>1. log[c].seq - 1 \in 1..(log[c].seq - 1)
    BY <1>2, <1>3
  <2>2. PICK k \in 1..(c - 1) : log[k].dev = log[c].dev /\ log[k].seq = log[c].seq - 1
    BY <1>1, <2>1 DEF OrderInv, LogRuns
  <2>3. Proves(d, log[c].dev, log[k].seq, c)
    BY <1>2, <2>2, EarlierIsProven
  <2> QED
    BY <2>2, <2>3
<1>4. ASSUME NEW x \in Devices, log[c].causal[x] > 0
      PROVE  Proves(d, x, log[c].causal[x], c)
  <2>1. PICK k \in 1..(c - 1) : log[k].dev = x /\ log[k].seq = log[c].causal[x]
    BY <1>1, <1>4 DEF OrderInv, CausalKnown
  <2>2. Proves(d, x, log[k].seq, c)
    BY <2>1, EarlierIsProven
  <2> QED
    BY <2>1, <2>2
<1> QED
  BY <1>3, <1>4 DEF Stageable

\* A complete group continues its device's frontier row one by one.
LEMMA GroupInSequence ==
    ASSUME TypeOK, AckInv, OrderInv, NEW d \in Devices, AllComplete(d),
           NEW first \in received[d], \A c \in received[d] : first <= c
    PROVE  InSequence(d, Members(d, log[first].gid))
<1> DEFINE group == Members(d, log[first].gid)
           s     == log[first].dev
           a     == frontier[d][s] + 1
           b     == frontier[d][s] + Cardinality(group)
           f     == [c \in group |-> log[c].seq]
<1>1. /\ s \in Devices \ {d} /\ IsFiniteSet(group) /\ group \subseteq Nat
      /\ \A c \in group : log[c].dev = s
      /\ \A c, k \in group : c < k => log[c].seq < log[k].seq
      /\ \A c \in group : log[c].seq \in a..b
      /\ \A t \in a..b : \E c \in group : log[c].seq = t
  BY GroupFollows
<1>2. frontier[d][s] \in Nat /\ a \in Int /\ b \in Int
  <2>1. frontier[d][s] \in Nat
    BY <1>1 DEF TypeOK
  <2>2. Cardinality(group) \in Nat
    BY <1>1, FS_CardinalityType
  <2> QED
    BY <2>1, <2>2
<1> HIDE DEF group, a, b
<1>3. /\ f \in [group -> a..b] /\ \A t \in a..b : \E c \in group : f[c] = t
      /\ \A x, y \in group : x < y => f[x] < f[y]
      /\ \A c \in group : f[c] = log[c].seq
  <2>1. \A c \in group : f[c] = log[c].seq /\ f[c] \in a..b
    BY <1>1
  <2>2. f \in [group -> a..b]
    BY <1>1
  <2>3. \A t \in a..b : \E c \in group : f[c] = t
    BY <1>1
  <2>4. \A x, y \in group : x < y => f[x] < f[y]
    BY <1>1, <2>1
  <2> QED
    BY <2>1, <2>2, <2>3, <2>4
<1>4. ASSUME NEW c \in group
      PROVE  log[c].seq = frontier[d][s] + Cardinality({k \in group : k <= c})
  <2>1. f[c] = log[c].seq /\ f[c] \in a..b
    BY <1>3
  <2>2. Index(group, c) = f[c] - a + 1
    <3> HIDE DEF f
    <3> SUFFICES ASSUME NEW G, NEW A \in Int, NEW B \in Int, NEW g \in [G -> A..B],
                        NEW x \in G, G = group, A = a, B = b, g = f, x = c
                 PROVE  Index(G, x) = g[x] - A + 1
      BY <1>2, <1>3
    <3>1. IsFiniteSet(G) /\ G \subseteq Nat
      BY <1>1
    <3>2. \A y, z \in G : y < z => g[y] < g[z]
      BY <1>3
    <3>3. \A t \in A..B : \E y \in G : g[y] = t
      BY <1>3
    <3> QED
      BY ONLY <3>1, <3>2, <3>3, RankIsValue
  <2> HIDE DEF f
  <2>3. log[c].seq = frontier[d][s] + Index(group, c)
    BY <1>2, <2>1, <2>2 DEF a
  <2> QED
    BY <2>3 DEF Index
<1>5. ASSUME NEW c \in group
      PROVE  LET known == frontier[d][log[c].dev]
             IN  known # 0 => log[c].seq = known + Cardinality({k \in group : k <= c})
  <2>1. log[c].dev = s
    BY <1>1
  <2> QED
    BY <1>4, <2>1
<1> QED
  BY <1>5 DEF InSequence, group

\* stageRemoteOperations never refuses a page of the service with
\* OperationChainGapError or an unprovable frontier, and applyRemoteGroup never
\* refuses a complete group as one that would skip a sequence, whatever was
\* lost, retried or interrupted on the way.
THEOREM PagesAreNeverRefused == Spec => []StagingNeverRefuses
<1>1. TypeOK /\ AckInv /\ OrderInv => StagingNeverRefuses
  <2> SUFFICES ASSUME TypeOK, AckInv, OrderInv, NEW d \in Devices
               PROVE  /\ Pulling(d) => \A c \in Page(d) \ InInbox(d) : Stageable(d, c)
                      /\ phase[d] = "apply" /\ AllComplete(d) =>
                            \A first \in received[d] :
                               (\A c \in received[d] : first <= c) =>
                                  InSequence(d, Members(d, log[first].gid))
    BY DEF StagingNeverRefuses
  <2>1. \A c \in Page(d) \ InInbox(d) : Stageable(d, c)
    BY PageIsStageable
  <2>2. ASSUME AllComplete(d), NEW first \in received[d], \A c \in received[d] : first <= c
        PROVE  InSequence(d, Members(d, log[first].gid))
    BY <2>2, GroupInSequence
  <2> QED
    BY <2>1, <2>2
<1> QED
  BY <1>1, TypeCorrect, AckInvariant, OrderInvariant, PTL

-----------------------------------------------------------------------------
(* What a user was asked stays asked until it is answered.                 *)

\* A record of a conflict is still there, or was pending and is closed.
Kept(d, k) == \/ k \in conflicts'[d]
              \/ k.pending /\ [k EXCEPT !.pending = FALSE] \in conflicts'[d]

\* Closing pending records of one device drops and reopens none.
LEMMA ClosingKeeps ==
    ASSUME TypeOK, NEW d \in Devices, NEW decided, \A k \in decided : k.pending,
           conflicts' = [conflicts EXCEPT ![d] =
              (@ \ decided) \cup {[k EXCEPT !.pending = FALSE] : k \in decided}],
           NEW x \in Devices, NEW k \in conflicts[x]
    PROVE  Kept(x, k)
<1>1. CASE x # d
  <2>1. conflicts'[x] = conflicts[x]
    BY <1>1 DEF TypeOK
  <2> QED
    BY <2>1 DEF Kept
<1>2. CASE x = d
  <2>1. conflicts'[d] = (conflicts[d] \ decided)
                           \cup {[j EXCEPT !.pending = FALSE] : j \in decided}
    BY DEF TypeOK
  <2>2. CASE k \in decided
    <3>1. k.pending /\ [k EXCEPT !.pending = FALSE] \in conflicts'[d]
      BY <2>1, <2>2
    <3> QED
      BY <1>2, <3>1 DEF Kept
  <2>3. CASE k \notin decided
    <3>1. k \in conflicts'[d]
      BY <1>2, <2>1, <2>3
    <3> QED
      BY <1>2, <3>1 DEF Kept
  <2> QED
    BY <2>2, <2>3
<1> QED
  BY <1>1, <1>2

\* A user's decision closes records that were pending.
LEMMA ResolveKeeps ==
    ASSUME TypeOK, NEW d \in Devices, NEW gid, NEW keepLocal, Resolve(d, gid, keepLocal),
           NEW x \in Devices, NEW k \in conflicts[x]
    PROVE  Kept(x, k)
<1> DEFINE group == ConflictsOf(d, gid)
<1>1. conflicts' = [conflicts EXCEPT ![d] =
                      (@ \ group) \cup {[c EXCEPT !.pending = FALSE] : c \in group}]
  BY DEF Resolve
<1>2. \A c \in group : c.pending
  BY DEF Resolve, Resolvable
<1> HIDE DEF group
<1> QED
  BY <1>1, <1>2, ClosingKeeps

\* A remote group closes what it decides, or adds records.
LEMMA ApplyKeeps ==
    ASSUME TypeOK, NEW d \in Devices, ApplyGroup(d),
           NEW x \in Devices, NEW k \in conflicts[x]
    PROVE  Kept(x, k)
<1>1. PICK group : AcceptGroup(d, group) \/ RecordConflict(d, group)
  BY DEF ApplyGroup
<1>2. CASE AcceptGroup(d, group)
  <2> DEFINE decided == UNION {Resolved(d, log[c]) : c \in group}
  <2>1. conflicts' = [conflicts EXCEPT ![d] =
                        (@ \ decided) \cup {[c EXCEPT !.pending = FALSE] : c \in decided}]
    BY <1>2 DEF AcceptGroup
  <2>2. \A c \in decided : c.pending
    BY DEF Resolved
  <2> HIDE DEF decided
  <2> QED
    BY <2>1, <2>2, ClosingKeeps
<1>3. CASE RecordConflict(d, group)
  <2>1. conflicts[x] \subseteq conflicts'[x]
    BY <1>3 DEF RecordConflict, TypeOK
  <2> QED
    BY <2>1 DEF Kept
<1> QED
  BY <1>1, <1>2, <1>3

\* Every other step leaves the records alone.
LEMMA OthersKeep ==
    ASSUME UNCHANGED conflicts, NEW x, NEW k \in conflicts[x]
    PROVE  Kept(x, k)
BY DEF Kept

\* No step of a device, a user or the service drops a conflict record, reopens
\* a decided one or rewrites the proposal its user is looking at.
THEOREM ConflictsStay == Spec => ConflictsAreDecidedOnce
<1>1. TypeOK /\ [Next]_vars =>
         [\A d \in Devices : \A k \in conflicts[d] :
             \/ k \in conflicts'[d]
             \/ k.pending /\ [k EXCEPT !.pending = FALSE] \in conflicts'[d]]_vars
  <2> SUFFICES ASSUME TypeOK, Next, NEW x \in Devices, NEW k \in conflicts[x]
               PROVE  Kept(x, k)
    BY DEF Kept
  <2>1. PICK d \in Devices : SyncStep(d) \/ UserStep(d) \/ Fault(d)
    BY DEF Next
  <2>2. CASE SyncStep(d)
    <3>1. CASE ApplyGroup(d)
      BY <3>1, ApplyKeeps
    <3>2. CASE ~ApplyGroup(d)
      <4>1. UNCHANGED conflicts
        BY <2>2, <3>2 DEF SyncStep, Prepare, Upload, Pull, GroupIncomplete, Finish, deviceVars
      <4> QED
        BY <4>1, OthersKeep
    <3> QED
      BY <3>1, <3>2
  <2>3. CASE UserStep(d)
    <3>1. CASE LocalEdit(d)
      BY <3>1, OthersKeep DEF LocalEdit
    <3>2. CASE ~LocalEdit(d)
      BY <2>3, <3>2, ResolveKeeps DEF UserStep
    <3> QED
      BY <3>1, <3>2
  <2>4. CASE Fault(d)
    BY <2>4, OthersKeep DEF Fault, UploadUnanswered, Interrupt, deviceVars
  <2> QED
    BY <2>1, <2>2, <2>3, <2>4
<1> QED
  BY <1>1, TypeCorrect, PTL DEF Spec, ConflictsAreDecidedOnce

-----------------------------------------------------------------------------
(* Local work is never undone unnoticed.                                   *)

\* The unsent intents of d on e, by their place in the outbox.
Intents(d, e) ==
    {i \in 1..Len(outbox[d]) : ~Prepared(outbox[d][i]) /\ e \in Touched(outbox[d][i])}

\* The outbox holds the groups in the order their users committed them.
OutboxSorted ==
    \A d \in Devices : \A i, j \in 1..Len(outbox[d]) :
       i < j => outbox[d][i].gid[2] < outbox[d][j].gid[2]

\* LocalValueExplained, by place in the outbox.
ValueExplained(d, e) ==
    \/ <<d, e>> \in overtaken
    \/ /\ Intents(d, e) = {} => table[d][e] = state[d][e].hash.val
       /\ \A i \in Intents(d, e) :
             (\A j \in Intents(d, e) : j <= i) =>
                table[d][e] = outbox[d][i].edits[e].val
ValueInv == OutboxSorted /\ \A d \in Devices : \A e \in Entities : ValueExplained(d, e)

\* A non-empty set of natural numbers up to n has a largest one.
LEMMA LargestExists ==
    ASSUME NEW S, S # {}, NEW n \in Nat, S \subseteq 1..n
    PROVE  \E x \in S : \A y \in S : y <= x
<1> DEFINE T == {n - x : x \in S}
<1>1. \A x \in S : x \in Nat /\ n - x \in Nat
  OBVIOUS
<1>2. T \subseteq Nat /\ T # {}
  BY <1>1
<1> HIDE DEF T
<1>3. IsWellFoundedOn(OpToRel(<, Nat), Nat)
  BY NatLessThanWellFounded
<1>4. PICK m \in T : \A y \in T : ~(<<y, m>> \in OpToRel(<, Nat))
  BY <1>2, <1>3, WFMin
<1>5. \A y \in T : m <= y
  <2> TAKE y \in T
  <2>1. y \in Nat /\ m \in Nat
    BY <1>2
  <2>2. ~(y < m)
    BY <1>4, <2>1 DEF OpToRel
  <2> QED
    BY <2>1, <2>2
<1>6. PICK x \in S : m = n - x
  BY <1>4 DEF T
<1>7. \A y \in S : y <= x
  <2> TAKE y \in S
  <2>1. n - y \in T
    BY DEF T
  <2>2. n - x <= n - y
    BY <1>5, <1>6, <2>1
  <2> QED
    BY <1>1, <2>2
<1> QED
  BY <1>7

\* A bootstrapped device shows the snapshot's values.
LEMMA InitValue == Init => ValueInv
<1> SUFFICES ASSUME Init
             PROVE  ValueInv
  OBVIOUS
<1>1. \A d \in Devices : Len(outbox[d]) = 0
  BY DEF Init
<1>2. \A d \in Devices : \A e \in Entities : Intents(d, e) = {}
  BY <1>1 DEF Intents
<1>3. \A d \in Devices : \A e \in Entities : table[d][e] = state[d][e].hash.val
  BY DEF Init, Live, Absent
<1> QED
  BY <1>1, <1>2, <1>3 DEF ValueInv, OutboxSorted, ValueExplained

\* A group committed on a device whose clock never steps back is the last of
\* its outbox, and the table shows it.
LEMMA EnqueueValue ==
    ASSUME MaxClockSteps = 0, TypeOK, OrderInv, ValueInv, NEW d \in Devices,
           NEW edits \in [Entities -> Edits \cup {None}],
           NEW at \in 1..(Len(outbox[d]) + 1), Enqueue(d, edits, at),
           UNCHANGED <<state, overtaken>>
    PROVE  ValueInv'
<1> DEFINE n == Len(outbox[d])
<1>2. UNCHANGED <<state, overtaken>> /\ n \in Nat /\ at \in 1..(n + 1)
  <2>1. n \in Nat
    BY DEF TypeOK
  <2> QED
    BY <2>1
<1>3. at = n + 1
  <2>1. spent \in [groups : 0..MaxGroups, failures : 0..MaxFailures,
                   clockSteps : 0..MaxClockSteps]
    BY DEF TypeOK
  <2>2. ~(spent.clockSteps < MaxClockSteps)
    <3>1. spent.clockSteps \in 0..0
      BY <2>1
    <3> QED
      BY <3>1
  <2>3. ~(at <= n)
    BY <2>2 DEF Enqueue
  <2> QED
    BY <1>2, <2>3
<1>4. /\ \A x \in Devices \ {d} : outbox'[x] = outbox[x]
      /\ Len(outbox'[d]) = n + 1
      /\ outbox'[d][n + 1].gid = <<d, spent.groups + 1>>
      /\ outbox'[d][n + 1].edits = edits /\ Signed(outbox'[d][n + 1]) = {}
      /\ \A i \in 1..n : outbox'[d][i] = outbox[d][i]
      /\ spent.groups \in Nat
  <2>1. \A i \in 1..n : i \in 1..(at - 1)
    BY <1>2, <1>3
  <2>2. \A x \in Devices \ {d} : outbox'[x] = outbox[x]
    BY EnqueueShape
  <2>3. Len(outbox'[d]) = Len(outbox[d]) + 1 /\ spent.groups \in Nat
    BY EnqueueShape
  <2>4. outbox'[d][at].gid = <<d, spent.groups + 1>> /\ Signed(outbox'[d][at]) = {}
    BY EnqueueShape
  <2>5. outbox'[d][at].edits = edits
    BY EnqueueShape
  <2>6. \A i \in 1..(at - 1) : outbox'[d][i] = outbox[d][i]
    BY EnqueueShape
  <2> QED
    BY <1>3, <2>1, <2>2, <2>3, <2>4, <2>5, <2>6
<1>5. /\ \A x \in Devices \ {d} : table'[x] = table[x]
      /\ \A e \in Entities : table'[d][e] = IF edits[e] = None THEN table[d][e]
                                            ELSE edits[e].val
  <2>1. table' = [table EXCEPT ![d] =
                    [e \in Entities |-> IF edits[e] = None THEN @[e] ELSE edits[e].val]]
    BY DEF Enqueue
  <2> QED
    BY <2>1 DEF TypeOK
<1> HIDE DEF n
<1>6. \A i \in 1..(n + 1) : i \in 1..n \/ i = n + 1
  BY <1>2
<1>7. OutboxSorted'
  <2> SUFFICES ASSUME NEW x \in Devices, NEW i \in 1..Len(outbox'[x]),
                      NEW j \in 1..Len(outbox'[x]), i < j
               PROVE  outbox'[x][i].gid[2] < outbox'[x][j].gid[2]
    BY DEF OutboxSorted
  <2>1. CASE x # d
    BY <1>4, <2>1 DEF ValueInv, OutboxSorted
  <2>2. CASE x = d
    <3>1. i \in 1..n /\ j \in 1..(n + 1)
      BY <1>2, <1>4, <2>2
    <3>2. CASE j \in 1..n
      BY <1>4, <2>2, <3>1, <3>2 DEF ValueInv, OutboxSorted, n
    <3>3. CASE j = n + 1
      <4>1. outbox[d][i].gid[2] \in 1..spent.groups
        BY <3>1 DEF OrderInv, OutboxFits, n
      <4>2. outbox'[d][j].gid[2] = spent.groups + 1
        BY <1>4, <3>3
      <4>3. outbox'[d][i].gid[2] < outbox'[d][j].gid[2]
        <5> DEFINE g == spent.groups
                   p == outbox[d][i].gid[2]
        <5>1. g \in Nat /\ p \in 1..g /\ outbox'[d][j].gid[2] = g + 1
          BY <1>4, <4>1, <4>2
        <5>2. outbox'[d][i].gid[2] = p
          BY <1>4, <3>1
        <5> HIDE DEF g, p
        <5> QED
          BY <5>1, <5>2
      <4> QED
        BY <2>2, <4>3
    <3> QED
      BY <1>6, <3>1, <3>2, <3>3
  <2> QED
    BY <2>1, <2>2
<1>8. ASSUME NEW x \in Devices, NEW e \in Entities
      PROVE  ValueExplained(x, e)'
  <2>0. ValueExplained(x, e)
    BY DEF ValueInv
  <2>1. CASE x # d
    <3>1. outbox'[x] = outbox[x] /\ table'[x] = table[x]
      BY <1>4, <1>5, <2>1
    <3> QED
      BY <1>2, <2>0, <3>1 DEF ValueExplained, Intents
  <2>2. CASE x = d /\ edits[e] = None
    <3>1. Intents(d, e)' = Intents(d, e)
      <4>1. e \notin Touched(outbox'[d][n + 1])
        BY <1>4, <2>2 DEF Touched
      <4> QED
        BY <1>4, <1>6, <4>1 DEF Intents, n
    <3>2. table'[d][e] = table[d][e]
      BY <1>5, <2>2
    <3>3. \A i \in Intents(d, e) : outbox'[d][i] = outbox[d][i]
      BY <1>4 DEF Intents, n
    <3> QED
      BY <1>2, <2>0, <2>2, <3>1, <3>2, <3>3 DEF ValueExplained
  <2>3. CASE x = d /\ edits[e] # None
    <3>1. n + 1 \in Intents(d, e)'
      <4>1. e \in Touched(outbox'[d][n + 1]) /\ ~Prepared(outbox'[d][n + 1])
        BY <1>4, <2>3 DEF Touched, Prepared
      <4>2. n + 1 \in 1..Len(outbox'[d])
        BY <1>2, <1>4
      <4> QED
        BY <4>1, <4>2 DEF Intents
    <3>2. Intents(d, e)' \subseteq 1..(n + 1)
      BY <1>4 DEF Intents
    <3>3. ASSUME NEW i \in Intents(d, e)', \A j \in Intents(d, e)' : j <= i
          PROVE  i = n + 1
      <4>1. n + 1 <= i /\ i \in 1..(n + 1)
        BY <3>1, <3>2, <3>3
      <4> QED
        BY <1>2, <4>1
    <3>4. table'[d][e] = outbox'[d][n + 1].edits[e].val
      BY <1>4, <1>5, <2>3
    <3> QED
      BY <2>3, <3>1, <3>3, <3>4 DEF ValueExplained
  <2> QED
    BY <2>1, <2>2, <2>3
<1> QED
  BY <1>7, <1>8 DEF ValueInv

\* A user's step keeps ValueInv where no clock steps back.
LEMMA UserValue ==
    ASSUME MaxClockSteps = 0, TypeOK, OrderInv, ValueInv, NEW d \in Devices, UserStep(d)
    PROVE  ValueInv'
BY UserEnqueues, EnqueueValue

\* Signing the oldest group makes its values those of the entity states; the
\* latest unsent intent of an entity is not the oldest unless it is the only one.
LEMMA PrepareValue ==
    ASSUME TypeOK, ValueInv, NEW d \in Devices, Prepare(d)
    PROVE  ValueInv'
<1> DEFINE group == FirstGroup(d)
           es    == Touched(group)
           now   == outbox'[d][1]
           n     == Len(outbox[d])
<1>1. /\ group = outbox[d][1] /\ Signed(group) = {} /\ 1 \in 1..n /\ Len(outbox'[d]) = n
      /\ \A i \in 2..n : outbox'[d][i] = outbox[d][i]
      /\ \A x \in Devices \ {d} : outbox'[x] = outbox[x]
      /\ now.gid = group.gid /\ Touched(now) = es /\ Signed(now) = es
  BY PrepareShape
<1>2. UNCHANGED <<table, overtaken>> /\ n \in Nat
  BY DEF Prepare, TypeOK
<1>3. /\ \A x \in Devices \ {d} : state'[x] = state[x]
      /\ \A e \in Entities \ es : state'[d][e] = state[d][e]
      /\ \A e \in es : state'[d][e].hash.val = group.edits[e].val
  <2>1. state' = [state EXCEPT ![d] =
                    [e \in Entities |->
                       IF e \in es THEN [hash |-> PreparedOp(d, group, e).res,
                                         last |-> PreparedOp(d, group, e).id]
                                   ELSE @[e]]]
    BY DEF Prepare
  <2>2. ASSUME NEW e \in es
        PROVE  PreparedOp(d, group, e).res.val = group.edits[e].val
    BY DEF PreparedOp, Tombstone, Live
  <2>3. es \subseteq Entities
    BY DEF Touched
  <2> HIDE DEF es, group
  <2> QED
    BY <2>1, <2>2, <2>3 DEF TypeOK
<1> HIDE DEF now, n, es, group
<1>4. \A i \in 1..n : i = 1 \/ i \in 2..n
  BY <1>2
<1>5. OutboxSorted'
  <2> SUFFICES ASSUME NEW x \in Devices, NEW i \in 1..Len(outbox'[x]),
                      NEW j \in 1..Len(outbox'[x]), i < j
               PROVE  outbox'[x][i].gid[2] < outbox'[x][j].gid[2]
    BY DEF OutboxSorted
  <2>1. CASE x # d
    BY <1>1, <2>1 DEF ValueInv, OutboxSorted
  <2>2. CASE x = d
    <3>1. i \in 1..n /\ j \in 1..n
      BY <1>1, <2>2
    <3>2. outbox'[d][i].gid = outbox[d][i].gid /\ outbox'[d][j].gid = outbox[d][j].gid
      BY <1>1, <1>4, <3>1 DEF now
    <3> QED
      BY <2>2, <3>1, <3>2 DEF ValueInv, OutboxSorted, n
  <2> QED
    BY <2>1, <2>2
<1>6. ASSUME NEW x \in Devices, NEW e \in Entities
      PROVE  ValueExplained(x, e)'
  <2>0. ValueExplained(x, e)
    BY DEF ValueInv
  <2>1. CASE x # d
    <3>1. outbox'[x] = outbox[x] /\ state'[x] = state[x]
      BY <1>1, <1>3, <2>1
    <3> QED
      BY <1>2, <2>0, <3>1 DEF ValueExplained, Intents
  <2>2. CASE x = d
    <3>1. Intents(d, e)' = Intents(d, e) \ {1}
      <4>1. 1 \notin Intents(d, e)'
        BY <1>1 DEF Intents, Prepared, now
      <4>2. \A i \in 2..n : i \in Intents(d, e)' <=> i \in Intents(d, e)
        BY <1>1 DEF Intents, n
      <4>3. Intents(d, e)' \subseteq 1..n /\ Intents(d, e) \subseteq 1..n
        BY <1>1 DEF Intents, n
      <4> QED
        BY <1>4, <4>1, <4>2, <4>3
    <3>2. \A i \in Intents(d, e)' : outbox'[d][i] = outbox[d][i]
      BY <1>1, <1>4, <3>1 DEF Intents, n
    <3>3. CASE e \in es
      <4>1. 1 \in Intents(d, e)
        BY <1>1, <3>3 DEF Intents, Prepared, es, n
      <4>2. ASSUME <<d, e>> \notin overtaken, Intents(d, e)' = {}
            PROVE  table'[d][e] = state'[d][e].hash.val
        <5>1. \A j \in Intents(d, e) : j <= 1
          BY <3>1, <4>2
        <5>2. table[d][e] = outbox[d][1].edits[e].val
          BY <2>0, <2>2, <4>1, <4>2, <5>1 DEF ValueExplained
        <5> QED
          BY <1>1, <1>2, <1>3, <3>3, <5>2
      <4>3. ASSUME <<d, e>> \notin overtaken, NEW i \in Intents(d, e)',
                   \A j \in Intents(d, e)' : j <= i
            PROVE  table'[d][e] = outbox'[d][i].edits[e].val
        <5>1. i \in Intents(d, e) /\ i \in Nat /\ 1 <= i
          BY <3>1 DEF Intents
        <5>2. \A j \in Intents(d, e) : j <= i
          BY <3>1, <4>3, <5>1
        <5> QED
          BY <1>2, <2>0, <2>2, <3>2, <4>3, <5>1, <5>2 DEF ValueExplained
      <4> QED
        BY <1>2, <2>2, <4>2, <4>3 DEF ValueExplained
    <3>4. CASE e \notin es
      <4>1. Intents(d, e)' = Intents(d, e)
        BY <1>1, <3>1, <3>4 DEF Intents, es
      <4> QED
        BY <1>2, <1>3, <2>0, <2>2, <3>2, <3>4, <4>1 DEF ValueExplained
    <3> QED
      BY <3>3, <3>4
  <2> QED
    BY <2>1, <2>2
<1> QED
  BY <1>5, <1>6 DEF ValueInv

\* An answered upload takes nothing that was not signed out of the outbox.
LEMMA UploadValue ==
    ASSUME TypeOK, AckInv, OrderInv, ValueInv, NEW d \in Devices, Upload(d)
    PROVE  ValueInv'
<1>1. PICK e0 \in Entities :
        /\ Sends(d, e0)
        /\ outbox' = [outbox EXCEPT ![d] =
                        IF Prepared([FirstGroup(d) EXCEPT !.ops[e0] = None])
                        THEN [@ EXCEPT ![1] = [FirstGroup(d) EXCEPT !.ops[e0] = None]]
                        ELSE Tail(@)]
  BY DEF Upload
<1> DEFINE rest == [FirstGroup(d) EXCEPT !.ops[e0] = None]
           n    == Len(outbox[d])
<1>2. /\ UNCHANGED <<table, state, overtaken>> /\ n \in Nat /\ outbox[d] # <<>>
      /\ FirstGroup(d) \in Groups /\ FirstGroup(d) = outbox[d][1]
  BY DEF Upload, Uploading, FirstGroup, TypeOK
<1>3. Prepared(outbox[d][1]) /\ rest.gid = outbox[d][1].gid
  BY <1>1, <1>2 DEF Sends, Prepared, Groups
<1>4. /\ \A x \in Devices \ {d} : outbox'[x] = outbox[x]
      /\ \/ /\ Prepared(rest) /\ Len(outbox'[d]) = n /\ outbox'[d][1] = rest
            /\ \A i \in 2..n : outbox'[d][i] = outbox[d][i]
         \/ /\ ~Prepared(rest) /\ Len(outbox'[d]) = n - 1
            /\ \A i \in 1..(n - 1) : outbox'[d][i] = outbox[d][i + 1]
  BY <1>1, UploadShape
<1> HIDE DEF rest, n
<1>5. \A i \in 1..n : i = 1 \/ i \in 2..n
  BY <1>2
<1>6. OutboxSorted'
  <2> SUFFICES ASSUME NEW x \in Devices, NEW i \in 1..Len(outbox'[x]),
                      NEW j \in 1..Len(outbox'[x]), i < j
               PROVE  outbox'[x][i].gid[2] < outbox'[x][j].gid[2]
    BY DEF OutboxSorted
  <2>1. CASE x # d
    BY <1>4, <2>1 DEF ValueInv, OutboxSorted
  <2>2. CASE x = d /\ Prepared(rest)
    <3>1. i \in 1..n /\ j \in 1..n
      BY <1>4, <2>2
    <3>2. outbox'[d][i].gid = outbox[d][i].gid /\ outbox'[d][j].gid = outbox[d][j].gid
      BY <1>3, <1>4, <1>5, <2>2, <3>1
    <3> QED
      BY <2>2, <3>1, <3>2 DEF ValueInv, OutboxSorted, n
  <2>3. CASE x = d /\ ~Prepared(rest)
    <3>1. i \in 1..(n - 1) /\ j \in 1..(n - 1)
      BY <1>4, <2>3
    <3>2. outbox'[d][i] = outbox[d][i + 1] /\ outbox'[d][j] = outbox[d][j + 1]
      BY <1>4, <2>3, <3>1
    <3>3. i + 1 \in 1..n /\ j + 1 \in 1..n /\ i + 1 < j + 1
      BY <1>2, <3>1
    <3> QED
      BY <2>3, <3>2, <3>3 DEF ValueInv, OutboxSorted, n
  <2> QED
    BY <2>1, <2>2, <2>3
<1>7. ASSUME NEW x \in Devices, NEW e \in Entities
      PROVE  ValueExplained(x, e)'
  <2>0. ValueExplained(x, e)
    BY DEF ValueInv
  <2>1. CASE x # d
    <3>1. outbox'[x] = outbox[x]
      BY <1>4, <2>1
    <3> QED
      BY <1>2, <2>0, <3>1 DEF ValueExplained, Intents
  <2>2. CASE x = d /\ Prepared(rest)
    <3>1. Intents(d, e)' = Intents(d, e)
      <4>1. 1 \notin Intents(d, e)' /\ 1 \notin Intents(d, e)
        BY <1>3, <1>4, <2>2 DEF Intents
      <4>2. \A i \in 2..n : i \in Intents(d, e)' <=> i \in Intents(d, e)
        BY <1>4, <2>2 DEF Intents, n
      <4>3. Intents(d, e)' \subseteq 1..n /\ Intents(d, e) \subseteq 1..n
        BY <1>4, <2>2 DEF Intents, n
      <4> QED
        BY <1>5, <4>1, <4>2, <4>3
    <3>2. \A i \in Intents(d, e) : outbox'[d][i] = outbox[d][i]
      BY <1>3, <1>4, <1>5, <2>2 DEF Intents, n
    <3> QED
      BY <1>2, <2>0, <2>2, <3>1, <3>2 DEF ValueExplained
  <2>3. CASE x = d /\ ~Prepared(rest)
    <3>1. \A i \in Intents(d, e)' : /\ i \in 1..(n - 1) /\ i + 1 \in Intents(d, e)
                                    /\ outbox'[d][i] = outbox[d][i + 1]
      <4> TAKE i \in Intents(d, e)'
      <4>1. /\ i \in 1..(n - 1) /\ ~Prepared(outbox'[d][i])
            /\ e \in Touched(outbox'[d][i])
        BY <1>4, <2>3 DEF Intents
      <4>2. outbox'[d][i] = outbox[d][i + 1] /\ i + 1 \in 1..n
        BY <1>2, <1>4, <2>3, <4>1
      <4> QED
        BY <4>1, <4>2 DEF Intents, n
    <3>2. \A i \in Intents(d, e) : i - 1 \in Intents(d, e)'
      <4> TAKE i \in Intents(d, e)
      <4>1. /\ i \in 1..n /\ ~Prepared(outbox[d][i]) /\ e \in Touched(outbox[d][i])
        BY DEF Intents, n
      <4>2. i # 1
        BY <1>3, <4>1
      <4>3. i - 1 \in 1..(n - 1) /\ i - 1 + 1 = i
        BY <1>2, <4>1, <4>2
      <4>4. outbox'[d][i - 1] = outbox[d][i]
        BY <1>4, <2>3, <4>3
      <4> QED
        BY <1>4, <2>3, <4>1, <4>3, <4>4 DEF Intents
    <3>3. Intents(d, e) \subseteq Nat /\ Intents(d, e)' \subseteq Nat
      BY <3>1 DEF Intents
    <3>4. Intents(d, e)' = {} => Intents(d, e) = {}
      BY <3>2
    <3>5. ASSUME NEW i \in Intents(d, e)', \A j \in Intents(d, e)' : j <= i
          PROVE  \A j \in Intents(d, e) : j <= i + 1
      <4> TAKE j \in Intents(d, e)
      <4>1. j - 1 <= i
        BY <3>2, <3>5
      <4> QED
        BY <3>3, <4>1
    <3>6. ASSUME <<d, e>> \notin overtaken, NEW i \in Intents(d, e)',
                 \A j \in Intents(d, e)' : j <= i
          PROVE  table'[d][e] = outbox'[d][i].edits[e].val
      <4>1. i + 1 \in Intents(d, e) /\ outbox'[d][i] = outbox[d][i + 1]
        BY <3>1
      <4>2. \A j \in Intents(d, e) : j <= i + 1
        BY <3>5, <3>6
      <4> QED
        BY <1>2, <2>0, <2>3, <3>6, <4>1, <4>2 DEF ValueExplained
    <3> QED
      BY <1>2, <2>0, <2>3, <3>4, <3>6 DEF ValueExplained
  <2> QED
    BY <2>1, <2>2, <2>3
<1> QED
  BY <1>6, <1>7 DEF ValueInv

\* A remote group writes an entity and its state alike, or its device is marked
\* as overtaken there, or nothing is written.
LEMMA ApplyValue ==
    ASSUME TypeOK, ValueInv, NEW d \in Devices, ApplyGroup(d)
    PROVE  ValueInv'
<1>1. PICK group : AcceptGroup(d, group) \/ RecordConflict(d, group)
  BY DEF ApplyGroup
<1>2. UNCHANGED outbox
  BY DEF ApplyGroup
<1>3. OutboxSorted' /\ \A x, e : Intents(x, e)' = Intents(x, e)
  BY <1>2 DEF ValueInv, OutboxSorted, Intents
<1>4. CASE RecordConflict(d, group)
  BY <1>2, <1>3, <1>4 DEF RecordConflict, ValueInv, ValueExplained
<1>5. CASE AcceptGroup(d, group)
  <2>1. /\ \A x \in Devices \ {d} : table'[x] = table[x] /\ state'[x] = state[x]
        /\ table'[d] = TableAfter(d, group) /\ state'[d] = StateAfter(d, group)
        /\ overtaken' = overtaken \cup
              {<<d, e>> : e \in {y \in Entities : Writes(group, y) /\ HasIntent(d, y)}}
    BY <1>5 DEF AcceptGroup, TypeOK
  <2>2. ASSUME NEW x \in Devices, NEW e \in Entities
        PROVE  ValueExplained(x, e)'
    <3>0. ValueExplained(x, e)
      BY DEF ValueInv
    <3>1. CASE x # d
      <4>1. table'[x] = table[x] /\ state'[x] = state[x]
        BY <2>1, <3>1
      <4> QED
        BY <1>2, <1>3, <2>1, <3>0, <4>1 DEF ValueExplained
    <3>2. CASE x = d /\ ~Writes(group, e)
      <4>1. table'[d][e] = table[d][e] /\ state'[d][e] = state[d][e]
        BY <2>1, <3>2 DEF TableAfter, StateAfter
      <4> QED
        BY <1>2, <1>3, <2>1, <3>0, <3>2, <4>1 DEF ValueExplained
    <3>3. CASE x = d /\ Writes(group, e) /\ Intents(d, e) # {}
      <4>1. HasIntent(d, e)
        BY <3>3 DEF HasIntent, Intents
      <4>2. <<d, e>> \in overtaken'
        BY <2>1, <3>3, <4>1
      <4> QED
        BY <3>3, <4>2 DEF ValueExplained
    <3>4. CASE x = d /\ Writes(group, e) /\ Intents(d, e) = {}
      <4>1. table'[d][e] = OpOn(group, e).res.val
        BY <2>1, <3>4 DEF TableAfter
      <4>2. state'[d][e].hash = OpOn(group, e).res
        BY <2>1, <3>4 DEF StateAfter, ResultMatchesCurrent
      <4> QED
        BY <1>3, <3>4, <4>1, <4>2 DEF ValueExplained
    <3> QED
      BY <3>1, <3>2, <3>3, <3>4
  <2> QED
    BY <1>3, <2>2 DEF ValueInv
<1> QED
  BY <1>1, <1>4, <1>5

\* A step that writes neither tables, states nor outboxes keeps ValueInv.
LEMMA ValueUnchanged ==
    ASSUME ValueInv, UNCHANGED <<table, state, outbox, overtaken>>
    PROVE  ValueInv'
BY DEF ValueInv, OutboxSorted, ValueExplained, Intents

\* Where the outbox is sorted, the latest unsent intent is the last one.
LEMMA ValueByNumber == TypeOK /\ OrderInv /\ ValueInv => LocalValueExplained
<1> SUFFICES ASSUME TypeOK, OrderInv, ValueInv, NEW d \in Devices, NEW e \in Entities
             PROVE  LET mine == Intents(d, e)
                        latest == CHOOSE i \in mine :
                           \A j \in mine : outbox[d][j].gid[2] <= outbox[d][i].gid[2]
                    IN  \/ <<d, e>> \in overtaken
                        \/ table[d][e] = IF mine = {} THEN state[d][e].hash.val
                                         ELSE outbox[d][latest].edits[e].val
  BY DEF LocalValueExplained, Intents
<1> DEFINE mine == Intents(d, e)
           num(i) == outbox[d][i].gid[2]
           latest == CHOOSE i \in mine : \A j \in mine : num(j) <= num(i)
<1>1. ValueExplained(d, e) /\ mine \subseteq 1..Len(outbox[d]) /\ Len(outbox[d]) \in Nat
  BY DEF ValueInv, Intents, TypeOK
<1>2. \A i \in mine : num(i) \in Int
  BY DEF OrderInv, OutboxFits, Intents
<1>3. \A i, j \in mine : i < j => num(i) < num(j)
  BY DEF ValueInv, OutboxSorted, Intents
<1>4. \A i \in mine : i \in Nat
  BY <1>1
<1> HIDE DEF mine, num
<1>5. CASE mine = {}
  BY <1>1, <1>5 DEF ValueExplained, mine, num
<1>6. CASE mine # {}
  <2>1. PICK x \in mine : \A y \in mine : y <= x
    BY <1>1, <1>6, LargestExists
  <2>2. \A j \in mine : num(j) <= num(x)
    <3> TAKE j \in mine
    <3>1. j = x \/ j < x
      BY <1>4, <2>1
    <3> QED
      BY <1>2, <1>3, <3>1
  <2>3. latest \in mine /\ \A j \in mine : num(j) <= num(latest)
    BY <2>2
  <2>4. \A j \in mine : j <= latest
    <3> TAKE j \in mine
    <3> HIDE DEF latest
    <3>1. ~(latest < j)
      BY <1>2, <1>3, <2>3
    <3> QED
      BY <1>4, <2>3, <3>1
  <2> HIDE DEF latest
  <2>5. <<d, e>> \in overtaken \/ table[d][e] = outbox[d][latest].edits[e].val
    BY <1>1, <2>3, <2>4 DEF ValueExplained, mine
  <2> QED
    BY <1>6, <2>5 DEF latest, mine, num
<1> QED
  BY <1>5, <1>6

\* Where no device's clock steps back, no step of the sync engine undoes local
\* work unnoticed: the table shows the latest unsent edit of an entity, or its
\* synchronized state, unless a remote group was applied over an unsent intent.
THEOREM LocalWorkStays == ASSUME MaxClockSteps = 0 PROVE Spec => []LocalValueExplained
<1>1. Init => ValueInv
  BY InitValue
<1>2. TypeOK /\ AckInv /\ OrderInv /\ ValueInv /\ [Next]_vars => ValueInv'
  <2> SUFFICES ASSUME TypeOK, AckInv, OrderInv, ValueInv, [Next]_vars
               PROVE  ValueInv'
    OBVIOUS
  <2>1. CASE Next
    <3>1. PICK d \in Devices : SyncStep(d) \/ UserStep(d) \/ Fault(d)
      BY <2>1 DEF Next
    <3>2. CASE Prepare(d) \/ Upload(d) \/ ApplyGroup(d)
      BY <3>2, PrepareValue, UploadValue, ApplyValue
    <3>3. CASE UserStep(d)
      BY <3>3, UserValue
    <3>4. CASE Pull(d) \/ GroupIncomplete(d) \/ Finish(d) \/ Fault(d)
      <4>1. UNCHANGED <<table, state, outbox, overtaken>>
        BY <3>4 DEF Pull, GroupIncomplete, Finish, Fault, UploadUnanswered, Interrupt,
                    deviceVars
      <4> QED
        BY <4>1, ValueUnchanged
    <3> QED
      BY <3>1, <3>2, <3>3, <3>4 DEF SyncStep
  <2>2. CASE UNCHANGED vars
    BY <2>2, ValueUnchanged DEF vars, deviceVars
  <2> QED
    BY <2>1, <2>2
<1>3. Spec => []ValueInv
  BY <1>1, <1>2, TypeCorrect, AckInvariant, OrderInvariant, PTL DEF Spec
<1> QED
  BY <1>3, ValueByNumber, TypeCorrect, OrderInvariant, PTL
-----------------------------------------------------------------------------
(* What was never disputed: the history of an entity on one device, told   *)
(* by the versions of the operations it processed or signed.               *)

\* The state every device bootstrapped an entity with.
Base(e) == IF e \in Seeded THEN Live(1, SeedValue) ELSE Absent

\* An operation makes one version of one entity, and never the first.
Forward(op) ==
    /\ op.id = <<op.gid, op.ent>>
    /\ op.res.ver = op.pre.ver + 1 /\ op.res.ver > Base(op.ent).ver

StepsForward ==
    /\ \A c \in 1..Len(log) : Forward(log[c])
    /\ \A d \in Devices : \A e \in SignedOf(d) :
          Forward(FirstGroup(d).ops[e]) /\ FirstGroup(d).ops[e].ent = e
    /\ \A d \in Devices : \A e \in Entities : state[d][e].hash.ver >= Base(e).ver

\* The operations on e that d processed, or signed itself.
OpsOf(d, e) ==
    {log[c] : c \in {c \in processed[d] : log[c].ent = e}}
       \cup {FirstGroup(d).ops[f] : f \in SignedOf(d) \cap {e}}

\* They lead from the first state of the entity to the present one, no two to
\* different states of one version.
History(ops, now, e) ==
    /\ \A op \in ops : op.res.ver > Base(e).ver /\ op.res.ver <= now.ver
    /\ \A op, other \in ops : op.res.ver = other.res.ver => op.res = other.res
    /\ now = Base(e) \/ \E op \in ops : op.res = now

\* Of another's operation, its own has seen it or was of no newer version.
SeenOrOlder(d, ops) ==
    \A own, other \in ops : own.dev = d /\ other.dev # d =>
       own.causal[other.dev] >= other.seq \/ own.res.ver <= other.res.ver

\* What d holds of e, unless its user was asked about it.
Told(d, e) ==
    ~Disputed(d, e) => /\ History(OpsOf(d, e), state[d][e].hash, e)
                       /\ SeenOrOlder(d, OpsOf(d, e))

UndisputedInv == StepsForward /\ \A d \in Devices : \A e \in Entities : Told(d, e)

\* The next state of an entity, or the same one again.
LEMMA HistoryGrows ==
    ASSUME NEW ops, \A o \in ops : o.res \in Hashes, NEW op, op.res \in Hashes,
           NEW was \in Hashes, NEW e,
           op.res.ver > Base(e).ver, op.res = was \/ op.res.ver > was.ver,
           History(ops, was, e)
    PROVE  History(ops \cup {op}, op.res, e)
<1>1. was.ver \in Nat /\ op.res.ver \in Nat /\ \A o \in ops : o.res.ver \in Nat
  BY DEF Hashes
<1>2. \A o \in ops : o.res.ver = op.res.ver => o.res = op.res
  <2> SUFFICES ASSUME NEW o \in ops, o.res.ver = op.res.ver
               PROVE  o.res = op.res
    OBVIOUS
  <2>1. o.res.ver <= was.ver
    BY DEF History
  <2>2. op.res = was
    BY <1>1, <2>1
  <2>3. was # Base(e)
    <3>1. was.ver > Base(e).ver
      BY <2>2
    <3>2. ~(was.ver > was.ver)
      BY <1>1
    <3> QED
      BY <3>1, <3>2
  <2>4. PICK x \in ops : x.res = was
    BY <2>3 DEF History
  <2> QED
    BY <2>2, <2>4 DEF History
<1>3. \A o \in ops : o.res.ver <= op.res.ver
  <2> SUFFICES ASSUME NEW o \in ops
               PROVE  o.res.ver <= op.res.ver
    OBVIOUS
  <2>1. o.res.ver <= was.ver
    BY DEF History
  <2>2. op.res.ver >= was.ver
    BY <1>1
  <2> QED
    BY <1>1, <2>1, <2>2
<1> QED
  BY <1>1, <1>2, <1>3 DEF History

\* Nothing signed, nothing processed.
LEMMA InitUndisputed == Init => UndisputedInv
<1> SUFFICES ASSUME Init
             PROVE  UndisputedInv
  OBVIOUS
<1>1. /\ log = <<>> /\ Len(log) = 0
      /\ \A d \in Devices : outbox[d] = <<>> /\ processed[d] = {}
      /\ \A d \in Devices : \A e \in Entities : state[d][e].hash = Base(e)
  BY DEF Init, Base
<1>2. \A d \in Devices : SignedOf(d) = {}
  BY <1>1 DEF SignedOf
<1>3. \A d \in Devices : \A e : OpsOf(d, e) = {}
  BY <1>1, <1>2 DEF OpsOf
<1>4. \A e : Base(e).ver \in Nat
  BY DEF Base, Live, Absent
<1>5. StepsForward
  BY <1>1, <1>2, <1>4 DEF StepsForward
<1>6. \A d \in Devices : \A e \in Entities :
         History(OpsOf(d, e), state[d][e].hash, e) /\ SeenOrOlder(d, OpsOf(d, e))
  BY <1>1, <1>3 DEF History, SeenOrOlder
<1> QED
  BY <1>5, <1>6 DEF UndisputedInv, Told

\* Conflicts are never forgotten: an entity once disputed stays so.
LEMMA DisputesStay ==
    ASSUME TypeOK, NEW d \in Devices, \A k \in conflicts[d] : Kept(d, k),
           NEW e, Disputed(d, e)
    PROVE  Disputed(d, e)'
<1>1. PICK k \in conflicts[d] : k.ent = e
  BY DEF Disputed
<1>2. Kept(d, k)
  BY <1>1
<1>3. [k EXCEPT !.pending = FALSE].ent = k.ent
  BY <1>1 DEF TypeOK, Conflicts
<1> QED
  BY <1>1, <1>2, <1>3 DEF Kept, Disputed

\* The signed operations of d are those it had.
SameSigned(d) ==
    /\ SignedOf(d)' = SignedOf(d)
    /\ \A e \in SignedOf(d) : (FirstGroup(d).ops[e])' = FirstGroup(d).ops[e]

\* An operation d knew of is the same one still.
LEMMA SameOps ==
    ASSUME NEW d \in Devices, NEW e, SameSigned(d), processed'[d] = processed[d],
           \A c \in processed[d] : log'[c] = log[c]
    PROVE  OpsOf(d, e)' = OpsOf(d, e)
<1> DEFINE old == {c \in processed[d] : log[c].ent = e}
           new == {c \in processed'[d] : log'[c].ent = e}
           mine == SignedOf(d) \cap {e}
<1>1. new = old /\ {log'[c] : c \in new} = {log[c] : c \in old}
  OBVIOUS
<1>2. {(FirstGroup(d).ops[f])' : f \in mine} = {FirstGroup(d).ops[f] : f \in mine}
  BY DEF SameSigned
<1>3. OpsOf(d, e) = {log[c] : c \in old} \cup {FirstGroup(d).ops[f] : f \in mine}
  BY DEF OpsOf
<1>4. OpsOf(d, e)' = {log'[c] : c \in new} \cup {(FirstGroup(d).ops[f])' : f \in mine}
  BY DEF OpsOf, SameSigned
<1> QED
  BY <1>1, <1>2, <1>3, <1>4

\* What a device that a step does not concern holds of an entity.
LEMMA ToldStays ==
    ASSUME NEW d, NEW e, Told(d, e), Disputed(d, e) => Disputed(d, e)',
           OpsOf(d, e)' = OpsOf(d, e), state'[d][e].hash = state[d][e].hash
    PROVE  Told(d, e)'
BY DEF Told, History, SeenOrOlder

\* Steps that sign, send and apply nothing.
LEMMA UndisputedUnchanged ==
    ASSUME TypeOK, UndisputedInv, UNCHANGED <<log, processed, state>>,
           \A x \in Devices : SameSigned(x),
           \A x \in Devices : \A k \in conflicts[x] : Kept(x, k)
    PROVE  UndisputedInv'
<1>1. StepsForward'
  <2>1. \A c \in 1..Len(log') : Forward(log'[c])
    BY DEF UndisputedInv, StepsForward
  <2>2. ASSUME NEW d \in Devices, NEW e \in SignedOf(d)'
        PROVE  Forward((FirstGroup(d).ops[e])') /\ (FirstGroup(d).ops[e])'.ent = e
    <3>1. e \in SignedOf(d) /\ (FirstGroup(d).ops[e])' = FirstGroup(d).ops[e]
      BY <2>2 DEF SameSigned
    <3> QED
      BY <3>1 DEF UndisputedInv, StepsForward
  <2>3. \A d \in Devices : \A e \in Entities : state'[d][e].hash.ver >= Base(e).ver
    BY DEF UndisputedInv, StepsForward
  <2> QED
    BY <2>1, <2>2, <2>3 DEF StepsForward, Forward
<1>2. ASSUME NEW d \in Devices, NEW e \in Entities
      PROVE  Told(d, e)'
  <2>1. OpsOf(d, e)' = OpsOf(d, e)
    BY SameOps
  <2>2. Disputed(d, e) => Disputed(d, e)'
    BY DisputesStay
  <2> QED
    BY <2>1, <2>2, ToldStays DEF UndisputedInv
<1> QED
  BY <1>1, <1>2 DEF UndisputedInv

\* Committing a group signs nothing.
LEMMA EnqueueSigns ==
    ASSUME TypeOK, NEW d \in Devices,
           NEW edits \in [Entities -> Edits \cup {None}],
           NEW at \in 1..(Len(outbox[d]) + 1), Enqueue(d, edits, at)
    PROVE  \A x \in Devices : SameSigned(x)
<1>1. /\ \A x \in Devices \ {d} : outbox'[x] = outbox[x]
      /\ outbox'[d] # <<>> /\ Signed(outbox'[d][at]) = {}
      /\ \A i \in 1..(at - 1) : i \in 1..Len(outbox[d]) /\ outbox'[d][i] = outbox[d][i]
      /\ at = 1 => SignedOf(d) = {}
  <2>1. \A x \in Devices \ {d} : outbox'[x] = outbox[x]
    BY EnqueueShape
  <2>2. outbox'[d] # <<>> /\ Signed(outbox'[d][at]) = {}
    BY EnqueueShape
  <2>3. \A i \in 1..(at - 1) : i \in 1..Len(outbox[d]) /\ outbox'[d][i] = outbox[d][i]
    BY EnqueueShape
  <2>4. at = 1 => SignedOf(d) = {}
    BY EnqueueShape
  <2> QED
    BY <2>1, <2>2, <2>3, <2>4
<1> SUFFICES ASSUME NEW x \in Devices
             PROVE  SameSigned(x)
  OBVIOUS
<1>2. CASE x # d
  BY <1>1, <1>2 DEF SameSigned, SignedOf, FirstGroup
<1>3. CASE x = d /\ at = 1
  <2>1. SignedOf(d)' = {} /\ SignedOf(d) = {}
    BY <1>1, <1>3 DEF SignedOf, FirstGroup, Signed
  <2> QED
    BY <1>3, <2>1 DEF SameSigned
<1>4. CASE x = d /\ at # 1
  <2>1. 1 \in 1..(at - 1) /\ Len(outbox[d]) \in Nat
    BY <1>4 DEF TypeOK
  <2>2. outbox'[d][1] = outbox[d][1] /\ outbox[d] # <<>>
    BY <1>1, <2>1
  <2> QED
    BY <1>1, <1>4, <2>2 DEF SameSigned, SignedOf, FirstGroup, Signed
<1> QED
  BY <1>2, <1>3, <1>4

\* A user's step signs nothing.
LEMMA UserUndisputed ==
    ASSUME TypeOK, UndisputedInv, NEW d \in Devices, UserStep(d)
    PROVE  UndisputedInv'
<1>1. \E edits \in [Entities -> Edits \cup {None}], at \in 1..(Len(outbox[d]) + 1) :
         Enqueue(d, edits, at)
  BY UserEnqueues
<1>2. UNCHANGED <<log, state, processed>>
  BY UserEnqueues
<1>4. \A x \in Devices : SameSigned(x)
  BY <1>1, EnqueueSigns
<1>5. \A x \in Devices : \A k \in conflicts[x] : Kept(x, k)
  <2>1. CASE LocalEdit(d)
    BY <2>1, OthersKeep DEF LocalEdit
  <2>2. CASE \E gid \in GroupIds, keepLocal \in BOOLEAN : Resolve(d, gid, keepLocal)
    BY <2>2, ResolveKeeps
  <2> QED
    BY <2>1, <2>2 DEF UserStep
<1> QED
  BY <1>2, <1>4, <1>5, UndisputedUnchanged

\* A step that leaves the outboxes and the records alone, too.
LEMMA CycleUndisputed ==
    ASSUME TypeOK, UndisputedInv, UNCHANGED <<log, processed, state, outbox, conflicts>>
    PROVE  UndisputedInv'
<1>1. \A x \in Devices : SameSigned(x)
  BY DEF SameSigned, SignedOf, FirstGroup
<1>2. \A x \in Devices : \A k \in conflicts[x] : Kept(x, k)
  BY OthersKeep
<1> QED
  BY <1>1, <1>2, UndisputedUnchanged

\* What a device knows about an entity are operations on it.
LEMMA OpsAre ==
    ASSUME TypeOK, StepsForward, NEW d \in Devices, NEW e \in Entities
    PROVE  \A op \in OpsOf(d, e) : op \in Operations /\ op.ent = e /\ Forward(op)
<1>1. \A c \in processed[d] : c \in 1..Len(log) /\ log[c] \in Operations
  BY DEF TypeOK
<1>2. ASSUME NEW f \in SignedOf(d) \cap {e}
      PROVE  FirstGroup(d).ops[f] \in Operations
  <2>1. outbox[d] # <<>> /\ f \in Signed(FirstGroup(d))
    BY DEF SignedOf
  <2>2. FirstGroup(d) \in Groups
    BY <2>1 DEF TypeOK, FirstGroup
  <2> QED
    BY <2>1, <2>2 DEF Signed, Groups
<1> QED
  BY <1>1, <1>2 DEF OpsOf, StepsForward

\* An accepted operation is in the log, and what was there is unchanged.
LEMMA UploadForward ==
    ASSUME TypeOK, AckInv, OrderInv, StepsForward, NEW d \in Devices, outbox[d] # <<>>,
           NEW e \in Entities, Sends(d, e), Accepts(FirstGroup(d).ops[e]),
           log' = LogAfter(FirstGroup(d).ops[e])
    PROVE  /\ \A c \in 1..Len(log') : Forward(log'[c])
           /\ \A c \in 1..Len(log) : log'[c] = log[c]
           /\ log'[CursorOf(FirstGroup(d).ops[e])] = FirstGroup(d).ops[e]
           /\ e \in SignedOf(d) /\ FirstGroup(d).ops[e].ent = e
<1> DEFINE op == FirstGroup(d).ops[e]
<1>1. op \in Operations /\ e \in SignedOf(d)
  BY SentOp DEF SignedOf, Sends
<1>2. Forward(op) /\ op.ent = e
  BY <1>1 DEF StepsForward
<1>3. /\ \A c \in 1..Len(log) : log'[c] = log[c]
      /\ log'[CursorOf(op)] = op
      /\ \A c \in 1..Len(log') : c \in 1..Len(log) \/ c = CursorOf(op)
  BY <1>1, UploadLog
<1>4. \A c \in 1..Len(log) : Forward(log[c])
  BY DEF StepsForward
<1> HIDE DEF op
<1>5. ASSUME NEW c \in 1..Len(log')
      PROVE  Forward(log'[c])
  BY <1>2, <1>3, <1>4
<1> QED
  BY <1>1, <1>2, <1>3, <1>5 DEF op

\* A lost answer: the service knows more, the devices what they knew.
LEMMA UnansweredUndisputed ==
    ASSUME TypeOK, AckInv, OrderInv, UndisputedInv, NEW d \in Devices, UploadUnanswered(d)
    PROVE  UndisputedInv'
<1>1. UNCHANGED <<processed, state, outbox, conflicts>> /\ outbox[d] # <<>>
  BY DEF UploadUnanswered, deviceVars, Uploading
<1>2. PICK e \in Entities : Sends(d, e) /\ Accepts(FirstGroup(d).ops[e])
                               /\ log' = LogAfter(FirstGroup(d).ops[e])
  BY DEF UploadUnanswered
<1>3. /\ \A c \in 1..Len(log') : Forward(log'[c])
      /\ \A c \in 1..Len(log) : log'[c] = log[c]
  BY <1>1, <1>2, UploadForward DEF UndisputedInv
<1>4. \A x \in Devices : SameSigned(x)
  BY <1>1 DEF SameSigned, SignedOf, FirstGroup
<1>5. StepsForward'
  BY <1>1, <1>3 DEF UndisputedInv, StepsForward, SignedOf, FirstGroup
<1>6. ASSUME NEW x \in Devices, NEW f \in Entities
      PROVE  Told(x, f)'
  <2>1. \A c \in processed[x] : log'[c] = log[c]
    BY <1>3 DEF TypeOK
  <2>2. OpsOf(x, f)' = OpsOf(x, f)
    BY <1>1, <1>4, <2>1, SameOps
  <2>3. Disputed(x, f) => Disputed(x, f)'
    BY <1>1 DEF Disputed
  <2> QED
    BY <1>1, <2>2, <2>3, ToldStays DEF UndisputedInv
<1> QED
  BY <1>5, <1>6 DEF UndisputedInv

\* What an answered upload leaves signed: all but the operation it sent.
LEMMA UploadSigned ==
    ASSUME TypeOK, AckInv, OrderInv, NEW d \in Devices, Upload(d), NEW e \in Entities,
           Sends(d, e),
           outbox' = [outbox EXCEPT ![d] =
                        IF Prepared([FirstGroup(d) EXCEPT !.ops[e] = None])
                        THEN [@ EXCEPT ![1] = [FirstGroup(d) EXCEPT !.ops[e] = None]]
                        ELSE Tail(@)]
    PROVE  /\ \A x \in Devices \ {d} : SameSigned(x)
           /\ SignedOf(d)' = SignedOf(d) \ {e}
           /\ \A f \in SignedOf(d) \ {e} : (FirstGroup(d).ops[f])' = FirstGroup(d).ops[f]
<1> DEFINE rest == [FirstGroup(d) EXCEPT !.ops[e] = None]
<1>1. outbox[d] # <<>>
  BY DEF Upload, Uploading
<1>2. /\ Signed(rest) = Signed(FirstGroup(d)) \ {e}
      /\ \A f \in Signed(rest) : rest.ops[f] = FirstGroup(d).ops[f]
  BY <1>1, SendsLowest
<1>3. /\ \A x \in Devices \ {d} : outbox'[x] = outbox[x]
      /\ \/ /\ Prepared(rest) /\ outbox'[d] # <<>> /\ outbox'[d][1] = rest
         \/ /\ ~Prepared(rest) /\ Len(outbox'[d]) = Len(outbox[d]) - 1
            /\ \A i \in 1..(Len(outbox[d]) - 1) : outbox'[d][i] = outbox[d][i + 1]
  BY UploadShape
<1>4. \A x \in Devices \ {d} : SameSigned(x)
  BY <1>3 DEF SameSigned, SignedOf, FirstGroup
<1>5. outbox \in [Devices -> Seq(Groups)] /\ outbox' \in [Devices -> Seq(Groups)]
  BY UploadType DEF TypeOK
<1> HIDE DEF rest
<1>6. SignedOf(d)' = Signed(rest)
  <2>1. CASE outbox'[d] # <<>> /\ outbox'[d][1] = rest
    BY <2>1 DEF SignedOf, FirstGroup, Signed
  <2>2. CASE outbox'[d] = <<>> /\ ~Prepared(rest)
    BY <2>2 DEF SignedOf, Prepared
  <2>3. CASE /\ outbox'[d] # <<>> /\ ~Prepared(rest)
             /\ Len(outbox'[d]) = Len(outbox[d]) - 1
             /\ \A i \in 1..(Len(outbox[d]) - 1) : outbox'[d][i] = outbox[d][i + 1]
    <3>1. Len(outbox[d]) - 1 >= 1 /\ Len(outbox[d]) \in Nat
      BY <1>5, <2>3
    <3>2. outbox'[d][1] = outbox[d][2] /\ 2 \in 1..Len(outbox[d]) /\ 2 # 1
      BY <2>3, <3>1
    <3>3. Signed(outbox[d][2]) = {}
      BY <3>2 DEF OrderInv, OutboxFits
    <3> QED
      BY <2>3, <3>2, <3>3 DEF SignedOf, FirstGroup, Prepared, Signed
  <2> QED
    BY <1>3, <2>1, <2>2, <2>3
<1>7. ASSUME NEW f \in SignedOf(d) \ {e}
      PROVE  (FirstGroup(d).ops[f])' = FirstGroup(d).ops[f]
  <2>1. f \in Signed(rest)
    BY <1>1, <1>2 DEF SignedOf
  <2>2. outbox'[d][1] = rest
    BY <1>3, <2>1 DEF Prepared
  <2> QED
    BY <1>2, <2>1, <2>2 DEF FirstGroup
<1> QED
  BY <1>1, <1>2, <1>4, <1>6, <1>7 DEF SignedOf

\* An answered upload moves one operation from the signed ones to the inbox.
LEMMA UploadUndisputed ==
    ASSUME TypeOK, AckInv, OrderInv, UndisputedInv, NEW d \in Devices, Upload(d)
    PROVE  UndisputedInv'
<1>1. UNCHANGED <<state, conflicts>> /\ outbox[d] # <<>>
  BY DEF Upload, Uploading
<1>2. PICK e \in Entities :
        /\ Sends(d, e) /\ Accepts(FirstGroup(d).ops[e])
        /\ log' = LogAfter(FirstGroup(d).ops[e])
        /\ processed' = [processed EXCEPT ![d] = @ \cup {CursorOf(FirstGroup(d).ops[e])}]
        /\ outbox' = [outbox EXCEPT ![d] =
                        IF Prepared([FirstGroup(d) EXCEPT !.ops[e] = None])
                        THEN [@ EXCEPT ![1] = [FirstGroup(d) EXCEPT !.ops[e] = None]]
                        ELSE Tail(@)]
  BY DEF Upload
<1> DEFINE op == FirstGroup(d).ops[e]
           cur == CursorOf(op)
<1>3. /\ \A c \in 1..Len(log') : Forward(log'[c])
      /\ \A c \in 1..Len(log) : log'[c] = log[c]
      /\ log'[cur] = op /\ e \in SignedOf(d) /\ op.ent = e
  BY <1>1, <1>2, UploadForward DEF UndisputedInv
<1>4. /\ \A x \in Devices \ {d} : SameSigned(x)
      /\ SignedOf(d)' = SignedOf(d) \ {e}
      /\ \A f \in SignedOf(d) \ {e} : (FirstGroup(d).ops[f])' = FirstGroup(d).ops[f]
  BY <1>2, UploadSigned
<1>5. \A x \in Devices : processed[x] \subseteq 1..Len(log)
  BY DEF TypeOK
<1>6. /\ processed'[d] = processed[d] \cup {cur}
      /\ \A x \in Devices \ {d} : processed'[x] = processed[x]
  BY <1>2 DEF TypeOK
<1> HIDE DEF op, cur
<1>7. StepsForward'
  <2>1. ASSUME NEW x \in Devices, NEW f \in SignedOf(x)'
        PROVE  Forward((FirstGroup(x).ops[f])') /\ (FirstGroup(x).ops[f])'.ent = f
    <3>1. f \in SignedOf(x) /\ (FirstGroup(x).ops[f])' = FirstGroup(x).ops[f]
      BY <1>4, <2>1 DEF SameSigned
    <3> QED
      BY <3>1 DEF UndisputedInv, StepsForward
  <2>2. \A x \in Devices : \A f \in Entities : state'[x][f].hash.ver >= Base(f).ver
    BY <1>1 DEF UndisputedInv, StepsForward
  <2> QED
    BY <1>3, <2>1, <2>2 DEF StepsForward, Forward
<1>8. ASSUME NEW f \in Entities
      PROVE  OpsOf(d, f)' = OpsOf(d, f)
  <2> DEFINE old == {c \in processed[d] : log[c].ent = f}
             new == {c \in processed'[d] : log'[c].ent = f}
  <2>1. \A c \in processed[d] : log'[c] = log[c]
    BY <1>3, <1>5
  <2>2. OpsOf(d, f) = {log[c] : c \in old} \cup
                         {FirstGroup(d).ops[g] : g \in SignedOf(d) \cap {f}}
    BY DEF OpsOf
  <2>3. OpsOf(d, f)' = {log'[c] : c \in new} \cup
                          {(FirstGroup(d).ops[g])' : g \in (SignedOf(d) \ {e}) \cap {f}}
    BY <1>4 DEF OpsOf
  <2>4. CASE f # e
    <3>1. new = old
      BY <1>3, <1>6, <2>1, <2>4
    <3>2. {log'[c] : c \in new} = {log[c] : c \in old}
      BY <2>1, <3>1
    <3>3. {(FirstGroup(d).ops[g])' : g \in (SignedOf(d) \ {e}) \cap {f}}
             = {FirstGroup(d).ops[g] : g \in SignedOf(d) \cap {f}}
      BY <1>4, <2>4
    <3> QED
      BY <2>2, <2>3, <3>2, <3>3
  <2>5. CASE f = e
    <3>1. new = old \cup {cur}
      BY <1>3, <1>6, <2>1, <2>5
    <3>2. {log'[c] : c \in new} = {log[c] : c \in old} \cup {op}
      BY <1>3, <2>1, <3>1
    <3>3. {FirstGroup(d).ops[g] : g \in SignedOf(d) \cap {f}} = {op}
      BY <1>3, <2>5 DEF op
    <3>4. {(FirstGroup(d).ops[g])' : g \in (SignedOf(d) \ {e}) \cap {f}} = {}
      BY <2>5
    <3> QED
      BY <2>2, <2>3, <3>2, <3>3, <3>4
  <2> QED
    BY <2>4, <2>5
<1>9. ASSUME NEW x \in Devices, NEW f \in Entities
      PROVE  Told(x, f)'
  <2>1. OpsOf(x, f)' = OpsOf(x, f)
    <3>1. CASE x = d
      BY <1>8, <3>1
    <3>2. CASE x # d
      <4>1. \A c \in processed[x] : log'[c] = log[c]
        BY <1>3, <1>5
      <4> QED
        BY <1>4, <1>6, <3>2, <4>1, SameOps
    <3> QED
      BY <3>1, <3>2
  <2>2. Disputed(x, f) => Disputed(x, f)'
    BY <1>1 DEF Disputed
  <2> QED
    BY <1>1, <2>1, <2>2, ToldStays DEF UndisputedInv
<1> QED
  BY <1>7, <1>9 DEF UndisputedInv

\* What prepareNextGroup signs for an intent is the next version of its entity.
LEMMA PreparedForward ==
    ASSUME TypeOK, StepsForward, NEW d \in Devices, NEW group \in Groups,
           NEW e \in Touched(group)
    PROVE  LET op == PreparedOp(d, group, e)
           IN  /\ Forward(op) /\ op.ent = e /\ op.dev = d /\ op.res \in Hashes
               /\ op.res.ver > state[d][e].hash.ver
               /\ \A x \in Devices \ {d} : op.causal[x] = frontier[d][x]
<1> DEFINE op == PreparedOp(d, group, e)
           pre == Known(state[d][e], group.edits[e].prev).hash
<1>1. e \in Entities /\ op \in Operations
  BY PreparedOpType DEF Touched
<1>2. state[d][e] \in States /\ state[d][e].hash.ver \in Nat
  BY <1>1 DEF TypeOK, States, Hashes
<1>3. pre = state[d][e].hash \/ (pre.ver = 1 /\ state[d][e].hash.ver = 0)
  BY DEF Known, Absent, Live
<1>4. pre.ver \in Nat /\ pre.ver >= state[d][e].hash.ver
  BY <1>2, <1>3
<1>5. /\ op.id = <<group.gid, e>> /\ op.gid = group.gid /\ op.ent = e /\ op.dev = d
      /\ op.pre = pre /\ op.res.ver = pre.ver + 1
  BY DEF PreparedOp, Tombstone, Live
<1>6. op.causal = [frontier[d] EXCEPT ![d] = op.seq - 1]
  BY DEF PreparedOp
<1>7. state[d][e].hash.ver >= Base(e).ver /\ Base(e).ver \in Nat
  BY <1>1 DEF StepsForward, Base, Live, Absent
<1>8. \A x \in Devices \ {d} : op.causal[x] = frontier[d][x]
  BY <1>6 DEF TypeOK
<1> HIDE DEF op, pre
<1>9. op.res.ver > state[d][e].hash.ver /\ op.res.ver > Base(e).ver
  BY <1>2, <1>4, <1>5, <1>7
<1>10. op.res \in Hashes
  BY <1>1 DEF Operations
<1> QED
  BY <1>5, <1>8, <1>9, <1>10 DEF Forward, op

\* What d holds of an entity after one more operation on it.
LEMMA ToldGrows ==
    ASSUME TypeOK, UndisputedInv, NEW d \in Devices, NEW e \in Entities, NEW op,
           op.res \in Hashes, Forward(op), op.ent = e, ~Disputed(d, e),
           op.res = state[d][e].hash \/ op.res.ver > state[d][e].hash.ver,
           OpsOf(d, e)' = OpsOf(d, e) \cup {op}, state'[d][e].hash = op.res,
           SeenOrOlder(d, OpsOf(d, e) \cup {op})
    PROVE  Told(d, e)'
<1> DEFINE ops == OpsOf(d, e)
           was == state[d][e].hash
<1>1. \A o \in ops : o.res \in Hashes
  BY OpsAre DEF UndisputedInv, Operations
<1>2. was \in Hashes
  BY DEF TypeOK, States
<1>3. op.res.ver > Base(e).ver
  BY DEF Forward
<1>4. History(ops, was, e)
  BY DEF UndisputedInv, Told
<1> HIDE DEF ops, was
<1>5. History(ops \cup {op}, op.res, e)
  BY <1>1, <1>2, <1>3, <1>4, HistoryGrows DEF was
<1>6. History(OpsOf(d, e)', state'[d][e].hash, e) /\ SeenOrOlder(d, OpsOf(d, e)')
  BY <1>5 DEF ops
<1> QED
  BY <1>6 DEF Told, History, SeenOrOlder

\* Signing the first group: each of its operations is the next version of its
\* entity, and names as seen whatever its device processed.
LEMMA PrepareUndisputed ==
    ASSUME TypeOK, AckInv, OrderInv, UndisputedInv, NEW d \in Devices, Prepare(d)
    PROVE  UndisputedInv'
<1> DEFINE group == FirstGroup(d)
           es == Touched(group)
           op(e) == PreparedOp(d, group, e)
<1>1. /\ UNCHANGED <<log, processed, conflicts>>
      /\ state' = [state EXCEPT ![d] =
                     [e \in Entities |-> IF e \in es THEN [hash |-> op(e).res, last |-> op(e).id]
                                                     ELSE @[e]]]
  BY DEF Prepare, serverVars
<1>2. /\ outbox[d] # <<>> /\ group = outbox[d][1] /\ 1 \in 1..Len(outbox[d])
      /\ Signed(group) = {} /\ Len(outbox'[d]) = Len(outbox[d])
      /\ \A x \in Devices \ {d} : outbox'[x] = outbox[x]
      /\ Signed(outbox'[d][1]) = es
      /\ \A e \in es : outbox'[d][1].ops[e] = op(e)
  BY PrepareShape
<1>3. group \in Groups /\ es \subseteq Entities
  BY <1>2 DEF TypeOK, Touched
<1>4. \A e \in es : /\ Forward(op(e)) /\ op(e).ent = e /\ op(e).dev = d
                    /\ op(e).res \in Hashes /\ op(e).res.ver > state[d][e].hash.ver
                    /\ \A x \in Devices \ {d} : op(e).causal[x] = frontier[d][x]
  BY <1>3, PreparedForward DEF UndisputedInv
<1>5. SignedOf(d) = {} /\ SignedOf(d)' = es /\ outbox'[d] # <<>>
  <2>1. Len(outbox'[d]) # 0
    BY <1>2 DEF TypeOK
  <2>2. outbox'[d] # <<>>
    BY <2>1
  <2>3. SignedOf(d)' = Signed(outbox'[d][1])
    BY <2>2 DEF SignedOf, FirstGroup, Signed
  <2> QED
    BY <1>2, <2>2, <2>3 DEF SignedOf
<1>6. \A e \in es : (FirstGroup(d).ops[e])' = op(e)
  BY <1>2 DEF FirstGroup
<1> HIDE DEF group, es, op
<1>7. \A x \in Devices \ {d} : SameSigned(x)
  BY <1>2 DEF SameSigned, SignedOf, FirstGroup
<1>8. /\ \A x \in Devices \ {d} : state'[x] = state[x]
      /\ \A e \in Entities \ es : state'[d][e] = state[d][e]
      /\ \A e \in es : state'[d][e].hash = op(e).res
  BY <1>1, <1>3 DEF TypeOK
<1>9. StepsForward'
  <2>1. ASSUME NEW x \in Devices, NEW e \in SignedOf(x)'
        PROVE  Forward((FirstGroup(x).ops[e])') /\ (FirstGroup(x).ops[e])'.ent = e
    <3>1. CASE x = d
      BY <1>4, <1>5, <1>6, <3>1
    <3>2. CASE x # d
      <4>1. e \in SignedOf(x) /\ (FirstGroup(x).ops[e])' = FirstGroup(x).ops[e]
        BY <1>7, <3>2 DEF SameSigned
      <4> QED
        BY <4>1 DEF UndisputedInv, StepsForward
    <3> QED
      BY <3>1, <3>2
  <2>2. ASSUME NEW x \in Devices, NEW e \in Entities
        PROVE  state'[x][e].hash.ver >= Base(e).ver
    <3>1. CASE x = d /\ e \in es
      <4>1. Forward(op(e)) /\ op(e).ent = e /\ state'[d][e].hash = op(e).res
        BY <1>4, <1>8, <3>1
      <4>2. op(e).res.ver > Base(e).ver
        BY <4>1 DEF Forward
      <4>3. op(e).res.ver \in Nat /\ Base(e).ver \in Nat
        BY <1>4, <3>1 DEF Hashes, Base, Live, Absent
      <4> QED
        BY <3>1, <4>1, <4>2, <4>3
    <3>2. CASE ~(x = d /\ e \in es)
      <4>1. state'[x][e] = state[x][e]
        BY <1>8, <3>2
      <4> QED
        BY <4>1 DEF UndisputedInv, StepsForward
    <3> QED
      BY <3>1, <3>2
  <2>3. \A c \in 1..Len(log') : Forward(log'[c])
    BY <1>1 DEF UndisputedInv, StepsForward
  <2> QED
    BY <2>1, <2>2, <2>3 DEF StepsForward, Forward
<1>10. ASSUME NEW e \in es
       PROVE  OpsOf(d, e)' = OpsOf(d, e) \cup {op(e)}
  <2>1. OpsOf(d, e) = {log[c] : c \in {c \in processed[d] : log[c].ent = e}}
    BY <1>5 DEF OpsOf
  <2>2. OpsOf(d, e)' = {log[c] : c \in {c \in processed[d] : log[c].ent = e}}
                          \cup {(FirstGroup(d).ops[f])' : f \in es \cap {e}}
    BY <1>1, <1>5 DEF OpsOf
  <2>3. {(FirstGroup(d).ops[f])' : f \in es \cap {e}} = {op(e)}
    BY <1>6
  <2> QED
    BY <2>1, <2>2, <2>3
<1>11. ASSUME NEW e \in Entities \ es
       PROVE  OpsOf(d, e)' = OpsOf(d, e)
  <2>1. OpsOf(d, e) = {log[c] : c \in {c \in processed[d] : log[c].ent = e}}
    BY <1>5 DEF OpsOf
  <2>2. OpsOf(d, e)' = {log[c] : c \in {c \in processed[d] : log[c].ent = e}}
                          \cup {(FirstGroup(d).ops[f])' : f \in es \cap {e}}
    BY <1>1, <1>5 DEF OpsOf
  <2>3. {(FirstGroup(d).ops[f])' : f \in es \cap {e}} = {}
    OBVIOUS
  <2> QED
    BY <2>1, <2>2, <2>3
<1>12. ASSUME NEW e \in es, ~Disputed(d, e)
       PROVE  SeenOrOlder(d, OpsOf(d, e) \cup {op(e)})
  <2>1. SeenOrOlder(d, OpsOf(d, e))
    BY <1>3, <1>12 DEF UndisputedInv, Told
  <2>2. ASSUME NEW other \in OpsOf(d, e), other.dev # d
        PROVE  op(e).causal[other.dev] >= other.seq
    <3>1. PICK c \in processed[d] : other = log[c]
      BY <1>5, <2>2 DEF OpsOf
    <3>2. other.dev \in Devices /\ frontier[d][other.dev] \in Nat
      <4>1. c \in 1..Len(log) /\ log \in Seq(Operations)
        BY DEF TypeOK
      <4>2. log[c] \in Operations
        BY <4>1
      <4>3. other.dev \in Devices
        BY <3>1, <4>2 DEF Operations
      <4> QED
        BY <4>3 DEF TypeOK
    <3>3. other.seq \in 1..Newest(d, other.dev)
      BY <3>1, <3>2, FrontierIs DEF OrderInv
    <3>4. Newest(d, other.dev) = frontier[d][other.dev]
      BY <2>2, <3>2 DEF Newest
    <3> QED
      BY <1>4, <2>2, <3>2, <3>3, <3>4
  <2>3. op(e).dev = d
    BY <1>4
  <2> QED
    BY <2>1, <2>2, <2>3 DEF SeenOrOlder
<1>13. ASSUME NEW x \in Devices, NEW e \in Entities
       PROVE  Told(x, e)'
  <2>1. Disputed(x, e)' <=> Disputed(x, e)
    BY <1>1 DEF Disputed
  <2>2. CASE x = d /\ e \in es
    <3>1. CASE Disputed(d, e)
      BY <2>1, <2>2, <3>1 DEF Told
    <3>2. CASE ~Disputed(d, e)
      <4>1. SeenOrOlder(d, OpsOf(d, e) \cup {op(e)})
        BY <1>12, <2>2, <3>2
      <4>2. OpsOf(d, e)' = OpsOf(d, e) \cup {op(e)}
        BY <1>10, <2>2
      <4>3. /\ op(e).res \in Hashes /\ Forward(op(e)) /\ op(e).ent = e
            /\ op(e).res.ver > state[d][e].hash.ver /\ state'[d][e].hash = op(e).res
        BY <1>4, <1>8, <2>2
      <4>4. Told(d, e)'
        BY <3>2, <4>1, <4>2, <4>3, ToldGrows
      <4> QED
        BY <2>2, <4>4
    <3> QED
      BY <3>1, <3>2
  <2>3. CASE ~(x = d /\ e \in es)
    <3>1. OpsOf(x, e)' = OpsOf(x, e)
      <4>1. CASE x = d
        BY <1>11, <2>3, <4>1
      <4>2. CASE x # d
        BY <1>1, <1>7, <4>2, SameOps
      <4> QED
        BY <4>1, <4>2
    <3>2. state'[x][e] = state[x][e]
      BY <1>8, <2>3
    <3> QED
      BY <2>1, <3>1, <3>2, ToldStays DEF UndisputedInv
  <2> QED
    BY <2>2, <2>3
<1> QED
  BY <1>9, <1>13 DEF UndisputedInv

\* What a device accepts, without having asked about it, is the state it has or
\* a newer version.
LEMMA AcceptedForward ==
    ASSUME TypeOK, NEW d \in Devices, NEW op \in Operations,
           Forward(op), Accepted(d, op), Resolved(d, op) = {}
    PROVE  \/ op.res = state[d][op.ent].hash
           \/ op.res.ver > state[d][op.ent].hash.ver
<1> DEFINE was == state[d][op.ent].hash
           now == Current(d, op).hash
<1>1. op.ent \in Entities /\ op.res.ver \in Nat /\ op.pre.ver \in Nat
  BY DEF Operations, Hashes
<1>2. was.ver \in Nat
  BY <1>1 DEF TypeOK, States, Hashes
<1>3. now = was \/ was.ver = 0
  BY DEF Current, Known, Absent
<1>4. op.pre = now \/ op.res = now
  BY DEF Accepted, PreconditionMatches, ResultMatchesCurrent
<1>5. op.res.ver = op.pre.ver + 1 /\ op.res.ver > Base(op.ent).ver
  BY DEF Forward
<1>6. Base(op.ent).ver \in Nat
  BY DEF Base, Live, Absent
<1> HIDE DEF was, now
<1>7. op.res = was \/ op.res.ver > was.ver
  BY <1>1, <1>2, <1>3, <1>4, <1>5, <1>6
<1> QED
  BY <1>7 DEF was

\* Applying or refusing a group: what is accepted about an entity that was never
\* disputed is its next version; what is refused is a dispute.
LEMMA ApplyUndisputed ==
    ASSUME TypeOK, AckInv, OrderInv, UndisputedInv, NEW d \in Devices, ApplyGroup(d)
    PROVE  UndisputedInv'
<1>1. PICK first \in received[d], newest \in received[d] :
        LET group == Members(d, log[first].gid)
        IN  /\ \A c \in received[d] : first <= c
            /\ processed' = [processed EXCEPT ![d] = @ \cup group]
            /\ IF \A c \in group : Accepted(d, log[c])
               THEN AcceptGroup(d, group) ELSE RecordConflict(d, group)
  BY DEF ApplyGroup
<1> DEFINE group == Members(d, log[first].gid)
<1>2. AllComplete(d) /\ UNCHANGED <<log, outbox>>
  BY DEF ApplyGroup, serverVars
<1>3. /\ log[first].dev # d /\ group \subseteq received[d]
      /\ \A c \in group : log[c].dev = log[first].dev
  BY <1>1, <1>2, GroupFollows
<1>4. \A c \in group : log[c].gid = log[first].gid
  BY DEF Members
<1>5. /\ processed'[d] = processed[d] \cup group
      /\ \A x \in Devices \ {d} : processed'[x] = processed[x]
  BY <1>1 DEF TypeOK
<1>6. \/ (\A c \in group : Accepted(d, log[c])) /\ AcceptGroup(d, group)
      \/ RecordConflict(d, group)
  BY <1>1
<1> HIDE DEF group
<1>7. \A c \in group : /\ c \in 1..Len(log) /\ log[c] \in Operations /\ log[c].dev # d
                       /\ Forward(log[c])
  <2>1. \A c \in group : c \in 1..Len(log) /\ log[c] \in Operations
    BY <1>3 DEF TypeOK
  <2> QED
    BY <1>3, <2>1 DEF UndisputedInv, StepsForward
<1>8. \A c, k \in group : log[c].ent = log[k].ent => c = k
  <2> SUFFICES ASSUME NEW c \in group, NEW k \in group, log[c].ent = log[k].ent
               PROVE  c = k
    OBVIOUS
  <2>1. log[c].id = <<log[c].gid, log[c].ent>> /\ log[k].id = <<log[k].gid, log[k].ent>>
    BY <1>7 DEF Forward
  <2>2. log[c].id = log[k].id
    BY <1>4, <2>1
  <2> QED
    BY <1>7, <2>2 DEF AckInv, LogIdsUnique
<1>9. \A x \in Devices : SameSigned(x)
  BY <1>2 DEF SameSigned, SignedOf, FirstGroup
<1>10. \A x \in Devices : \A e : Disputed(x, e) => Disputed(x, e)'
  BY ApplyKeeps, DisputesStay
<1>11. \A x \in Devices \ {d} : state'[x] = state[x]
  BY <1>6 DEF AcceptGroup, RecordConflict, TypeOK
<1>12. ASSUME NEW e \in Entities, Writes(group, e)
       PROVE  \E c \in group : log[c].ent = e /\ OpOn(group, e) = log[c]
  BY <1>12 DEF Writes, OpOn
<1>13. ASSUME NEW e \in Entities, ~Writes(group, e)
       PROVE  state'[d][e] = state[d][e] /\ OpsOf(d, e)' = OpsOf(d, e)
  <2>1. state'[d][e] = state[d][e]
    BY <1>6, <1>13 DEF AcceptGroup, RecordConflict, StateAfter, TypeOK
  <2>2. {c \in processed'[d] : log[c].ent = e} = {c \in processed[d] : log[c].ent = e}
    BY <1>5, <1>13 DEF Writes
  <2> QED
    BY <1>2, <2>1, <2>2 DEF OpsOf, SignedOf, FirstGroup
<1>14. ASSUME NEW e \in Entities, Writes(group, e), RecordConflict(d, group)
       PROVE  state'[d][e] = state[d][e] /\ Disputed(d, e)'
  <2>1. PICK c \in group : log[c].ent = e
    BY <1>14 DEF Writes
  <2>2. conflicts'[d] = conflicts[d] \cup {ConflictRecord(d, log[k]) : k \in group}
    BY <1>14 DEF RecordConflict, TypeOK
  <2>3. ConflictRecord(d, log[c]) \in conflicts'[d] /\ ConflictRecord(d, log[c]).ent = e
    BY <2>1, <2>2 DEF ConflictRecord
  <2> QED
    BY <1>14, <2>3 DEF RecordConflict, Disputed
<1>15. ASSUME NEW e \in Entities, Writes(group, e), AcceptGroup(d, group)
       PROVE  state'[d][e].hash = OpOn(group, e).res
  <2>1. PICK c \in group : log[c].ent = e /\ OpOn(group, e) = log[c]
    BY <1>12, <1>15
  <2>2. state'[d][e] = IF ResultMatchesCurrent(d, log[c]) THEN Current(d, log[c])
                       ELSE [hash |-> log[c].res, last |-> log[c].id]
    BY <1>15, <2>1 DEF AcceptGroup, StateAfter, TypeOK
  <2> QED
    BY <2>1, <2>2 DEF ResultMatchesCurrent
<1>16. StepsForward'
  <2>1. ASSUME NEW x \in Devices, NEW e \in Entities
        PROVE  state'[x][e].hash.ver >= Base(e).ver
    <3>1. CASE state'[x][e] = state[x][e]
      BY <3>1 DEF UndisputedInv, StepsForward
    <3>2. CASE x = d /\ Writes(group, e) /\ AcceptGroup(d, group)
      <4>1. PICK c \in group : log[c].ent = e /\ OpOn(group, e) = log[c]
        BY <1>12, <3>2
      <4>2. state'[d][e].hash = log[c].res
        BY <1>15, <3>2, <4>1
      <4>3. log[c].res.ver > Base(e).ver
        BY <1>7, <4>1 DEF Forward
      <4>4. log[c].res.ver \in Nat /\ Base(e).ver \in Nat
        BY <1>7 DEF Operations, Hashes, Base, Live, Absent
      <4> QED
        BY <3>2, <4>2, <4>3, <4>4
    <3> QED
      BY <1>6, <1>11, <1>13, <1>14, <3>1, <3>2
  <2> QED
    BY <1>2, <2>1 DEF UndisputedInv, StepsForward, SignedOf, FirstGroup
<1>17. ASSUME NEW e \in Entities, Writes(group, e), AcceptGroup(d, group),
              \A c \in group : Accepted(d, log[c]), ~Disputed(d, e)
       PROVE  Told(d, e)'
  <2>1. PICK c \in group : log[c].ent = e /\ OpOn(group, e) = log[c]
    BY <1>12, <1>17
  <2> DEFINE op == log[c]
             was == state[d][e].hash
  <2>2. /\ op \in Operations /\ op.dev # d /\ Forward(op) /\ op.ent = e
        /\ op.res \in Hashes /\ op.res.ver \in Nat
    <3>1. op \in Operations /\ op.dev # d /\ Forward(op) /\ op.ent = e
      BY <1>7, <2>1
    <3> QED
      BY <3>1 DEF Operations, Hashes
  <2>3. op.res = was \/ op.res.ver > was.ver
    <3>1. Accepted(d, op) /\ Resolved(d, op) = {}
      BY <1>17, <2>2 DEF Resolved, Disputed
    <3> QED
      BY <2>2, <3>1, AcceptedForward
  <2>4. OpsOf(d, e)' = OpsOf(d, e) \cup {op}
    <3>1. {k \in processed'[d] : log[k].ent = e} = {k \in processed[d] : log[k].ent = e} \cup {c}
      BY <1>5, <1>8, <2>1
    <3>2. {log[k] : k \in {k \in processed'[d] : log[k].ent = e}}
             = {log[k] : k \in {k \in processed[d] : log[k].ent = e}} \cup {op}
      BY <3>1
    <3> QED
      BY <1>2, <3>2 DEF OpsOf, SignedOf, FirstGroup
  <2>5. state'[d][e].hash = op.res
    BY <1>15, <1>17, <2>1
  <2>6. was.ver \in Nat /\ \A o \in OpsOf(d, e) : o.res.ver \in Nat
    <3>1. was.ver \in Nat
      BY DEF TypeOK, States, Hashes
    <3> QED
      BY <3>1, OpsAre DEF UndisputedInv, Operations, Hashes
  <2>7. History(OpsOf(d, e), was, e) /\ SeenOrOlder(d, OpsOf(d, e))
    BY <1>17 DEF UndisputedInv, Told
  <2>8. \A o \in OpsOf(d, e) : o.res.ver <= was.ver
    BY <2>7 DEF History
  <2> HIDE DEF op, was
  <2>9. \A o \in OpsOf(d, e) : o.res.ver <= op.res.ver
    BY <2>2, <2>3, <2>6, <2>8
  <2>10. SeenOrOlder(d, OpsOf(d, e) \cup {op})
    BY <2>2, <2>7, <2>9 DEF SeenOrOlder
  <2> QED
    BY <1>17, <2>2, <2>3, <2>4, <2>5, <2>10, ToldGrows DEF was
<1>18. ASSUME NEW x \in Devices, NEW e \in Entities
       PROVE  Told(x, e)'
  <2>1. Disputed(x, e) => Disputed(x, e)'
    BY <1>10
  <2>2. CASE x # d
    <3>1. OpsOf(x, e)' = OpsOf(x, e)
      BY <1>2, <1>5, <1>9, <2>2, SameOps
    <3> QED
      BY <1>11, <2>1, <2>2, <3>1, ToldStays DEF UndisputedInv
  <2>3. CASE x = d /\ ~Writes(group, e)
    BY <1>13, <2>1, <2>3, ToldStays DEF UndisputedInv
  <2>4. CASE x = d /\ Writes(group, e) /\ RecordConflict(d, group)
    BY <1>14, <2>4 DEF Told
  <2>5. CASE /\ x = d /\ Writes(group, e) /\ AcceptGroup(d, group)
             /\ \A c \in group : Accepted(d, log[c])
    <3>1. CASE Disputed(d, e)
      BY <2>1, <2>5, <3>1 DEF Told
    <3>2. CASE ~Disputed(d, e)
      BY <1>17, <2>5, <3>2
    <3> QED
      BY <3>1, <3>2
  <2> QED
    BY <1>6, <2>2, <2>3, <2>4, <2>5
<1> QED
  BY <1>16, <1>18 DEF UndisputedInv

\* In every reachable state a device whose user was never asked about an entity
\* holds one history of it: the versions it processed or signed, no two different
\* ones of a number, the newest its present state.
THEOREM UndisputedInvariant == Spec => []UndisputedInv
<1>1. Init => UndisputedInv
  BY InitUndisputed
<1>2. TypeOK /\ AckInv /\ OrderInv /\ UndisputedInv /\ [Next]_vars => UndisputedInv'
  <2> SUFFICES ASSUME TypeOK, AckInv, OrderInv, UndisputedInv, [Next]_vars
               PROVE  UndisputedInv'
    OBVIOUS
  <2>1. CASE Next
    <3>1. PICK d \in Devices : SyncStep(d) \/ UserStep(d) \/ Fault(d)
      BY <2>1 DEF Next
    <3>2. CASE Pull(d) \/ GroupIncomplete(d) \/ Finish(d) \/ Interrupt(d)
      <4>1. UNCHANGED <<log, processed, state, outbox, conflicts>>
        BY <3>2 DEF Pull, GroupIncomplete, Finish, Interrupt, serverVars, deviceVars
      <4> QED
        BY <4>1, CycleUndisputed
    <3>3. CASE Prepare(d) \/ Upload(d) \/ ApplyGroup(d)
      BY <3>3, PrepareUndisputed, UploadUndisputed, ApplyUndisputed
    <3>4. CASE UserStep(d)
      BY <3>4, UserUndisputed
    <3>5. CASE UploadUnanswered(d)
      BY <3>5, UnansweredUndisputed
    <3> QED
      BY <3>1, <3>2, <3>3, <3>4, <3>5 DEF SyncStep, Fault
  <2>2. CASE UNCHANGED vars
    <3>1. UNCHANGED <<log, processed, state, outbox, conflicts>>
      BY <2>2 DEF vars, serverVars, deviceVars
    <3> QED
      BY <3>1, CycleUndisputed
  <2> QED
    BY <2>1, <2>2
<1> QED
  BY <1>1, <1>2, TypeCorrect, AckInvariant, OrderInvariant, PTL DEF Spec

\* A logged operation is one its own device knows of.
LEMMA OwnIsKnown ==
    ASSUME TypeOK, AckInv, StepsForward, NEW c \in 1..Len(log)
    PROVE  log[c] \in OpsOf(log[c].dev, log[c].ent)
<1>1. log[c].dev \in Devices
  <2>1. log[c] \in Operations
    BY DEF TypeOK
  <2> QED
    BY <2>1 DEF Operations
<1>2. CASE c \in processed[log[c].dev]
  BY <1>2 DEF OpsOf
<1>3. CASE c \notin processed[log[c].dev]
  <2>1. PICK f \in Signed(FirstGroup(log[c].dev)) : FirstGroup(log[c].dev).ops[f] = log[c]
    BY <1>1, <1>3 DEF AckInv, OwnAreUploading
  <2>2. f \in SignedOf(log[c].dev)
    BY <1>1, <1>3, <2>1 DEF SignedOf, AckInv, OwnAreUploading
  <2>3. log[c].ent = f
    BY <1>1, <2>1, <2>2 DEF StepsForward
  <2> QED
    BY <2>1, <2>2, <2>3 DEF OpsOf
<1> QED
  BY <1>2, <1>3

\* Two devices that processed the same operations on an entity, neither with a
\* conflict about it, hold the same state of it.
LEMMA SameHistory ==
    ASSUME NEW e, NEW ops, NEW now \in Hashes, NEW other \in Hashes,
           \A op \in ops : op.res \in Hashes,
           History(ops, now, e), History(ops, other, e)
    PROVE  now = other
<1>1. /\ now.ver \in Nat /\ other.ver \in Nat /\ Base(e).ver \in Nat
      /\ \A op \in ops : op.res.ver \in Nat
  BY DEF Hashes, Base, Live, Absent
<1>2. CASE now = Base(e)
  <2>1. ASSUME NEW op \in ops
        PROVE  FALSE
    <3>1. op.res.ver > Base(e).ver /\ op.res.ver <= now.ver
      BY DEF History
    <3>2. now.ver = Base(e).ver
      BY <1>2
    <3> QED
      BY <1>1, <3>1, <3>2
  <2> QED
    BY <1>2, <2>1 DEF History
<1>3. CASE now # Base(e)
  <2>1. PICK op \in ops : op.res = now
    BY <1>3 DEF History
  <2>2. other # Base(e)
    <3>1. op.res.ver > Base(e).ver /\ op.res.ver <= other.ver
      BY DEF History
    <3>2. other = Base(e) => other.ver = Base(e).ver
      OBVIOUS
    <3> QED
      BY <1>1, <3>1, <3>2
  <2>3. PICK o \in ops : o.res = other
    BY <2>2 DEF History
  <2>4. op.res.ver <= other.ver /\ o.res.ver <= now.ver
    BY DEF History
  <2>5. op.res.ver = o.res.ver
    BY <1>1, <2>1, <2>3, <2>4
  <2> QED
    BY <2>1, <2>3, <2>5 DEF History
<1> QED
  BY <1>2, <1>3

\* A device that sent and read everything knows every operation of the log.
LEMMA SettledKnows ==
    ASSUME TypeOK, AckInv, NEW d \in Devices, NEW e \in Entities, Settled(d)
    PROVE  OpsOf(d, e) = {log[c] : c \in {c \in 1..Len(log) : log[c].ent = e}}
<1>1. processed[d] = 1..Len(log)
  BY DEF TypeOK, AckInv, InboxCovers, InInbox, Settled
<1>2. SignedOf(d) = {}
  BY DEF SignedOf, Settled
<1> QED
  BY <1>1, <1>2 DEF OpsOf
-----------------------------------------------------------------------------
(* What the author of an operation had seen.                               *)

\* Every operation signed so far, in the log or waiting in an outbox.
SignedOps(d) == {FirstGroup(d).ops[e] : e \in SignedOf(d)}
AllOps == {log[c] : c \in 1..Len(log)} \cup UNION {SignedOps(d) : d \in Devices}

\* The operations d processed, or signed itself.
KnownOps(d) == {log[c] : c \in processed[d]} \cup SignedOps(d)

\* The author of op had seen other.
After(op, other) == op.causal[other.dev] >= other.seq

\* What an author has seen: nothing unsigned, its own work up to op, what
\* others had seen whose operation it saw; a group is signed at once.
SeenInTurn ==
    /\ \A op \in AllOps : /\ op.causal[op.dev] = op.seq - 1 /\ op.gid[1] = op.dev
                          /\ op.seq <= frontier[op.dev][op.dev]
                          /\ \A x \in Devices : op.causal[x] <= frontier[x][x]
    /\ \A op, other \in AllOps :
          /\ op.dev = other.dev /\ op.seq = other.seq => op = other
          /\ op.id = other.id => op = other
          /\ op.gid = other.gid => \A x \in Devices \ {op.dev} : op.causal[x] = other.causal[x]
          /\ After(op, other) => \A x \in Devices : op.causal[x] >= other.causal[x]

\* A device has seen what the authors of the operations it processed had seen,
\* and signs only while it uploads.
InboxClosed ==
    \A d \in Devices :
       /\ \A op \in KnownOps(d) : \A x \in Devices \ {d} : op.causal[x] <= frontier[d][x]
       /\ SignedOf(d) # {} => phase[d] = "upload"

SeenInv == SeenInTurn /\ InboxClosed

\* What a device knows is signed, and well-formed.
LEMMA KnownAre ==
    ASSUME TypeOK
    PROVE  /\ AllOps \subseteq Operations
           /\ \A d \in Devices : SignedOps(d) \subseteq AllOps /\ KnownOps(d) \subseteq AllOps
<1>1. \A c \in 1..Len(log) : log[c] \in Operations
  BY DEF TypeOK
<1>2. ASSUME NEW d \in Devices, NEW e \in SignedOf(d)
      PROVE  FirstGroup(d).ops[e] \in Operations
  <2>1. outbox[d] # <<>> /\ e \in Signed(FirstGroup(d))
    BY <1>2 DEF SignedOf
  <2>2. FirstGroup(d) \in Groups
    BY <2>1 DEF TypeOK, FirstGroup
  <2> QED
    BY <2>1, <2>2 DEF Signed, Groups
<1>3. \A d \in Devices : processed[d] \subseteq 1..Len(log)
  BY DEF TypeOK
<1>4. \A d \in Devices : SignedOps(d) \subseteq Operations
  BY <1>2 DEF SignedOps
<1>5. \A d \in Devices : SignedOps(d) \subseteq AllOps
  BY DEF AllOps
<1>6. \A d \in Devices : {log[c] : c \in processed[d]} \subseteq AllOps
  BY <1>3 DEF AllOps
<1> QED
  BY <1>1, <1>4, <1>5, <1>6 DEF AllOps, KnownOps

\* The numbers an operation carries.
LEMMA OpNumbers ==
    ASSUME NEW op \in Operations
    PROVE  /\ op.dev \in Devices /\ op.seq \in Nat /\ op.res \in Hashes /\ op.res.ver \in Nat
           /\ \A x \in Devices : op.causal[x] \in Nat
BY DEF Operations, Hashes

\* SeenInv where nothing is signed, and devices process nothing.
LEMMA SeenUnchanged ==
    ASSUME SeenInv, AllOps' = AllOps, UNCHANGED frontier,
           \A x \in Devices : KnownOps(x)' = KnownOps(x),
           \A x \in Devices : SignedOf(x)' # {} => phase'[x] = "upload"
    PROVE  SeenInv'
<1>1. SeenInTurn'
  BY DEF SeenInv, SeenInTurn, After
<1>2. InboxClosed'
  BY DEF SeenInv, InboxClosed
<1> QED
  BY <1>1, <1>2 DEF SeenInv

\* The same signed operations, log and inboxes are the same operations.
LEMMA SameSignedOps ==
    ASSUME NEW d, SameSigned(d)
    PROVE  SignedOps(d)' = SignedOps(d)
BY DEF SameSigned, SignedOps

\* The same log and inboxes, too: every device knows what it knew.
LEMMA SameKnown ==
    ASSUME UNCHANGED <<log, processed>>, \A x \in Devices : SameSigned(x)
    PROVE  AllOps' = AllOps /\ \A x \in Devices : KnownOps(x)' = KnownOps(x)
<1>1. \A x \in Devices : SignedOps(x)' = SignedOps(x)
  BY SameSignedOps
<1> HIDE DEF SignedOps
<1>2. {log'[c] : c \in 1..Len(log')} = {log[c] : c \in 1..Len(log)}
  OBVIOUS
<1>3. UNION {SignedOps(x)' : x \in Devices} = UNION {SignedOps(x) : x \in Devices}
  BY <1>1
<1>4. \A x \in Devices : {log'[c] : c \in processed'[x]} = {log[c] : c \in processed[x]}
  OBVIOUS
<1> QED
  BY <1>1, <1>2, <1>3, <1>4 DEF AllOps, KnownOps

\* Nothing is signed in a bootstrapped vault.
LEMMA InitSeen == Init => SeenInv
<1> SUFFICES ASSUME Init
             PROVE  SeenInv
  OBVIOUS
<1>1. /\ log = <<>> /\ Len(log) = 0
      /\ \A d \in Devices : outbox[d] = <<>> /\ processed[d] = {}
  BY DEF Init
<1>2. \A d \in Devices : SignedOf(d) = {}
  BY <1>1 DEF SignedOf
<1>3. \A d \in Devices : SignedOps(d) = {}
  BY <1>2 DEF SignedOps
<1>4. AllOps = {}
  BY <1>1, <1>3 DEF AllOps
<1>5. \A d \in Devices : KnownOps(d) = {}
  BY <1>1, <1>3 DEF KnownOps
<1> QED
  BY <1>2, <1>4, <1>5 DEF SeenInv, SeenInTurn, InboxClosed

\* Users' steps, pulls and the end of a cycle.
LEMMA QuietSeen ==
    ASSUME TypeOK, SeenInv, NEW d \in Devices,
           UserStep(d) \/ Pull(d) \/ GroupIncomplete(d) \/ Finish(d) \/ Interrupt(d)
    PROVE  SeenInv'
<1>1. UNCHANGED <<log, processed, frontier>> /\ \A x \in Devices : SameSigned(x)
  <2>1. CASE UserStep(d)
    <3>1. \E edits \in [Entities -> Edits \cup {None}], at \in 1..(Len(outbox[d]) + 1) :
             Enqueue(d, edits, at)
      BY <2>1, UserEnqueues
    <3> QED
      BY <2>1, <3>1, UserEnqueues, EnqueueSigns
  <2>2. CASE Pull(d) \/ GroupIncomplete(d) \/ Finish(d) \/ Interrupt(d)
    <3>1. UNCHANGED <<log, processed, frontier, outbox>>
      BY <2>2 DEF Pull, GroupIncomplete, Finish, Interrupt, serverVars, deviceVars
    <3> QED
      BY <3>1 DEF SameSigned, SignedOf, FirstGroup
  <2> QED
    BY <2>1, <2>2
<1>2. \A x \in Devices : SignedOf(x)' = SignedOf(x)
  BY <1>1 DEF SameSigned
<1>3. \A x \in Devices : SignedOf(x) # {} => phase[x] = "upload"
  BY DEF SeenInv, InboxClosed
<1>4. \A x \in Devices : SignedOf(x) # {} => phase'[x] = "upload"
  <2>1. CASE UserStep(d)
    BY <1>3, <2>1 DEF UserStep, LocalEdit, Resolve
  <2>2. CASE Pull(d)
    <3>1. outbox[d] = <<>> \/ phase[d] # "upload"
      BY <2>2 DEF Pull, Pulling
    <3>2. SignedOf(d) = {}
      BY <1>3, <3>1 DEF SignedOf
    <3>3. \A x \in Devices \ {d} : phase'[x] = phase[x]
      BY <2>2 DEF Pull, TypeOK
    <3> QED
      BY <1>3, <3>2, <3>3
  <2>3. CASE GroupIncomplete(d) \/ Finish(d) \/ Interrupt(d)
    <3>1. \A x \in Devices : phase'[x] = phase[x] \/ phase'[x] = "upload"
      BY <2>3 DEF GroupIncomplete, Finish, Interrupt, TypeOK
    <3> QED
      BY <1>3, <3>1
  <2> QED
    BY <2>1, <2>2, <2>3
<1>5. AllOps' = AllOps /\ \A x \in Devices : KnownOps(x)' = KnownOps(x)
  BY <1>1, SameKnown
<1> QED
  BY <1>1, <1>2, <1>4, <1>5, SeenUnchanged

\* What the service logs was signed before.
LEMMA LoggedWasSigned ==
    ASSUME TypeOK, AckInv, OrderInv, StepsForward, NEW d \in Devices, outbox[d] # <<>>,
           NEW e \in Entities, Sends(d, e), Accepts(FirstGroup(d).ops[e]),
           log' = LogAfter(FirstGroup(d).ops[e])
    PROVE  {log'[c] : c \in 1..Len(log')} \cup {FirstGroup(d).ops[e]}
              = {log[c] : c \in 1..Len(log)} \cup {FirstGroup(d).ops[e]}
<1> DEFINE op == FirstGroup(d).ops[e]
<1>1. op \in Operations
  BY SentOp
<1>2. /\ Len(log) \in Nat /\ Len(log') \in Nat /\ Len(log) <= Len(log')
      /\ \A c \in 1..Len(log) : log'[c] = log[c]
      /\ log'[CursorOf(op)] = op
      /\ \A c \in 1..Len(log') : c \in 1..Len(log) \/ c = CursorOf(op)
  BY <1>1, UploadLog
<1> HIDE DEF op
<1>3. 1..Len(log) \subseteq 1..Len(log')
  BY <1>2
<1>4. \A c \in 1..Len(log') : log'[c] \in {log[k] : k \in 1..Len(log)} \cup {op}
  BY <1>2
<1>5. \A c \in 1..Len(log) : log[c] \in {log'[k] : k \in 1..Len(log')}
  BY <1>2, <1>3
<1> QED
  BY <1>4, <1>5 DEF op

\* A lost answer: the operation is logged, and still signed.
LEMMA UnansweredSame ==
    ASSUME TypeOK, AckInv, OrderInv, StepsForward, NEW d \in Devices, UploadUnanswered(d)
    PROVE  AllOps' = AllOps /\ \A x \in Devices : KnownOps(x)' = KnownOps(x)
<1>1. UNCHANGED <<processed, outbox>> /\ outbox[d] # <<>>
  BY DEF UploadUnanswered, deviceVars, Uploading
<1>2. PICK e \in Entities : Sends(d, e) /\ Accepts(FirstGroup(d).ops[e])
                               /\ log' = LogAfter(FirstGroup(d).ops[e])
  BY DEF UploadUnanswered
<1>3. /\ \A c \in 1..Len(log) : log'[c] = log[c]
      /\ e \in SignedOf(d)
  BY <1>1, <1>2, UploadForward
<1>4. {log'[c] : c \in 1..Len(log')} \cup {FirstGroup(d).ops[e]}
         = {log[c] : c \in 1..Len(log)} \cup {FirstGroup(d).ops[e]}
  BY <1>1, <1>2, LoggedWasSigned
<1>5. \A x \in Devices : SignedOps(x)' = SignedOps(x)
  BY <1>1 DEF SignedOps, SignedOf, FirstGroup
<1>6. FirstGroup(d).ops[e] \in UNION {SignedOps(x) : x \in Devices}
  BY <1>3 DEF SignedOps
<1>7. AllOps' = {log'[c] : c \in 1..Len(log')} \cup UNION {SignedOps(x) : x \in Devices}
  BY <1>5 DEF AllOps
<1>8. AllOps' = AllOps
  BY <1>4, <1>6, <1>7 DEF AllOps
<1>9. \A x \in Devices : {log'[c] : c \in processed'[x]} = {log[c] : c \in processed[x]}
  BY <1>1, <1>3 DEF TypeOK
<1> QED
  BY <1>5, <1>8, <1>9 DEF KnownOps

\* An answer: the operation its device signed is one it processed.
LEMMA UploadSame ==
    ASSUME TypeOK, AckInv, OrderInv, StepsForward, NEW d \in Devices, Upload(d)
    PROVE  AllOps' = AllOps /\ \A x \in Devices : KnownOps(x)' = KnownOps(x)
<1>1. outbox[d] # <<>>
  BY DEF Upload, Uploading
<1>2. PICK e \in Entities :
        /\ Sends(d, e) /\ Accepts(FirstGroup(d).ops[e])
        /\ log' = LogAfter(FirstGroup(d).ops[e])
        /\ processed' = [processed EXCEPT ![d] = @ \cup {CursorOf(FirstGroup(d).ops[e])}]
        /\ outbox' = [outbox EXCEPT ![d] =
                        IF Prepared([FirstGroup(d) EXCEPT !.ops[e] = None])
                        THEN [@ EXCEPT ![1] = [FirstGroup(d) EXCEPT !.ops[e] = None]]
                        ELSE Tail(@)]
  BY DEF Upload
<1> DEFINE op == FirstGroup(d).ops[e]
           cur == CursorOf(op)
<1>3. /\ \A c \in 1..Len(log) : log'[c] = log[c]
      /\ log'[cur] = op /\ e \in SignedOf(d)
  BY <1>1, <1>2, UploadForward
<1>4. {log'[c] : c \in 1..Len(log')} \cup {op} = {log[c] : c \in 1..Len(log)} \cup {op}
  BY <1>1, <1>2, LoggedWasSigned
<1>5. /\ \A x \in Devices \ {d} : SameSigned(x)
      /\ SignedOf(d)' = SignedOf(d) \ {e}
      /\ \A f \in SignedOf(d) \ {e} : (FirstGroup(d).ops[f])' = FirstGroup(d).ops[f]
  BY <1>2, UploadSigned
<1>6. /\ processed'[d] = processed[d] \cup {cur}
      /\ \A x \in Devices \ {d} : processed'[x] = processed[x]
  BY <1>2 DEF TypeOK
<1>7. cur \in 1..Len(log') /\ \A x \in Devices : processed[x] \subseteq 1..Len(log)
  <2>1. op \in Operations
    BY <1>1, <1>2, SentOp
  <2> QED
    BY <1>2, <2>1, UploadLog DEF TypeOK
<1> HIDE DEF op, cur
<1>8. \A x \in Devices \ {d} : SignedOps(x)' = SignedOps(x)
  BY <1>5, SameSignedOps
<1>9. SignedOps(d)' \cup {op} = SignedOps(d)
  <2>1. SignedOps(d)' = {(FirstGroup(d).ops[f])' : f \in SignedOf(d) \ {e}}
    BY <1>5 DEF SignedOps
  <2>2. SignedOps(d)' = {FirstGroup(d).ops[f] : f \in SignedOf(d) \ {e}}
    BY <1>5, <2>1
  <2> QED
    BY <1>3, <2>2 DEF SignedOps, op
<1>10. (UNION {SignedOps(x)' : x \in Devices}) \cup {op} = UNION {SignedOps(x) : x \in Devices}
  BY <1>8, <1>9
<1>11. op \in {log'[c] : c \in 1..Len(log')}
  BY <1>3, <1>7
<1>12. AllOps' = {log'[c] : c \in 1..Len(log')} \cup UNION {SignedOps(x)' : x \in Devices}
  BY DEF AllOps
<1>13. AllOps' = AllOps
  BY <1>4, <1>10, <1>11, <1>12 DEF AllOps
<1>14. {log'[c] : c \in processed'[d]} = {log[c] : c \in processed[d]} \cup {op}
  BY <1>3, <1>6, <1>7
<1>15. KnownOps(d)' = KnownOps(d)
  BY <1>9, <1>14 DEF KnownOps
<1>16. ASSUME NEW x \in Devices \ {d}
       PROVE  KnownOps(x)' = KnownOps(x)
  <2>1. {log'[c] : c \in processed'[x]} = {log[c] : c \in processed[x]}
    BY <1>3, <1>6, <1>7
  <2> QED
    BY <1>8, <2>1 DEF KnownOps
<1> QED
  BY <1>13, <1>15, <1>16

\* Uploads sign nothing.
LEMMA UploadsSeen ==
    ASSUME TypeOK, AckInv, OrderInv, StepsForward, SeenInv, NEW d \in Devices,
           Upload(d) \/ UploadUnanswered(d)
    PROVE  SeenInv'
<1>1. AllOps' = AllOps /\ \A x \in Devices : KnownOps(x)' = KnownOps(x)
  BY UnansweredSame, UploadSame
<1>2. UNCHANGED <<frontier, phase>>
  BY DEF Upload, UploadUnanswered, deviceVars
<1>3. \A x \in Devices : SignedOf(x)' \subseteq SignedOf(x)
  <2>1. CASE UploadUnanswered(d)
    BY <2>1 DEF UploadUnanswered, deviceVars, SignedOf, FirstGroup
  <2>2. CASE Upload(d)
    <3>1. PICK e \in Entities :
            /\ Sends(d, e)
            /\ outbox' = [outbox EXCEPT ![d] =
                            IF Prepared([FirstGroup(d) EXCEPT !.ops[e] = None])
                            THEN [@ EXCEPT ![1] = [FirstGroup(d) EXCEPT !.ops[e] = None]]
                            ELSE Tail(@)]
      BY <2>2 DEF Upload
    <3>2. (\A x \in Devices \ {d} : SameSigned(x)) /\ SignedOf(d)' = SignedOf(d) \ {e}
      BY <2>2, <3>1, UploadSigned
    <3> QED
      BY <3>2 DEF SameSigned
  <2> QED
    BY <2>1, <2>2
<1>4. \A x \in Devices : SignedOf(x)' # {} => phase'[x] = "upload"
  BY <1>2, <1>3 DEF SeenInv, InboxClosed
<1> QED
  BY <1>1, <1>2, <1>4, SeenUnchanged

\* An operation whose number a device's frontier row has reached is one it knows.
LEMMA ReachedIsKnown ==
    ASSUME TypeOK, AckInv, OrderInv, SeenInv, NEW d \in Devices, SignedOf(d) = {},
           NEW op \in AllOps, op.seq <= frontier[d][op.dev], op.seq >= 1
    PROVE  op \in KnownOps(d)
<1>1. op \in Operations /\ op.dev \in Devices /\ op.seq \in Nat
  BY KnownAre, OpNumbers
<1>2. Newest(d, op.dev) = frontier[d][op.dev] /\ frontier[d][op.dev] \in Nat
  <2>1. Cardinality({}) = 0
    BY FS_EmptySet
  <2>2. frontier[d][op.dev] \in Nat
    BY <1>1 DEF TypeOK
  <2> QED
    BY <2>1, <2>2 DEF Newest
<1>3. op.seq \in 1..Newest(d, op.dev)
  BY <1>1, <1>2
<1>4. PICK c \in processed[d] : log[c].dev = op.dev /\ log[c].seq = op.seq
  BY <1>1, <1>3, FrontierIs DEF OrderInv
<1>5. log[c] \in KnownOps(d) /\ log[c] \in AllOps
  BY KnownAre DEF KnownOps
<1> QED
  BY <1>4, <1>5 DEF SeenInv, SeenInTurn

\* No device knows of another more than that one has signed.
LEMMA FrontierBounded ==
    ASSUME TypeOK, OrderInv, SeenInv, NEW d \in Devices, NEW x \in Devices
    PROVE  frontier[d][x] <= frontier[x][x]
<1>1. frontier[d][x] \in Nat /\ frontier[x][x] \in Nat
  BY DEF TypeOK
<1>2. CASE x # d /\ frontier[d][x] >= 1
  <2>1. frontier[d][x] \in 1..Newest(d, x)
    BY <1>1, <1>2 DEF Newest
  <2>2. PICK c \in processed[d] : log[c].dev = x /\ log[c].seq = frontier[d][x]
    BY <2>1, FrontierIs DEF OrderInv
  <2>3. log[c] \in AllOps
    BY KnownAre DEF KnownOps
  <2> QED
    BY <2>2, <2>3 DEF SeenInv, SeenInTurn
<1> QED
  BY <1>1, <1>2

\* What the operations of a group just signed carry.
Fresh(d, op) ==
    /\ op \in Operations /\ op.dev = d /\ op.gid = FirstGroup(d).gid
    /\ op.seq > frontier[d][d] /\ op.seq <= frontier'[d][d]
    /\ op.causal[d] = op.seq - 1
    /\ \A x \in Devices \ {d} : op.causal[x] = frontier[d][x]

\* Prepare signs such operations, one number and one name each.
LEMMA PreparedFresh ==
    ASSUME TypeOK, NEW d \in Devices, Prepare(d)
    PROVE  LET group == FirstGroup(d)
           IN  /\ \A e \in Touched(group) : Fresh(d, PreparedOp(d, group, e))
               /\ \A e, f \in Touched(group) :
                     \/ PreparedOp(d, group, e).seq = PreparedOp(d, group, f).seq
                     \/ PreparedOp(d, group, e).id = PreparedOp(d, group, f).id
                     => e = f
<1> DEFINE group == FirstGroup(d)
           es == Touched(group)
           fr == frontier[d][d]
           n == Cardinality(es)
           op(e) == PreparedOp(d, group, e)
<1>1. group \in Groups
  <2>1. group = outbox[d][1] /\ 1 \in 1..Len(outbox[d])
    BY PrepareShape
  <2>2. outbox[d] \in Seq(Groups)
    BY DEF TypeOK
  <2> QED
    BY <2>1, <2>2
<1>2. IsFiniteSet(es) /\ es \subseteq Nat /\ fr \in Nat
  <2>1. es \subseteq Nat
    BY SyncAssumption DEF SyncAssumption, Touched
  <2>2. fr \in Nat
    BY DEF TypeOK
  <2> QED
    BY <2>1, <2>2, TouchedFinite
<1>3. /\ \A e, f \in es : e < f => Index(es, e) < Index(es, f)
      /\ \A e \in es : Index(es, e) \in 1..n
  <2> HIDE DEF es
  <2> QED
    BY <1>2, IndexOrder DEF n
<1>4. frontier'[d][d] = fr + n /\ n \in Nat
  BY PrepareShape, TouchedFinite
<1>5. \A e \in es : op(e) \in Operations
  BY <1>1, PreparedOpType
<1>6. ASSUME NEW e \in es
      PROVE  /\ op(e).dev = d /\ op(e).gid = group.gid /\ op(e).seq = fr + Index(es, e)
             /\ op(e).id = <<group.gid, e>>
             /\ op(e).causal = [frontier[d] EXCEPT ![d] = op(e).seq - 1]
  BY DEF PreparedOp
<1>7. frontier[d] \in [Devices -> Nat]
  BY DEF TypeOK
<1> HIDE DEF es, fr, n, op, group
<1>8. ASSUME NEW e \in es
      PROVE  Fresh(d, op(e))
  <2>1. /\ op(e).causal[d] = op(e).seq - 1
        /\ \A x \in Devices \ {d} : op(e).causal[x] = frontier[d][x]
    BY <1>6, <1>7
  <2>2. Index(es, e) \in 1..n /\ op(e).seq = fr + Index(es, e)
    BY <1>3, <1>6
  <2>3. op(e).seq > fr /\ op(e).seq <= fr + n
    BY <1>2, <1>4, <2>2
  <2> QED
    BY <1>4, <1>5, <1>6, <2>1, <2>3 DEF Fresh, fr, group
<1>9. ASSUME NEW e \in es, NEW f \in es, PreparedOp(d, group, e).seq = PreparedOp(d, group, f).seq
      PROVE  e = f
  <2>1. PreparedOp(d, group, e).seq = fr + Index(es, e)
    BY DEF PreparedOp, fr, es
  <2>2. PreparedOp(d, group, f).seq = fr + Index(es, f)
    BY DEF PreparedOp, fr, es
  <2>3. Index(es, e) \in Nat /\ Index(es, f) \in Nat
    BY <1>3, <1>4
  <2>4. Index(es, e) = Index(es, f)
    <3>1. fr + Index(es, e) = fr + Index(es, f)
      BY <1>9, <2>1, <2>2
    <3>2. \A k, i, j \in Nat : k + i = k + j => i = j
      OBVIOUS
    <3> QED
      BY <1>2, <2>3, <3>1, <3>2
  <2>5. e \in Nat /\ f \in Nat
    BY <1>2
  <2>6. ~(e < f) /\ ~(f < e)
    BY <1>3, <2>3, <2>4
  <2> QED
    BY <2>5, <2>6
<1>10. ASSUME NEW e \in es, NEW f \in es, PreparedOp(d, group, e).id = PreparedOp(d, group, f).id
       PROVE  e = f
  BY <1>10 DEF PreparedOp
<1> QED
  BY <1>8, <1>9, <1>10 DEF es, op, group

\* Signing a group adds its operations to what is signed and what d knows.
LEMMA PrepareAdds ==
    ASSUME TypeOK, NEW d \in Devices, Prepare(d)
    PROVE  LET group == FirstGroup(d)
               new   == {PreparedOp(d, group, e) : e \in Touched(group)}
           IN  /\ AllOps' = AllOps \cup new /\ KnownOps(d)' = KnownOps(d) \cup new
               /\ \A x \in Devices \ {d} : KnownOps(x)' = KnownOps(x) /\ SameSigned(x)
               /\ SignedOf(d) = {} /\ SignedOf(d)' = Touched(group)
               /\ \A e \in Touched(group) :
                     (FirstGroup(d).ops[e])' = PreparedOp(d, group, e)
<1> DEFINE group == FirstGroup(d)
           es == Touched(group)
           op(e) == PreparedOp(d, group, e)
           new == {op(e) : e \in es}
<1>1. UNCHANGED <<log, processed>>
  BY DEF Prepare, serverVars
<1>2. /\ outbox[d] # <<>> /\ Signed(group) = {} /\ Len(outbox'[d]) = Len(outbox[d])
      /\ 1 \in 1..Len(outbox[d])
      /\ \A x \in Devices \ {d} : outbox'[x] = outbox[x]
      /\ Signed(outbox'[d][1]) = es
      /\ \A e \in es : outbox'[d][1].ops[e] = op(e)
  BY PrepareShape
<1>3. SignedOf(d) = {} /\ SignedOf(d)' = es /\ outbox'[d] # <<>>
  <2>1. Len(outbox'[d]) # 0
    BY <1>2 DEF TypeOK
  <2>2. outbox'[d] # <<>>
    BY <2>1
  <2>3. SignedOf(d)' = Signed(outbox'[d][1])
    BY <2>2 DEF SignedOf, FirstGroup, Signed
  <2> QED
    BY <1>2, <2>2, <2>3 DEF SignedOf
<1>4. \A e \in es : (FirstGroup(d).ops[e])' = op(e)
  BY <1>2 DEF FirstGroup
<1> HIDE DEF group, es, op, new
<1>5. \A x \in Devices \ {d} : SameSigned(x)
  BY <1>2 DEF SameSigned, SignedOf, FirstGroup
<1>6. \A x \in Devices \ {d} : SignedOps(x)' = SignedOps(x)
  BY <1>5, SameSignedOps
<1>7. SignedOps(d) = {} /\ SignedOps(d)' = new
  <2>1. SignedOps(d)' = {(FirstGroup(d).ops[e])' : e \in es}
    BY <1>3 DEF SignedOps
  <2> QED
    BY <1>3, <1>4, <2>1 DEF SignedOps, new
<1>8. UNION {SignedOps(x)' : x \in Devices} = (UNION {SignedOps(x) : x \in Devices}) \cup new
  BY <1>6, <1>7
<1>9. AllOps' = {log[c] : c \in 1..Len(log)} \cup UNION {SignedOps(x)' : x \in Devices}
  BY <1>1 DEF AllOps
<1>10. AllOps' = AllOps \cup new
  BY <1>8, <1>9 DEF AllOps
<1>11. KnownOps(d)' = KnownOps(d) \cup new
  BY <1>1, <1>7 DEF KnownOps
<1>12. \A x \in Devices \ {d} : KnownOps(x)' = KnownOps(x)
  BY <1>1, <1>6 DEF KnownOps
<1> QED
  BY <1>3, <1>4, <1>5, <1>10, <1>11, <1>12 DEF new, op, es, group

\* A group that is not signed yet has no operation among the signed ones.
LEMMA UnsignedIsNew ==
    ASSUME TypeOK, AckInv, OrderInv, SeenInv, NEW d \in Devices, outbox[d] # <<>>,
           SignedOf(d) = {}, NEW op \in AllOps
    PROVE  op.gid # FirstGroup(d).gid
<1>1. FirstGroup(d) = outbox[d][1] /\ 1 \in 1..Len(outbox[d])
  BY DEF TypeOK, FirstGroup
<1>2. CASE op \in {log[c] : c \in 1..Len(log)}
  <2>1. \A c \in 1..Len(log) : log[c].gid = outbox[d][1].gid => Prepared(outbox[d][1])
    BY <1>1 DEF OrderInv, LogOfOutbox
  <2>2. ~Prepared(outbox[d][1])
    BY <1>1 DEF SignedOf, Prepared
  <2> QED
    BY <1>1, <1>2, <2>1, <2>2
<1>3. CASE op \notin {log[c] : c \in 1..Len(log)}
  <2>1. PICK x \in Devices : op \in SignedOps(x)
    BY <1>3 DEF AllOps
  <2>2. PICK e \in SignedOf(x) : op = FirstGroup(x).ops[e]
    BY <2>1 DEF SignedOps
  <2>3. outbox[x] # <<>> /\ x # d /\ FirstGroup(x) = outbox[x][1] /\ 1 \in 1..Len(outbox[x])
    <3>1. outbox[x] # <<>>
      BY <2>2 DEF SignedOf
    <3>2. x # d
      BY <2>2
    <3>3. outbox[x] \in Seq(Groups)
      BY DEF TypeOK
    <3> QED
      BY <3>1, <3>2, <3>3 DEF FirstGroup
  <2>4. op.dev = x
    BY <2>2, <2>3 DEF AckInv, SignedAreOwn, SignedOf
  <2>5. op.gid[1] = x
    BY <2>4 DEF SeenInv, SeenInTurn
  <2>6. FirstGroup(d).gid[1] = d
    BY <1>1 DEF OrderInv, OutboxFits
  <2> QED
    BY <2>3, <2>5, <2>6
<1> QED
  BY <1>2, <1>3

\* An id names the group of its operation.
LEMMA IdsNameGroups ==
    ASSUME StepsForward, NEW op \in AllOps
    PROVE  op.id = <<op.gid, op.ent>>
<1>1. CASE op \in {log[c] : c \in 1..Len(log)}
  BY <1>1 DEF StepsForward, Forward
<1>2. CASE op \notin {log[c] : c \in 1..Len(log)}
  BY <1>2 DEF AllOps, SignedOps, StepsForward, Forward
<1> QED
  BY <1>1, <1>2

\* A device signs operations that have seen what it knows.
LEMMA PrepareSeen ==
    ASSUME TypeOK, AckInv, OrderInv, StepsForward, SeenInv, NEW d \in Devices, Prepare(d)
    PROVE  SeenInv'
<1> DEFINE group == FirstGroup(d)
           new == {PreparedOp(d, group, e) : e \in Touched(group)}
           fr == frontier[d][d]
<1>1. /\ AllOps' = AllOps \cup new /\ KnownOps(d)' = KnownOps(d) \cup new
      /\ \A x \in Devices \ {d} : KnownOps(x)' = KnownOps(x) /\ SameSigned(x)
      /\ SignedOf(d) = {}
  BY PrepareAdds
<1>2. outbox[d] # <<>> /\ phase[d] = "upload" /\ phase' = phase /\ UNCHANGED <<log, processed>>
  BY DEF Prepare, Uploading, serverVars
<1>3. /\ \A op \in new : Fresh(d, op)
      /\ \A op, other \in new : op.seq = other.seq \/ op.id = other.id => op = other
  BY PreparedFresh
<1>4. /\ fr \in Nat /\ frontier'[d][d] >= fr /\ frontier'[d][d] \in Nat
      /\ \A x, y \in Devices : x # d \/ y # d => frontier'[x][y] = frontier[x][y]
  <2>1. frontier'[d][d] = fr + Cardinality(Touched(group)) /\ Cardinality(Touched(group)) \in Nat
    BY PrepareShape, TouchedFinite
  <2>2. fr \in Nat
    BY DEF TypeOK
  <2>3. \A x, y \in Devices : x # d \/ y # d => frontier'[x][y] = frontier[x][y]
    BY PrepareShape
  <2> QED
    BY <2>1, <2>2, <2>3
<1>5. \A op \in new : /\ op \in Operations /\ op.dev = d /\ op.seq > fr /\ op.seq \in Nat
                      /\ op.seq <= frontier'[d][d] /\ op.causal[d] = op.seq - 1
                      /\ op.gid = group.gid
                      /\ \A x \in Devices \ {d} : op.causal[x] = frontier[d][x]
  BY <1>3, OpNumbers DEF Fresh
<1>6. group.gid[1] = d
  <2>1. group = outbox[d][1] /\ 1 \in 1..Len(outbox[d])
    BY <1>2 DEF TypeOK, FirstGroup
  <2> QED
    BY <2>1 DEF OrderInv, OutboxFits
<1>7. \A op \in AllOps : /\ op \in Operations /\ op.seq \in Nat /\ op.dev \in Devices
                         /\ \A x \in Devices : op.causal[x] \in Nat
  BY KnownAre, OpNumbers
<1>8. \A op \in AllOps : op.gid # group.gid
  BY <1>1, <1>2, UnsignedIsNew
<1>9. \A op \in AllOps : /\ op.causal[op.dev] = op.seq - 1 /\ op.gid[1] = op.dev
                         /\ op.seq <= frontier[op.dev][op.dev]
                         /\ \A x \in Devices : op.causal[x] <= frontier[x][x]
  BY DEF SeenInv, SeenInTurn
<1>10. \A x \in Devices : frontier[d][x] <= frontier[x][x]
  BY FrontierBounded
<1>11. \A x \in Devices : frontier[x][x] \in Nat /\ frontier[d][x] \in Nat
  BY DEF TypeOK
<1> HIDE DEF group, new, fr
<1>12. ASSUME NEW op \in new, NEW x \in Devices
       PROVE  op.causal[x] <= frontier'[x][x]
  <2>1. CASE x = d
    BY <1>4, <1>5, <2>1
  <2>2. CASE x # d
    BY <1>4, <1>5, <1>10, <1>11, <2>2
  <2> QED
    BY <2>1, <2>2
<1>13. ASSUME NEW op \in AllOps, NEW x \in Devices
       PROVE  op.causal[x] <= frontier'[x][x] /\ op.seq <= frontier'[op.dev][op.dev]
  <2>1. \A y \in Devices : frontier'[y][y] >= frontier[y][y] /\ frontier'[y][y] \in Nat
    <3> TAKE y \in Devices
    <3>1. CASE y = d
      BY <1>4, <3>1 DEF fr
    <3>2. CASE y # d
      BY <1>4, <1>11, <3>2
    <3> QED
      BY <3>1, <3>2
  <2> QED
    BY <1>7, <1>9, <1>11, <2>1
\* What a new operation has seen, d knows.
<1>14. ASSUME NEW op \in new, NEW other \in AllOps, After(op, other)
       PROVE  \A x \in Devices : op.causal[x] >= other.causal[x]
  <2>1. other.seq <= frontier[d][other.dev]
    <3>1. CASE other.dev = d
      BY <1>9, <3>1
    <3>2. CASE other.dev # d
      BY <1>5, <1>7, <1>14, <3>2 DEF After
    <3> QED
      BY <3>1, <3>2
  <2>2. other.seq >= 1
    BY <1>7, <1>9
  <2>3. other \in KnownOps(d)
    BY <1>1, <2>1, <2>2, ReachedIsKnown
  <2>4. \A x \in Devices \ {d} : other.causal[x] <= frontier[d][x]
    BY <2>3 DEF SeenInv, InboxClosed
  <2>5. other.causal[d] <= fr
    BY <1>9 DEF fr
  <2>6. op.causal[d] >= fr /\ op.causal[d] \in Int
    BY <1>4, <1>5
  <2>7. op.causal[d] >= other.causal[d]
    BY <1>4, <1>7, <2>5, <2>6
  <2>8. \A x \in Devices \ {d} : op.causal[x] >= other.causal[x]
    BY <1>5, <1>7, <1>11, <2>4
  <2> QED
    BY <2>7, <2>8
<1>15. ASSUME NEW op \in AllOps, NEW other \in new
       PROVE  ~After(op, other)
  <2>1. op.causal[d] <= fr
    BY <1>9 DEF fr
  <2>2. other.dev = d /\ other.seq > fr /\ other.seq \in Nat
    BY <1>5
  <2>3. op.causal[d] \in Nat
    BY <1>7
  <2> QED
    BY <1>4, <2>1, <2>2, <2>3 DEF After
<1>16. ASSUME NEW op \in new, NEW other \in new
       PROVE  /\ \A x \in Devices \ {d} : op.causal[x] = other.causal[x]
              /\ After(op, other) => \A x \in Devices : op.causal[x] >= other.causal[x]
  <2>1. \A x \in Devices \ {d} : op.causal[x] = other.causal[x] /\ op.causal[x] \in Nat
    BY <1>5, <1>11
  <2>2. After(op, other) => op.causal[d] >= other.causal[d]
    BY <1>4, <1>5 DEF After
  <2> QED
    BY <2>1, <2>2
<1>17. ASSUME NEW op \in new, NEW other \in AllOps
       PROVE  ~(op.dev = other.dev /\ op.seq = other.seq) /\ op.gid # other.gid
  <2>1. other.dev = d => other.seq <= fr
    BY <1>9 DEF fr
  <2>2. op.dev = d /\ op.seq > fr /\ op.gid = group.gid
    BY <1>5
  <2> QED
    BY <1>4, <1>5, <1>7, <1>8, <2>1, <2>2
<1>20. ASSUME NEW op \in new, NEW other \in AllOps
       PROVE  op.id # other.id
  <2>1. other.id = <<other.gid, other.ent>>
    BY IdsNameGroups
  <2>2. \E e \in Touched(group) : op.id = <<group.gid, e>>
    <3>1. PICK e \in Touched(group) : op = PreparedOp(d, group, e)
      BY DEF new
    <3>2. op.id = <<group.gid, e>>
      BY <3>1 DEF PreparedOp
    <3> QED
      BY <3>2
  <2>3. other.gid # group.gid
    BY <1>8
  <2> QED
    BY <2>1, <2>2, <2>3
<1>18. SeenInTurn'
  <2>1. \A op \in AllOps' : /\ op.causal[op.dev] = op.seq - 1 /\ op.gid[1] = op.dev
                            /\ op.seq <= frontier'[op.dev][op.dev]
                            /\ \A x \in Devices : op.causal[x] <= frontier'[x][x]
    BY <1>1, <1>5, <1>6, <1>9, <1>12, <1>13
  <2>2. ASSUME NEW op \in AllOps', NEW other \in AllOps'
        PROVE  /\ op.dev = other.dev /\ op.seq = other.seq => op = other
               /\ op.id = other.id => op = other
               /\ op.gid = other.gid =>
                     \A x \in Devices \ {op.dev} : op.causal[x] = other.causal[x]
               /\ After(op, other) => \A x \in Devices : op.causal[x] >= other.causal[x]
    <3>1. CASE op \in AllOps /\ other \in AllOps
      BY <3>1 DEF SeenInv, SeenInTurn
    <3>2. CASE op \in new /\ other \in new
      BY <1>3, <1>5, <1>16, <3>2
    <3>3. CASE op \in new /\ other \in AllOps
      <4>1. op.id # other.id
        BY <1>20, <3>3
      <4> QED
        BY <1>14, <1>17, <3>3, <4>1
    <3>4. CASE op \in AllOps /\ other \in new
      <4>1. op.id # other.id
        BY <1>20, <3>4
      <4> QED
        BY <1>15, <1>17, <3>4, <4>1
    <3> QED
      BY <1>1, <3>1, <3>2, <3>3, <3>4
  <2> QED
    BY <2>1, <2>2 DEF SeenInTurn
<1>19. InboxClosed'
  <2>1. ASSUME NEW y \in Devices, NEW op \in KnownOps(y)', NEW x \in Devices \ {y}
        PROVE  op.causal[x] <= frontier'[y][x]
    <3>1. frontier'[y][x] = frontier[y][x]
      BY <1>4
    <3>2. CASE op \in KnownOps(y)
      BY <3>1, <3>2 DEF SeenInv, InboxClosed
    <3>3. CASE y = d /\ op \in new
      BY <1>5, <1>11, <3>1, <3>3
    <3> QED
      BY <1>1, <3>2, <3>3
  <2>2. ASSUME NEW x \in Devices, SignedOf(x)' # {}
        PROVE  phase'[x] = "upload"
    <3>1. CASE x = d
      BY <1>2, <3>1
    <3>2. CASE x # d
      <4>1. SignedOf(x) # {}
        BY <1>1, <2>2, <3>2 DEF SameSigned
      <4> QED
        BY <1>2, <4>1 DEF SeenInv, InboxClosed
    <3> QED
      BY <3>1, <3>2
  <2> QED
    BY <2>1, <2>2 DEF InboxClosed
<1> QED
  BY <1>18, <1>19 DEF SeenInv

\* What applying a group changes of what is known.
LEMMA ApplyAdds ==
    ASSUME TypeOK, AckInv, OrderInv, NEW d \in Devices, NEW first \in received[d],
           NEW newest \in received[d], \A c \in received[d] : first <= c, AllComplete(d),
           newest \in Members(d, log[first].gid),
           \A c \in Members(d, log[first].gid) : c <= newest,
           processed' = [processed EXCEPT ![d] = @ \cup Members(d, log[first].gid)],
           frontier' = [frontier EXCEPT ![d] = FrontierAfter(d, newest)],
           UNCHANGED <<log, outbox>>
    PROVE  LET group == Members(d, log[first].gid)
               s == log[first].dev
           IN  /\ AllOps' = AllOps
               /\ KnownOps(d)' = KnownOps(d) \cup {log[c] : c \in group}
               /\ \A x \in Devices \ {d} : KnownOps(x)' = KnownOps(x)
               /\ s \in Devices \ {d} /\ first \in group /\ group \subseteq received[d]
               /\ \A c \in group : c \in 1..Len(log) /\ log[c].dev = s
               /\ \A c \in group : log[c].seq <= frontier'[d][s]
               /\ frontier'[d][s] > frontier[d][s]
               /\ \A x, y \in Devices : x # d \/ y # s => frontier'[x][y] = frontier[x][y]
<1> DEFINE group == Members(d, log[first].gid)
           s == log[first].dev
           known == frontier[d][s]
<1>1. /\ s \in Devices \ {d} /\ first \in group
      /\ group \subseteq received[d] /\ IsFiniteSet(group) /\ group \subseteq Nat
      /\ \A c \in group : log[c].dev = s
      /\ \A c, k \in group : c < k => log[c].seq < log[k].seq
      /\ \A c \in group : log[c].seq \in (known + 1)..(known + Cardinality(group))
  BY GroupFollows
<1>2. \A c \in group : c \in 1..Len(log)
  BY <1>1 DEF TypeOK
<1>3. /\ processed'[d] = processed[d] \cup group
      /\ \A x \in Devices \ {d} : processed'[x] = processed[x]
  BY DEF TypeOK
<1>4. /\ frontier'[d][s] = log[newest].seq
      /\ \A x, y \in Devices : x # d \/ y # s => frontier'[x][y] = frontier[x][y]
  <2>1. log[newest].dev = s
    BY <1>1
  <2> QED
    BY <1>1, <2>1 DEF FrontierAfter, TypeOK
<1>5. known \in Nat /\ newest \in group
  BY <1>1 DEF TypeOK
<1> HIDE DEF group, s, known
<1>6. \A c \in group : log[c].seq <= log[newest].seq
  <2> TAKE c \in group
  <2>1. c \in Nat /\ newest \in Nat /\ c <= newest
    BY <1>1, <1>5 DEF group
  <2>2. log[c].seq \in Int /\ log[newest].seq \in Int
    BY <1>1, <1>5
  <2>3. CASE c = newest
    BY <2>2, <2>3
  <2>4. CASE c < newest
    BY <1>1, <1>5, <2>2, <2>4
  <2> QED
    BY <2>1, <2>3, <2>4
<1>7. log[newest].seq > known
  <2>1. log[newest].seq \in (known + 1)..(known + Cardinality(group))
    BY <1>1, <1>5
  <2> QED
    BY <1>5, <2>1
<1>8. \A x \in Devices : SignedOps(x)' = SignedOps(x)
  BY DEF SignedOps, SignedOf, FirstGroup
<1>9. AllOps' = AllOps
  BY <1>8 DEF AllOps
<1>10. KnownOps(d)' = KnownOps(d) \cup {log[c] : c \in group}
  <2>1. {log'[c] : c \in processed'[d]} = {log[c] : c \in processed[d]} \cup {log[c] : c \in group}
    BY <1>3
  <2> QED
    BY <1>8, <2>1 DEF KnownOps
<1>11. \A x \in Devices \ {d} : KnownOps(x)' = KnownOps(x)
  BY <1>3, <1>8 DEF KnownOps
<1> QED
  BY <1>1, <1>2, <1>4, <1>6, <1>7, <1>9, <1>10, <1>11 DEF group, s, known

\* What the author of the first group received had seen of a third device, its
\* receiver knows.
LEMMA FirstIsProven ==
    ASSUME TypeOK, AckInv, OrderInv, NEW d \in Devices, NEW first \in received[d],
           \A c \in received[d] : first <= c, NEW x \in Devices, x # d
    PROVE  log[first].causal[x] <= frontier[d][x]
<1>1. first \in 1..Len(log) /\ log[first] \in Operations /\ first \in 1..lastCursor[d]
      /\ lastCursor[d] \in Nat /\ frontier[d][x] \in Nat
  <2>1. first \in 1..Len(log) /\ lastCursor[d] \in 0..Len(log) /\ frontier[d][x] \in Nat
    BY DEF TypeOK
  <2>2. log[first] \in Operations
    BY <2>1 DEF TypeOK
  <2>3. first \in 1..lastCursor[d]
    BY DEF OrderInv, ReceivedBehind
  <2> QED
    BY <2>1, <2>2, <2>3
<1>2. log[first].causal[x] \in Nat
  BY <1>1, OpNumbers
<1>3. CASE log[first].causal[x] > 0
  <2>1. PICK k \in 1..(first - 1) : log[k].dev = x /\ log[k].seq = log[first].causal[x]
    BY <1>1, <1>3 DEF OrderInv, CausalKnown
  <2>2. k \in 1..lastCursor[d]
    BY <1>1, <2>1
  <2>3. k \in received[d] \cup processed[d]
    BY <2>2 DEF AckInv, InboxCovers, InInbox
  <2>4. k \in processed[d]
    <3>1. ~(first <= k)
      BY <1>1, <2>1
    <3> QED
      BY <2>3, <3>1
  <2>5. log[first].causal[x] \in 1..Newest(d, x)
    BY <2>1, <2>4, FrontierIs DEF OrderInv
  <2>6. Newest(d, x) = frontier[d][x]
    BY <1>1 DEF Newest
  <2> QED
    BY <1>1, <1>2, <2>5, <2>6
<1> QED
  BY <1>1, <1>2, <1>3

\* A device applies operations whose authors had seen no more than it has.
LEMMA ApplySeen ==
    ASSUME TypeOK, AckInv, OrderInv, SeenInv, NEW d \in Devices, ApplyGroup(d)
    PROVE  SeenInv'
<1>1. PICK first \in received[d], newest \in received[d] :
        /\ \A c \in received[d] : first <= c
        /\ newest \in Members(d, log[first].gid)
        /\ \A c \in Members(d, log[first].gid) : c <= newest
        /\ processed' = [processed EXCEPT ![d] = @ \cup Members(d, log[first].gid)]
        /\ frontier' = [frontier EXCEPT ![d] = FrontierAfter(d, newest)]
  BY DEF ApplyGroup
<1>2. AllComplete(d) /\ UNCHANGED <<log, outbox, phase>>
  BY DEF ApplyGroup, serverVars
<1> DEFINE group == Members(d, log[first].gid)
           s == log[first].dev
<1>3. /\ AllOps' = AllOps
      /\ KnownOps(d)' = KnownOps(d) \cup {log[c] : c \in group}
      /\ \A x \in Devices \ {d} : KnownOps(x)' = KnownOps(x)
      /\ s \in Devices \ {d} /\ first \in group /\ group \subseteq received[d]
      /\ \A c \in group : c \in 1..Len(log) /\ log[c].dev = s
      /\ \A c \in group : log[c].seq <= frontier'[d][s]
      /\ frontier'[d][s] > frontier[d][s]
      /\ \A x, y \in Devices : x # d \/ y # s => frontier'[x][y] = frontier[x][y]
  BY <1>1, <1>2, ApplyAdds
<1>4. \A c \in group : log[c].gid = log[first].gid
  BY DEF Members
<1>5. \A x \in Devices \ {d} : log[first].causal[x] <= frontier[d][x]
  BY <1>1, FirstIsProven
<1> HIDE DEF group, s
<1>6. \A x \in Devices : frontier'[x][x] = frontier[x][x]
  BY <1>3
<1>7. SeenInTurn'
  <2>1. \A op \in AllOps : op.dev \in Devices
    BY KnownAre, OpNumbers
  <2> QED
    BY <1>3, <1>6, <2>1 DEF SeenInv, SeenInTurn, After
<1>8. \A y, x \in Devices : frontier[y][x] <= frontier'[y][x] /\ frontier[y][x] \in Nat
                            /\ frontier'[y][x] \in Int
  <2> TAKE y, x \in Devices
  <2>1. frontier[y][x] \in Nat
    BY DEF TypeOK
  <2>2. frontier'[y][x] \in Nat
    <3>1. TypeOK'
      BY ApplyGroupType
    <3> QED
      BY <3>1 DEF TypeOK
  <2>3. CASE y = d /\ x = s
    BY <1>3, <2>1, <2>2, <2>3
  <2>4. CASE ~(y = d /\ x = s)
    BY <1>3, <2>1, <2>4
  <2> QED
    BY <2>1, <2>2, <2>3, <2>4
<1>9. ASSUME NEW c \in group, NEW x \in Devices \ {d}
      PROVE  log[c].causal[x] <= frontier'[d][x]
  <2>1. c \in 1..Len(log) /\ log[c] \in Operations /\ log[c] \in AllOps /\ log[c].dev = s
    <3>1. c \in 1..Len(log) /\ log[c].dev = s
      BY <1>3
    <3>2. log[c] \in AllOps
      BY <3>1 DEF AllOps
    <3> QED
      BY <3>1, <3>2, KnownAre
  <2>2. log[first] \in AllOps
    BY <1>3 DEF AllOps
  <2>3. log[c].seq \in Nat /\ log[c].causal[x] \in Nat
    BY <2>1, OpNumbers
  <2>4. CASE x = s
    <3>1. log[c].causal[s] = log[c].seq - 1
      BY <2>1 DEF SeenInv, SeenInTurn
    <3>2. log[c].seq <= frontier'[d][s]
      BY <1>3
    <3> QED
      BY <1>8, <2>3, <2>4, <3>1, <3>2
  <2>5. CASE x # s
    <3>1. log[c].causal[x] = log[first].causal[x]
      <4>1. log[c].gid = log[first].gid
        BY <1>4
      <4> QED
        BY <2>1, <2>2, <2>5, <4>1 DEF SeenInv, SeenInTurn
    <3>2. log[first].causal[x] <= frontier[d][x]
      BY <1>5
    <3> QED
      BY <1>8, <2>3, <3>1, <3>2
  <2> QED
    BY <2>4, <2>5
<1>10. InboxClosed'
  <2>1. ASSUME NEW y \in Devices, NEW op \in KnownOps(y)', NEW x \in Devices \ {y}
        PROVE  op.causal[x] <= frontier'[y][x]
    <3>1. CASE op \in KnownOps(y)
      <4>1. op.causal[x] <= frontier[y][x]
        BY <3>1 DEF SeenInv, InboxClosed
      <4>2. op.causal[x] \in Nat
        BY <3>1, KnownAre, OpNumbers
      <4> QED
        BY <1>8, <4>1, <4>2
    <3>2. CASE op \notin KnownOps(y)
      <4>1. y = d /\ op \in {log[c] : c \in group}
        BY <1>3, <2>1, <3>2
      <4> QED
        BY <1>9, <4>1
    <3> QED
      BY <3>1, <3>2
  <2>2. \A x \in Devices : SignedOf(x)' # {} => phase'[x] = "upload"
    BY <1>2 DEF SeenInv, InboxClosed, SignedOf, FirstGroup
  <2> QED
    BY <2>1, <2>2 DEF InboxClosed
<1> QED
  BY <1>7, <1>10 DEF SeenInv

\* In every reachable state an author has seen all that those had seen whose
\* work it saw, and its operation names exactly that in its causal frontier.
THEOREM SeenInvariant == Spec => []SeenInv
<1>1. Init => SeenInv
  BY InitSeen
<1>2. TypeOK /\ AckInv /\ OrderInv /\ UndisputedInv /\ SeenInv /\ [Next]_vars => SeenInv'
  <2> SUFFICES ASSUME TypeOK, AckInv, OrderInv, UndisputedInv, SeenInv, [Next]_vars
               PROVE  SeenInv'
    OBVIOUS
  <2>0. StepsForward
    BY DEF UndisputedInv
  <2>1. CASE Next
    <3>1. PICK d \in Devices : SyncStep(d) \/ UserStep(d) \/ Fault(d)
      BY <2>1 DEF Next
    <3>2. CASE UserStep(d) \/ Pull(d) \/ GroupIncomplete(d) \/ Finish(d) \/ Interrupt(d)
      BY <3>2, QuietSeen
    <3>3. CASE Prepare(d)
      BY <2>0, <3>3, PrepareSeen
    <3>4. CASE Upload(d) \/ UploadUnanswered(d)
      BY <2>0, <3>4, UploadsSeen
    <3>5. CASE ApplyGroup(d)
      BY <3>5, ApplySeen
    <3> QED
      BY <3>1, <3>2, <3>3, <3>4, <3>5 DEF SyncStep, Fault
  <2>2. CASE UNCHANGED vars
    <3>1. UNCHANGED <<log, processed, frontier, outbox, phase>>
      BY <2>2 DEF vars, serverVars, deviceVars
    <3>2. \A x \in Devices : SameSigned(x)
      BY <3>1 DEF SameSigned, SignedOf, FirstGroup
    <3>3. AllOps' = AllOps /\ \A x \in Devices : KnownOps(x)' = KnownOps(x)
      BY <3>1, <3>2, SameKnown
    <3>4. \A x \in Devices : SignedOf(x)' # {} => phase'[x] = "upload"
      BY <3>1, <3>2 DEF SeenInv, InboxClosed, SameSigned
    <3> QED
      BY <3>1, <3>3, <3>4, SeenUnchanged
  <2> QED
    BY <2>1, <2>2
<1> QED
  BY <1>1, <1>2, TypeCorrect, AckInvariant, OrderInvariant, UndisputedInvariant, PTL DEF Spec
-----------------------------------------------------------------------------
(* What decisions are about.                                               *)

KnownIds(d) == {op.id : op \in KnownOps(d)}

\* The edits of e that d has not signed yet.
Unsent(d, e) == {outbox[d][i].edits[e] : i \in Intents(d, e)}

\* A record names another's operation on its entity that d knows, and the operation
\* d itself had taken last; a closed one was decided by an operation d knows, or
\* by an edit it will sign.
RecordKept(d, k) ==
    /\ k.op = <<k.gid, k.ent>> /\ k.gid[1] # d /\ k.local \in KnownIds(d) \cup {None}
    /\ \E op \in KnownOps(d) : op.id = k.op /\ op.ent = k.ent
    /\ \/ k.pending
       \/ \E op \in KnownOps(d) : op.ent = k.ent /\ k.op \in op.resolves
       \/ \E edit \in Unsent(d, k.ent) : k.op \in edit.resolves
RecordsKept == \A d \in Devices : \A k \in conflicts[d] : RecordKept(d, k)

\* Who decides names operations it had seen.
NamesSeen(op) == \A id \in op.resolves : \E other \in AllOps : other.id = id /\ After(op, other)
NamesKnown ==
    /\ \A op \in AllOps : NamesSeen(op)
    /\ \A d \in Devices : \A e \in Entities :
          /\ \A edit \in Unsent(d, e) : edit.resolves \subseteq KnownIds(d)
          /\ state[d][e].last \in KnownIds(d) \cup {None}

DecisionInv == RecordsKept /\ NamesKnown

\* Nothing is decided in a bootstrapped vault.
LEMMA InitDecision == Init => DecisionInv
<1> SUFFICES ASSUME Init
             PROVE  DecisionInv
  OBVIOUS
<1>1. /\ log = <<>> /\ Len(log) = 0
      /\ \A d \in Devices : outbox[d] = <<>> /\ conflicts[d] = {}
      /\ \A d \in Devices : \A e \in Entities : state[d][e].last = None
  BY DEF Init
<1>2. \A d \in Devices : SignedOf(d) = {}
  BY <1>1 DEF SignedOf
<1>3. \A d \in Devices : SignedOps(d) = {}
  BY <1>2 DEF SignedOps
<1>4. AllOps = {}
  BY <1>1, <1>3 DEF AllOps
<1>5. \A d \in Devices : \A e \in Entities : Unsent(d, e) = {}
  <2> TAKE d \in Devices
  <2> TAKE e \in Entities
  <2>1. Intents(d, e) = {}
    BY <1>1 DEF Intents
  <2> QED
    BY <2>1 DEF Unsent
<1> QED
  BY <1>1, <1>4, <1>5 DEF DecisionInv, RecordsKept, NamesKnown

\* A record stays well-founded while its device forgets nothing.
LEMMA RecordStays ==
    ASSUME NEW d, NEW k, RecordKept(d, k), KnownOps(d) \subseteq KnownOps(d)',
           \A edit \in Unsent(d, k.ent) :
              \/ edit \in Unsent(d, k.ent)'
              \/ \E op \in KnownOps(d)' : op.ent = k.ent /\ op.resolves = edit.resolves
    PROVE  RecordKept(d, k)'
BY DEF RecordKept, KnownIds

\* Steps that sign, decide and apply nothing.
LEMMA DecisionFrame ==
    ASSUME DecisionInv, AllOps' = AllOps, UNCHANGED <<conflicts, state>>,
           \A x \in Devices : KnownOps(x)' = KnownOps(x),
           \A x \in Devices : \A e \in Entities : Unsent(x, e)' = Unsent(x, e),
           \A x \in Devices : \A k \in conflicts[x] : k.ent \in Entities
    PROVE  DecisionInv'
<1>1. RecordsKept'
  BY RecordStays DEF DecisionInv, RecordsKept
<1>2. NamesKnown'
  BY DEF DecisionInv, NamesKnown, NamesSeen, KnownIds, After
<1> QED
  BY <1>1, <1>2 DEF DecisionInv

\* Records are about entities.
LEMMA RecordEntities ==
    ASSUME TypeOK
    PROVE  \A x \in Devices : \A k \in conflicts[x] : k.ent \in Entities /\ k \in Conflicts
BY DEF TypeOK, Conflicts

\* An answered upload takes no unsigned edit out of the outbox.
LEMMA UploadUnsent ==
    ASSUME TypeOK, AckInv, OrderInv, NEW d \in Devices, Upload(d)
    PROVE  \A x \in Devices : \A e \in Entities : Unsent(x, e)' = Unsent(x, e)
<1>1. PICK e0 \in Entities :
        /\ Sends(d, e0)
        /\ outbox' = [outbox EXCEPT ![d] =
                        IF Prepared([FirstGroup(d) EXCEPT !.ops[e0] = None])
                        THEN [@ EXCEPT ![1] = [FirstGroup(d) EXCEPT !.ops[e0] = None]]
                        ELSE Tail(@)]
  BY DEF Upload
<1> DEFINE rest == [FirstGroup(d) EXCEPT !.ops[e0] = None]
           n    == Len(outbox[d])
<1>2. /\ n \in Nat /\ outbox[d] # <<>> /\ FirstGroup(d) = outbox[d][1]
      /\ FirstGroup(d) \in Groups
  BY DEF Upload, Uploading, FirstGroup, TypeOK
<1>3. Prepared(outbox[d][1])
  BY <1>1, <1>2 DEF Sends, Prepared
<1>4. /\ \A x \in Devices \ {d} : outbox'[x] = outbox[x]
      /\ \/ /\ Prepared(rest) /\ Len(outbox'[d]) = n /\ outbox'[d][1] = rest
            /\ \A i \in 2..n : outbox'[d][i] = outbox[d][i]
         \/ /\ ~Prepared(rest) /\ Len(outbox'[d]) = n - 1
            /\ \A i \in 1..(n - 1) : outbox'[d][i] = outbox[d][i + 1]
  BY <1>1, UploadShape
<1> HIDE DEF rest, n
<1>5. \A i \in 1..n : i = 1 \/ i \in 2..n
  BY <1>2
<1> SUFFICES ASSUME NEW x \in Devices, NEW e \in Entities
             PROVE  Unsent(x, e)' = Unsent(x, e)
  OBVIOUS
<1>6. CASE x # d
  <2>1. outbox'[x] = outbox[x]
    BY <1>4, <1>6
  <2> QED
    BY <2>1 DEF Unsent, Intents
<1>7. CASE x = d /\ Prepared(rest)
  <2>1. ASSUME NEW i \in Intents(d, e)
        PROVE  i \in Intents(d, e)' /\ outbox'[d][i] = outbox[d][i]
    <3>1. i \in 1..n /\ ~Prepared(outbox[d][i]) /\ e \in Touched(outbox[d][i])
      BY DEF Intents, n
    <3>2. i \in 2..n
      BY <1>3, <1>5, <3>1
    <3>3. outbox'[d][i] = outbox[d][i] /\ Len(outbox'[d]) = n
      BY <1>4, <1>7, <3>2
    <3> QED
      BY <3>1, <3>3 DEF Intents
  <2>2. ASSUME NEW i \in Intents(d, e)'
        PROVE  i \in Intents(d, e) /\ outbox'[d][i] = outbox[d][i]
    <3>1. i \in 1..Len(outbox'[d]) /\ ~Prepared(outbox'[d][i]) /\ e \in Touched(outbox'[d][i])
      BY DEF Intents
    <3>2. i \in 1..n /\ i \in 2..n
      BY <1>4, <1>5, <1>7, <3>1
    <3>3. outbox'[d][i] = outbox[d][i]
      BY <1>4, <1>7, <3>2
    <3> QED
      BY <3>1, <3>2, <3>3 DEF Intents, n
  <2> QED
    BY <1>7, <2>1, <2>2 DEF Unsent
<1>8. CASE x = d /\ ~Prepared(rest)
  <2>1. ASSUME NEW i \in Intents(d, e)
        PROVE  i - 1 \in Intents(d, e)' /\ outbox'[d][i - 1] = outbox[d][i]
    <3>1. i \in 1..n /\ ~Prepared(outbox[d][i]) /\ e \in Touched(outbox[d][i])
      BY DEF Intents, n
    <3>2. i - 1 \in 1..(n - 1) /\ i - 1 + 1 = i
      BY <1>2, <1>3, <3>1
    <3>3. outbox'[d][i - 1] = outbox[d][i] /\ Len(outbox'[d]) = n - 1
      BY <1>4, <1>8, <3>2
    <3> QED
      BY <3>1, <3>2, <3>3 DEF Intents
  <2>2. ASSUME NEW i \in Intents(d, e)'
        PROVE  i + 1 \in Intents(d, e) /\ outbox'[d][i] = outbox[d][i + 1]
    <3>1. i \in 1..(n - 1) /\ ~Prepared(outbox'[d][i]) /\ e \in Touched(outbox'[d][i])
      BY <1>4, <1>8 DEF Intents
    <3>2. outbox'[d][i] = outbox[d][i + 1] /\ i + 1 \in 1..n
      BY <1>2, <1>4, <1>8, <3>1
    <3> QED
      BY <3>1, <3>2 DEF Intents, n
  <2>3. Unsent(d, e) \subseteq Unsent(d, e)'
    BY <2>1 DEF Unsent
  <2>4. Unsent(d, e)' \subseteq Unsent(d, e)
    BY <2>2 DEF Unsent
  <2> QED
    BY <1>8, <2>3, <2>4
<1> QED
  BY <1>6, <1>7, <1>8

\* A committed group adds its edits to the unsigned ones.
LEMMA EnqueueUnsent ==
    ASSUME TypeOK, NEW d \in Devices,
           NEW edits \in [Entities -> Edits \cup {None}],
           NEW at \in 1..(Len(outbox[d]) + 1), Enqueue(d, edits, at)
    PROVE  /\ \A x \in Devices \ {d} : \A e \in Entities : Unsent(x, e)' = Unsent(x, e)
           /\ \A e \in Entities :
                 /\ Unsent(d, e) \subseteq Unsent(d, e)'
                 /\ \A edit \in Unsent(d, e)' :
                       edit \in Unsent(d, e) \/ (edit = edits[e] /\ edit # None)
                 /\ edits[e] # None => edits[e] \in Unsent(d, e)'
<1> DEFINE n == Len(outbox[d])
<1>1. /\ \A x \in Devices \ {d} : outbox'[x] = outbox[x]
      /\ Len(outbox'[d]) = n + 1
      /\ outbox'[d][at].edits = edits /\ Signed(outbox'[d][at]) = {}
      /\ \A i \in 1..(at - 1) : i \in 1..n /\ outbox'[d][i] = outbox[d][i]
      /\ \A i \in (at + 1)..(n + 1) : i - 1 \in 1..n /\ outbox'[d][i] = outbox[d][i - 1]
  <2>1. \A x \in Devices \ {d} : outbox'[x] = outbox[x]
    BY EnqueueShape
  <2>2. Len(outbox'[d]) = n + 1
    BY EnqueueShape
  <2>3. outbox'[d][at].edits = edits
    BY EnqueueShape
  <2>6. Signed(outbox'[d][at]) = {}
    BY EnqueueShape
  <2>4. \A i \in 1..(at - 1) : i \in 1..n /\ outbox'[d][i] = outbox[d][i]
    BY EnqueueShape
  <2>5. \A i \in (at + 1)..(n + 1) : i - 1 \in 1..n /\ outbox'[d][i] = outbox[d][i - 1]
    BY EnqueueShape
  <2> QED
    BY <2>1, <2>2, <2>3, <2>4, <2>5, <2>6
<1>2. n \in Nat /\ at \in 1..(n + 1)
  BY DEF TypeOK
<1> HIDE DEF n
<1>3. ASSUME NEW x \in Devices \ {d}, NEW e \in Entities
      PROVE  Unsent(x, e)' = Unsent(x, e)
  BY <1>1 DEF Unsent, Intents
<1>4. ASSUME NEW e \in Entities, NEW i \in Intents(d, e)
      PROVE  outbox[d][i].edits[e] \in Unsent(d, e)'
  <2>1. i \in 1..n /\ ~Prepared(outbox[d][i]) /\ e \in Touched(outbox[d][i])
    BY <1>4 DEF Intents, n
  <2>2. CASE i < at
    <3>1. i \in 1..(at - 1) /\ i \in 1..(n + 1)
      BY <1>2, <2>1, <2>2
    <3>2. outbox'[d][i] = outbox[d][i]
      BY <1>1, <3>1
    <3>3. i \in Intents(d, e)'
      BY <1>1, <2>1, <3>1, <3>2 DEF Intents
    <3> QED
      BY <3>2, <3>3 DEF Unsent
  <2>3. CASE i >= at
    <3> DEFINE j == i + 1
    <3>1. j \in (at + 1)..(n + 1) /\ j \in 1..(n + 1) /\ j - 1 = i
      BY <1>2, <2>1, <2>3
    <3> HIDE DEF j
    <3>2. outbox'[d][j] = outbox[d][i]
      BY <1>1, <3>1
    <3>3. j \in Intents(d, e)'
      BY <1>1, <2>1, <3>1, <3>2 DEF Intents
    <3> QED
      BY <3>2, <3>3 DEF Unsent
  <2> QED
    BY <1>2, <2>1, <2>2, <2>3
<1>5. ASSUME NEW e \in Entities, NEW i \in Intents(d, e)'
      PROVE  \/ outbox'[d][i].edits[e] \in Unsent(d, e)
             \/ outbox'[d][i].edits[e] = edits[e] /\ edits[e] # None
  <2>1. i \in 1..(n + 1) /\ ~Prepared(outbox'[d][i]) /\ e \in Touched(outbox'[d][i])
    BY <1>1, <1>5 DEF Intents
  <2>2. CASE i < at
    <3>1. i \in 1..(at - 1)
      BY <1>2, <2>1, <2>2
    <3>2. outbox'[d][i] = outbox[d][i] /\ i \in 1..n
      BY <1>1, <3>1
    <3>3. i \in Intents(d, e)
      BY <2>1, <3>2 DEF Intents, n
    <3> QED
      BY <3>2, <3>3 DEF Unsent
  <2>3. CASE i > at
    <3>1. i \in (at + 1)..(n + 1)
      BY <1>2, <2>1, <2>3
    <3>2. outbox'[d][i] = outbox[d][i - 1] /\ i - 1 \in 1..n
      BY <1>1, <3>1
    <3>3. i - 1 \in Intents(d, e)
      BY <2>1, <3>2 DEF Intents, n
    <3> QED
      BY <3>2, <3>3 DEF Unsent
  <2>4. CASE i = at
    BY <1>1, <2>1, <2>4 DEF Touched
  <2> QED
    BY <1>2, <2>1, <2>2, <2>3, <2>4
<1>6. ASSUME NEW e \in Entities, edits[e] # None
      PROVE  edits[e] \in Unsent(d, e)'
  <2>1. at \in Intents(d, e)'
    BY <1>1, <1>2, <1>6 DEF Intents, Prepared, Touched
  <2> QED
    BY <1>1, <2>1 DEF Unsent
<1> QED
  BY <1>3, <1>4, <1>5, <1>6 DEF Unsent

\* Signing takes the edits of the first group out of the unsigned ones.
LEMMA PrepareUnsent ==
    ASSUME TypeOK, NEW d \in Devices, Prepare(d)
    PROVE  /\ \A x \in Devices \ {d} : \A e \in Entities : Unsent(x, e)' = Unsent(x, e)
           /\ \A e \in Entities :
                 /\ Unsent(d, e)' \subseteq Unsent(d, e)
                 /\ \A edit \in Unsent(d, e) :
                       \/ edit \in Unsent(d, e)'
                       \/ e \in Touched(FirstGroup(d)) /\ edit = FirstGroup(d).edits[e]
           /\ \A e \in Touched(FirstGroup(d)) :
                 e \in Entities /\ FirstGroup(d).edits[e] \in Unsent(d, e)
<1> DEFINE n == Len(outbox[d])
           group == FirstGroup(d)
           es == Touched(group)
           now == outbox'[d][1]
<1>1. /\ group = outbox[d][1] /\ Signed(group) = {} /\ 1 \in 1..n /\ Len(outbox'[d]) = n
      /\ \A i \in 2..n : outbox'[d][i] = outbox[d][i]
      /\ \A x \in Devices \ {d} : outbox'[x] = outbox[x]
      /\ Touched(now) = es /\ Signed(now) = es
  BY PrepareShape
<1>2. n \in Nat /\ \A e \in es : e \in Entities
  BY DEF TypeOK, Touched
<1> HIDE DEF n, group, es, now
<1>3. \A i \in 1..n : i = 1 \/ i \in 2..n
  BY <1>2
<1>4. ASSUME NEW x \in Devices \ {d}, NEW e \in Entities
      PROVE  Unsent(x, e)' = Unsent(x, e)
  BY <1>1 DEF Unsent, Intents
<1>5. ASSUME NEW e \in Entities, NEW i \in Intents(d, e)'
      PROVE  outbox'[d][i].edits[e] \in Unsent(d, e)
  <2>1. i \in 1..n /\ ~Prepared(outbox'[d][i]) /\ e \in Touched(outbox'[d][i])
    BY <1>1, <1>5 DEF Intents
  <2>2. i # 1
    BY <1>1, <2>1 DEF Prepared, now
  <2>3. outbox'[d][i] = outbox[d][i]
    BY <1>1, <1>3, <2>1, <2>2
  <2>4. i \in Intents(d, e)
    BY <2>1, <2>3 DEF Intents, n
  <2> QED
    BY <2>3, <2>4 DEF Unsent
<1>6. ASSUME NEW e \in Entities, NEW i \in Intents(d, e)
      PROVE  \/ outbox[d][i].edits[e] \in Unsent(d, e)'
             \/ e \in es /\ outbox[d][i].edits[e] = group.edits[e]
  <2>1. i \in 1..n /\ ~Prepared(outbox[d][i]) /\ e \in Touched(outbox[d][i])
    BY <1>6 DEF Intents, n
  <2>2. CASE i = 1
    BY <1>1, <2>1, <2>2 DEF es
  <2>3. CASE i # 1
    <3>1. outbox'[d][i] = outbox[d][i]
      BY <1>1, <1>3, <2>1, <2>3
    <3>2. i \in Intents(d, e)'
      BY <1>1, <2>1, <3>1 DEF Intents
    <3> QED
      BY <3>1, <3>2 DEF Unsent
  <2> QED
    BY <2>2, <2>3
<1>7. ASSUME NEW e \in es
      PROVE  e \in Entities /\ group.edits[e] \in Unsent(d, e)
  <2>1. e \in Entities /\ ~Prepared(outbox[d][1]) /\ e \in Touched(outbox[d][1])
    BY <1>1, <1>2 DEF Prepared, es
  <2>2. 1 \in Intents(d, e)
    BY <1>1, <2>1 DEF Intents, n
  <2> QED
    BY <1>1, <2>1, <2>2 DEF Unsent
<1> QED
  BY <1>4, <1>5, <1>6, <1>7 DEF Unsent, group, es

\* What a device knows is no newer than its frontier rows say.
LEMMA KnownIsSeen ==
    ASSUME TypeOK, AckInv, OrderInv, SeenInv, NEW d \in Devices, NEW op \in KnownOps(d)
    PROVE  /\ op \in AllOps /\ op \in Operations /\ op.dev \in Devices /\ op.seq \in Nat
           /\ op.seq >= 1 /\ op.seq <= frontier[d][op.dev]
<1>1. op \in AllOps /\ op \in Operations
  BY KnownAre
<1>2. op.dev \in Devices /\ op.seq \in Nat /\ op.causal[op.dev] \in Nat
  BY <1>1, OpNumbers
<1>3. op.seq <= frontier[op.dev][op.dev] /\ op.causal[op.dev] = op.seq - 1
  BY <1>1 DEF SeenInv, SeenInTurn
<1>4. op.seq >= 1
  BY <1>2, <1>3
<1>5. op.dev # d => op.seq <= frontier[d][op.dev]
  <2> SUFFICES ASSUME op.dev # d
               PROVE  op.seq <= frontier[d][op.dev]
    OBVIOUS
  <2>1. op \notin SignedOps(d)
    <3>1. \A e \in SignedOf(d) : FirstGroup(d).ops[e].dev = d
      <4>1. outbox[d] # <<>> => FirstGroup(d) = outbox[d][1] /\ 1 \in 1..Len(outbox[d])
        BY DEF FirstGroup, TypeOK
      <4> QED
        BY <4>1 DEF AckInv, SignedAreOwn, SignedOf
    <3> QED
      BY <3>1 DEF SignedOps
  <2>2. PICK c \in processed[d] : op = log[c]
    BY <2>1 DEF KnownOps
  <2>3. op.seq \in 1..Newest(d, op.dev)
    BY <1>2, <2>2, FrontierIs DEF OrderInv
  <2>4. frontier[d][op.dev] \in Nat
    BY <1>2 DEF TypeOK
  <2>5. Newest(d, op.dev) = frontier[d][op.dev]
    BY <2>4 DEF Newest
  <2> QED
    BY <2>3, <2>4, <2>5
<1> QED
  BY <1>1, <1>2, <1>3, <1>4, <1>5

\* An operation just signed has seen whatever its device knows.
LEMMA NewSeesKnown ==
    ASSUME TypeOK, AckInv, OrderInv, SeenInv, NEW d \in Devices, NEW op, Fresh(d, op),
           NEW other \in KnownOps(d)
    PROVE  After(op, other)
<1>1. other.dev \in Devices /\ other.seq \in Nat /\ other.seq <= frontier[d][other.dev]
  BY KnownIsSeen
<1>2. op.seq > frontier[d][d] /\ op.causal[d] = op.seq - 1 /\ op.seq \in Nat
      /\ \A x \in Devices \ {d} : op.causal[x] = frontier[d][x]
  BY OpNumbers DEF Fresh
<1>3. frontier[d][other.dev] \in Nat /\ frontier[d][d] \in Nat
  BY <1>1 DEF TypeOK
<1>4. CASE other.dev = d
  BY <1>1, <1>2, <1>3, <1>4 DEF After
<1>5. CASE other.dev # d
  BY <1>1, <1>2, <1>3, <1>5 DEF After
<1> QED
  BY <1>4, <1>5

\* Committing a group that decides only what d was asked about.
LEMMA DecisionEnqueued ==
    ASSUME TypeOK, DecisionInv, NEW d \in Devices,
           NEW edits \in [Entities -> Edits \cup {None}],
           NEW at \in 1..(Len(outbox[d]) + 1), Enqueue(d, edits, at),
           UNCHANGED <<log, processed, state>>,
           \A e \in Entities : edits[e] # None => edits[e].resolves \subseteq KnownIds(d),
           \A x \in Devices \ {d} : conflicts'[x] = conflicts[x],
           \A k \in conflicts'[d] : \E was \in conflicts[d] :
              /\ k.op = was.op /\ k.gid = was.gid /\ k.ent = was.ent /\ k.local = was.local
              /\ k.pending = was.pending \/ (edits[k.ent] # None /\ k.op \in edits[k.ent].resolves)
    PROVE  DecisionInv'
<1>1. \A x \in Devices : SameSigned(x)
  BY EnqueueSigns
<1>2. AllOps' = AllOps /\ \A x \in Devices : KnownOps(x)' = KnownOps(x)
  BY <1>1, SameKnown
<1>3. /\ \A x \in Devices \ {d} : \A e \in Entities : Unsent(x, e)' = Unsent(x, e)
      /\ \A e \in Entities :
            /\ Unsent(d, e) \subseteq Unsent(d, e)'
            /\ \A edit \in Unsent(d, e)' :
                  edit \in Unsent(d, e) \/ (edit = edits[e] /\ edit # None)
            /\ edits[e] # None => edits[e] \in Unsent(d, e)'
  BY EnqueueUnsent
<1>4. \A x \in Devices : KnownIds(x)' = KnownIds(x)
  BY <1>2 DEF KnownIds
<1>5. ASSUME NEW x \in Devices \ {d}, NEW k \in conflicts'[x]
      PROVE  RecordKept(x, k)'
  <2>1. RecordKept(x, k) /\ k.ent \in Entities
    BY RecordEntities DEF DecisionInv, RecordsKept
  <2> QED
    BY <1>2, <1>3, <2>1, RecordStays
<1>6. ASSUME NEW k \in conflicts'[d]
      PROVE  RecordKept(d, k)'
  <2>1. PICK was \in conflicts[d] :
           /\ k.op = was.op /\ k.gid = was.gid /\ k.ent = was.ent /\ k.local = was.local
           /\ k.pending = was.pending \/ (edits[k.ent] # None /\ k.op \in edits[k.ent].resolves)
    OBVIOUS
  <2>2. RecordKept(d, was) /\ was.ent \in Entities
    BY RecordEntities DEF DecisionInv, RecordsKept
  <2>3. RecordKept(d, was)'
    BY <1>2, <1>3, <2>2, RecordStays
  <2>4. CASE k.pending = was.pending
    BY <2>1, <2>3, <2>4 DEF RecordKept
  <2>5. CASE edits[k.ent] # None /\ k.op \in edits[k.ent].resolves
    <3>1. edits[k.ent] \in Unsent(d, k.ent)'
      BY <1>3, <2>1, <2>2, <2>5
    <3> QED
      BY <2>1, <2>3, <2>5, <3>1 DEF RecordKept
  <2> QED
    BY <2>1, <2>4, <2>5
<1>7. NamesKnown'
  <2>1. \A op \in AllOps' : NamesSeen(op)'
    BY <1>2 DEF DecisionInv, NamesKnown, NamesSeen, After
  <2>2. ASSUME NEW x \in Devices, NEW e \in Entities
        PROVE  /\ \A edit \in Unsent(x, e)' : edit.resolves \subseteq KnownIds(x)'
               /\ state'[x][e].last \in KnownIds(x)' \cup {None}
    <3>1. /\ \A edit \in Unsent(x, e) : edit.resolves \subseteq KnownIds(x)
          /\ state[x][e].last \in KnownIds(x) \cup {None}
      BY DEF DecisionInv, NamesKnown
    <3>2. CASE x # d
      BY <1>3, <1>4, <3>1, <3>2
    <3>3. CASE x = d
      <4>1. \A edit \in Unsent(d, e)' : edit.resolves \subseteq KnownIds(d)
        BY <1>3, <3>1, <3>3
      <4> QED
        BY <1>4, <3>1, <3>3, <4>1
    <3> QED
      BY <3>2, <3>3
  <2> QED
    BY <2>1, <2>2 DEF NamesKnown
<1> QED
  BY <1>5, <1>6, <1>7 DEF DecisionInv, RecordsKept

\* An edit decides nothing.
LEMMA EditDecision ==
    ASSUME TypeOK, DecisionInv, NEW d \in Devices, LocalEdit(d)
    PROVE  DecisionInv'
<1>1. PICK es \in SUBSET Entities \ {{}} :
        \E new \in [es -> Cell] : \E at \in 1..(Len(outbox[d]) + 1) :
           Enqueue(d, [e \in Entities |->
                         IF e \in es THEN [prev |-> table[d][e], val |-> new[e],
                                           resolves |-> {}] ELSE None], at)
  BY DEF LocalEdit
<1>2. PICK new \in [es -> Cell], at \in 1..(Len(outbox[d]) + 1) :
        Enqueue(d, [e \in Entities |->
                      IF e \in es THEN [prev |-> table[d][e], val |-> new[e],
                                        resolves |-> {}] ELSE None], at)
  BY <1>1
<1> DEFINE edits == [e \in Entities |->
                       IF e \in es THEN [prev |-> table[d][e], val |-> new[e],
                                         resolves |-> {}] ELSE None]
<1>3. edits \in [Entities -> Edits \cup {None}]
  BY DEF Edits, TypeOK
<1>4. UNCHANGED <<log, processed, state, conflicts>>
  BY DEF LocalEdit, serverVars
<1>5. \A e \in Entities : edits[e] # None => edits[e].resolves \subseteq KnownIds(d)
  OBVIOUS
<1>6. Enqueue(d, edits, at)
  BY <1>2
<1> HIDE DEF edits
<1> QED
  BY <1>3, <1>4, <1>5, <1>6, DecisionEnqueued

\* A decision names the operations of the records it closes.
LEMMA ResolveDecision ==
    ASSUME TypeOK, DecisionInv, NEW d \in Devices, NEW gid, NEW keepLocal \in BOOLEAN,
           Resolve(d, gid, keepLocal)
    PROVE  DecisionInv'
<1> DEFINE group == ConflictsOf(d, gid)
           about(e) == CHOOSE c \in group : c.ent = e
           desired(e) == IF keepLocal THEN table[d][e] ELSE about(e).val
           edits == [e \in Entities |->
                       IF \E c \in group : c.ent = e
                       THEN [prev |-> table[d][e], val |-> desired(e),
                             resolves |-> {about(e).local, about(e).op} \ {None}]
                       ELSE None]
<1>1. /\ group \subseteq conflicts[d] /\ group \subseteq Conflicts
      /\ \A k \in group : k.gid = gid
  BY RecordEntities DEF ConflictsOf
<1>2. \A k \in group : /\ k.op = <<gid, k.ent>> /\ k.op \in KnownIds(d) /\ k.op # None
                       /\ k.local \in KnownIds(d) \cup {None} /\ k.ent \in Entities
  <2> TAKE k \in group
  <2>1. RecordKept(d, k)
    BY <1>1 DEF DecisionInv, RecordsKept
  <2>2. k.op \in OpIds /\ k.ent \in Entities /\ k.gid = gid
    BY <1>1 DEF Conflicts
  <2> QED
    BY <2>1, <2>2, NoneAssumption DEF NoneAssumption, RecordKept, KnownIds
<1>3. ASSUME NEW e \in Entities, \E c \in group : c.ent = e
      PROVE  about(e) \in group /\ about(e).ent = e
  BY <1>3
<1>4. ASSUME NEW e \in Entities, \E c \in group : c.ent = e
      PROVE  /\ edits[e] = [prev |-> table[d][e], val |-> desired(e),
                            resolves |-> {about(e).local, about(e).op} \ {None}]
             /\ edits[e] \in Edits /\ edits[e] # None
             /\ edits[e].resolves \subseteq KnownIds(d)
             /\ \A k \in group : k.ent = e => k.op \in edits[e].resolves
  <2>1. about(e) \in group /\ about(e).ent = e
    BY <1>3, <1>4
  <2>2. edits[e] = [prev |-> table[d][e], val |-> desired(e),
                    resolves |-> {about(e).local, about(e).op} \ {None}]
    BY <1>4
  <2> HIDE DEF edits, about, group
  <2>3. about(e) \in Conflicts
    BY <1>1, <2>1
  <2>4. desired(e) \in Cell /\ table[d][e] \in Cell
    BY <2>3 DEF Conflicts, TypeOK
  <2>5. {about(e).local, about(e).op} \ {None} \in SUBSET OpIds
    BY <2>3 DEF Conflicts
  <2>6. edits[e] \in Edits
    BY <2>2, <2>4, <2>5 DEF Edits
  <2>7. edits[e].resolves \subseteq KnownIds(d)
    <3>1. edits[e].resolves = {about(e).local, about(e).op} \ {None}
      BY <2>2
    <3>2. about(e).op \in KnownIds(d) /\ about(e).local \in KnownIds(d) \cup {None}
      BY <1>2, <2>1
    <3> QED
      BY <3>1, <3>2
  <2>8. ASSUME NEW k \in group, k.ent = e
        PROVE  k.op \in edits[e].resolves
    <3>1. k.op = <<gid, e>> /\ about(e).op = <<gid, e>> /\ about(e).op # None
      BY <1>2, <2>1, <2>8
    <3>2. edits[e].resolves = {about(e).local, about(e).op} \ {None}
      BY <2>2
    <3> QED
      BY <3>1, <3>2
  <2> QED
    BY <2>2, <2>6, <2>7, <2>8, NoneAssumption DEF NoneAssumption
<1>5. edits \in [Entities -> Edits \cup {None}]
  <2>1. ASSUME NEW e \in Entities
        PROVE  edits[e] \in Edits \cup {None}
    <3>1. CASE \E c \in group : c.ent = e
      BY <1>4, <3>1
    <3>2. CASE ~\E c \in group : c.ent = e
      BY <3>2
    <3> QED
      BY <3>1, <3>2
  <2>2. edits = [e \in Entities |-> edits[e]]
    OBVIOUS
  <2> HIDE DEF edits
  <2> QED
    BY <2>1, <2>2
<1>6. \A e \in Entities : edits[e] # None => edits[e].resolves \subseteq KnownIds(d)
  <2> TAKE e \in Entities
  <2>1. CASE \E c \in group : c.ent = e
    BY <1>4, <2>1
  <2>2. CASE ~\E c \in group : c.ent = e
    BY <2>2
  <2> QED
    BY <2>1, <2>2
<1>7. Enqueue(d, edits, Len(outbox[d]) + 1) /\ UNCHANGED <<log, processed, state>>
  BY DEF Resolve, serverVars
<1>8. Len(outbox[d]) + 1 \in 1..(Len(outbox[d]) + 1)
  BY DEF TypeOK
<1>9. /\ \A x \in Devices \ {d} : conflicts'[x] = conflicts[x]
      /\ conflicts'[d] = (conflicts[d] \ group) \cup {[c EXCEPT !.pending = FALSE] : c \in group}
  <2>1. conflicts' = [conflicts EXCEPT ![d] =
                        (@ \ group) \cup {[c EXCEPT !.pending = FALSE] : c \in group}]
    BY DEF Resolve
  <2> HIDE DEF group
  <2> QED
    BY <2>1 DEF TypeOK
<1>10. \A k \in group : edits[k.ent] # None /\ k.op \in edits[k.ent].resolves
  BY <1>2, <1>4
<1> HIDE DEF edits, group
<1>11. ASSUME NEW k \in conflicts'[d]
       PROVE  \E was \in conflicts[d] :
                 /\ k.op = was.op /\ k.gid = was.gid /\ k.ent = was.ent /\ k.local = was.local
                 /\ k.pending = was.pending
                       \/ (edits[k.ent] # None /\ k.op \in edits[k.ent].resolves)
  <2>1. CASE k \in conflicts[d]
    BY <2>1
  <2>2. CASE k \notin conflicts[d]
    <3>1. PICK was \in group : k = [was EXCEPT !.pending = FALSE]
      BY <1>9, <2>2
    <3>2. was \in Conflicts /\ was \in conflicts[d]
      BY <1>1
    <3>3. k.op = was.op /\ k.gid = was.gid /\ k.ent = was.ent /\ k.local = was.local
      BY <3>1, <3>2 DEF Conflicts
    <3> QED
      BY <1>10, <3>2, <3>3
  <2> QED
    BY <2>1, <2>2
<1> QED
  BY <1>5, <1>6, <1>7, <1>8, <1>9, <1>11, DecisionEnqueued

\* Signing turns an unsigned decision into one whose author has seen what it
\* names.
LEMMA PrepareDecision ==
    ASSUME TypeOK, AckInv, OrderInv, SeenInv, DecisionInv, NEW d \in Devices, Prepare(d)
    PROVE  DecisionInv'
<1> DEFINE group == FirstGroup(d)
           es == Touched(group)
           op(e) == PreparedOp(d, group, e)
           new == {op(e) : e \in es}
<1>1. /\ AllOps' = AllOps \cup new /\ KnownOps(d)' = KnownOps(d) \cup new
      /\ \A x \in Devices \ {d} : KnownOps(x)' = KnownOps(x)
  BY PrepareAdds
<1>2. \A e \in es : Fresh(d, op(e))
  BY PreparedFresh
<1>3. \A e \in es : op(e).ent = e /\ op(e).resolves = group.edits[e].resolves
  BY DEF PreparedOp
<1>4. /\ \A x \in Devices \ {d} : \A e \in Entities : Unsent(x, e)' = Unsent(x, e)
      /\ \A e \in Entities :
            /\ Unsent(d, e)' \subseteq Unsent(d, e)
            /\ \A edit \in Unsent(d, e) :
                  \/ edit \in Unsent(d, e)'
                  \/ e \in es /\ edit = group.edits[e]
      /\ \A e \in es : e \in Entities /\ group.edits[e] \in Unsent(d, e)
  BY PrepareUnsent
<1>5. /\ UNCHANGED conflicts
      /\ \A x \in Devices \ {d} : state'[x] = state[x]
      /\ \A e \in Entities : state'[d][e] = IF e \in es THEN [hash |-> op(e).res, last |-> op(e).id]
                                                        ELSE state[d][e]
  <2>1. state' = [state EXCEPT ![d] =
                    [e \in Entities |->
                       IF e \in es THEN [hash |-> op(e).res, last |-> op(e).id]
                                   ELSE @[e]]]
    BY DEF Prepare
  <2> HIDE DEF es, op, group
  <2> QED
    BY <2>1 DEF TypeOK, Prepare
<1> HIDE DEF group, es, op, new
<1>6. \A e \in es : op(e) \in new
  BY DEF new
<1>7. \A x \in Devices : KnownIds(x) \subseteq KnownIds(x)'
  BY <1>1 DEF KnownIds
<1>8. RecordsKept'
  <2> SUFFICES ASSUME NEW x \in Devices, NEW k \in conflicts[x]
               PROVE  RecordKept(x, k)'
    BY <1>5 DEF RecordsKept
  <2>1. RecordKept(x, k) /\ k.ent \in Entities
    BY RecordEntities DEF DecisionInv, RecordsKept
  <2>2. CASE x # d
    BY <1>1, <1>4, <2>1, <2>2, RecordStays
  <2>3. CASE x = d
    <3>1. ASSUME NEW edit \in Unsent(d, k.ent)
          PROVE  \/ edit \in Unsent(d, k.ent)'
                 \/ \E o \in KnownOps(d)' : o.ent = k.ent /\ o.resolves = edit.resolves
      <4>1. CASE edit \in Unsent(d, k.ent)'
        BY <4>1
      <4>2. CASE k.ent \in es /\ edit = group.edits[k.ent]
        <5>1. op(k.ent) \in KnownOps(d)'
          BY <1>1, <1>6, <4>2
        <5> QED
          BY <1>3, <4>2, <5>1
      <4> QED
        BY <1>4, <2>1, <4>1, <4>2
    <3>2. KnownOps(d) \subseteq KnownOps(d)'
      BY <1>1
    <3> QED
      BY <2>1, <2>3, <3>1, <3>2, RecordStays
  <2> QED
    BY <2>2, <2>3
<1>9. \A e \in es : NamesSeen(op(e))
  <2> SUFFICES ASSUME NEW e \in es, NEW id \in op(e).resolves
               PROVE  \E other \in AllOps : other.id = id /\ After(op(e), other)
    BY DEF NamesSeen
  <2>1. e \in Entities /\ group.edits[e] \in Unsent(d, e) /\ id \in group.edits[e].resolves
    BY <1>3, <1>4
  <2>2. id \in KnownIds(d)
    BY <2>1 DEF DecisionInv, NamesKnown
  <2>3. PICK other \in KnownOps(d) : other.id = id
    BY <2>2 DEF KnownIds
  <2>4. other \in AllOps
    BY KnownAre
  <2>5. Fresh(d, op(e))
    BY <1>2
  <2>6. After(op(e), other)
    BY <2>5, NewSeesKnown
  <2> QED
    BY <2>3, <2>4, <2>6
<1>10. NamesKnown'
  <2>1. ASSUME NEW o \in AllOps'
        PROVE  NamesSeen(o)'
    <3>1. NamesSeen(o)
      <4>1. CASE o \in AllOps
        BY <4>1 DEF DecisionInv, NamesKnown
      <4>2. CASE o \in new
        BY <1>9, <4>2 DEF new
      <4> QED
        BY <1>1, <4>1, <4>2
    <3> QED
      BY <1>1, <3>1 DEF NamesSeen, After
  <2>2. ASSUME NEW x \in Devices, NEW e \in Entities
        PROVE  /\ \A edit \in Unsent(x, e)' : edit.resolves \subseteq KnownIds(x)'
               /\ state'[x][e].last \in KnownIds(x)' \cup {None}
    <3>1. /\ \A edit \in Unsent(x, e) : edit.resolves \subseteq KnownIds(x)
          /\ state[x][e].last \in KnownIds(x) \cup {None}
      BY DEF DecisionInv, NamesKnown
    <3>2. \A edit \in Unsent(x, e)' : edit.resolves \subseteq KnownIds(x)'
      <4>1. Unsent(x, e)' \subseteq Unsent(x, e)
        BY <1>4
      <4> QED
        BY <1>7, <3>1, <4>1
    <3>3. state'[x][e].last \in KnownIds(x)' \cup {None}
      <4>1. CASE x = d /\ e \in es
        <5>0. state'[d][e] = [hash |-> op(e).res, last |-> op(e).id]
          BY <1>5, <4>1
        <5>1. state'[x][e].last = op(e).id
          BY <4>1, <5>0
        <5>2. op(e) \in KnownOps(d)'
          BY <1>1, <1>6, <4>1
        <5> QED
          BY <4>1, <5>1, <5>2 DEF KnownIds
      <4>2. CASE ~(x = d /\ e \in es)
        <5>1. state'[x][e] = state[x][e]
          BY <1>5, <4>2
        <5> QED
          BY <1>7, <3>1, <5>1
      <4> QED
        BY <4>1, <4>2
    <3> QED
      BY <3>2, <3>3
  <2> QED
    BY <2>1, <2>2 DEF NamesKnown
<1> QED
  BY <1>8, <1>10 DEF DecisionInv

\* An applied group closes the records it decides, a refused one adds records
\* of operations its device knows.
LEMMA ApplyDecision ==
    ASSUME TypeOK, AckInv, OrderInv, StepsForward, DecisionInv,
           NEW d \in Devices, ApplyGroup(d)
    PROVE  DecisionInv'
<1>1. PICK first \in received[d], newest \in received[d] :
        LET group == Members(d, log[first].gid)
        IN  /\ \A c \in received[d] : first <= c
            /\ newest \in group /\ \A c \in group : c <= newest
            /\ processed' = [processed EXCEPT ![d] = @ \cup group]
            /\ frontier' = [frontier EXCEPT ![d] = FrontierAfter(d, newest)]
            /\ IF \A c \in group : Accepted(d, log[c])
               THEN AcceptGroup(d, group) ELSE RecordConflict(d, group)
  BY DEF ApplyGroup
<1> DEFINE group == Members(d, log[first].gid)
<1>2. AllComplete(d) /\ UNCHANGED <<log, outbox>>
  BY DEF ApplyGroup, serverVars
<1>3. /\ AllOps' = AllOps
      /\ KnownOps(d)' = KnownOps(d) \cup {log[c] : c \in group}
      /\ \A x \in Devices \ {d} : KnownOps(x)' = KnownOps(x)
      /\ \A c \in group : c \in 1..Len(log) /\ log[c].dev # d
  <2>1. /\ log[first].dev # d
        /\ \A c \in group : c \in 1..Len(log) /\ log[c].dev = log[first].dev
    BY <1>1, <1>2, ApplyAdds
  <2>2. \A c \in group : c \in 1..Len(log) /\ log[c].dev # d
    BY <2>1
  <2> HIDE DEF group
  <2>3. /\ AllOps' = AllOps
        /\ KnownOps(d)' = KnownOps(d) \cup {log[c] : c \in group}
        /\ \A x \in Devices \ {d} : KnownOps(x)' = KnownOps(x)
    BY <1>1, <1>2, ApplyAdds DEF group
  <2> QED
    BY <2>2, <2>3
<1>4. AcceptGroup(d, group) \/ RecordConflict(d, group)
  BY <1>1
<1> HIDE DEF group
<1>5. \A c \in group : /\ log[c] \in Operations /\ log[c].id = <<log[c].gid, log[c].ent>>
                       /\ log[c].gid[1] # d
                       /\ log[c].ent \in Entities /\ log[c] \in KnownOps(d)'
                       /\ log[c].id \in KnownIds(d)'
  <2> TAKE c \in group
  <2>1. c \in 1..Len(log) /\ log[c] \in KnownOps(d)'
    BY <1>3
  <2>2. log[c] \in Operations /\ Forward(log[c])
    BY <2>1 DEF TypeOK, StepsForward
  <2>3. log[c].ent \in Entities
    BY <2>2 DEF Operations
  <2>4. log[c].gid[1] # d
    BY <1>3 DEF OrderInv, LogGroups
  <2> QED
    BY <2>1, <2>2, <2>3, <2>4 DEF Forward, KnownIds
<1>6. /\ \A x \in Devices : \A e \in Entities : Unsent(x, e)' = Unsent(x, e)
      /\ \A x \in Devices : KnownOps(x) \subseteq KnownOps(x)'
      /\ \A x \in Devices : KnownIds(x) \subseteq KnownIds(x)'
  BY <1>2, <1>3 DEF Unsent, Intents, KnownIds
<1>7. \A e \in Entities : state[d][e].last \in KnownIds(d)' \cup {None}
  BY <1>6 DEF DecisionInv, NamesKnown
<1>8. \A c \in group : Current(d, log[c]).last \in KnownIds(d)' \cup {None}
  BY <1>5, <1>7 DEF Current, Known
<1>9. /\ \A x \in Devices \ {d} : state'[x] = state[x] /\ conflicts'[x] = conflicts[x]
      /\ \A e \in Entities : state'[d][e].last \in KnownIds(d)' \cup {None}
  <2>1. CASE RecordConflict(d, group)
    BY <1>7, <2>1 DEF RecordConflict, TypeOK
  <2>2. CASE AcceptGroup(d, group)
    <3>1. /\ \A x \in Devices \ {d} : state'[x] = state[x] /\ conflicts'[x] = conflicts[x]
          /\ state'[d] = StateAfter(d, group)
      BY <2>2 DEF AcceptGroup, TypeOK
    <3>2. ASSUME NEW e \in Entities
          PROVE  StateAfter(d, group)[e].last \in KnownIds(d)' \cup {None}
      <4>1. CASE ~Writes(group, e)
        BY <1>7, <4>1 DEF StateAfter
      <4>2. CASE Writes(group, e)
        <5>1. PICK c \in group : OpOn(group, e) = log[c]
          BY <4>2 DEF Writes, OpOn
        <5>2. StateAfter(d, group)[e] = IF ResultMatchesCurrent(d, log[c]) THEN Current(d, log[c])
                                        ELSE [hash |-> log[c].res, last |-> log[c].id]
          BY <4>2, <5>1 DEF StateAfter
        <5> QED
          BY <1>5, <1>8, <5>2
      <4> QED
        BY <4>1, <4>2
    <3> QED
      BY <3>1, <3>2
  <2> QED
    BY <1>4, <2>1, <2>2
<1>10. ASSUME NEW x \in Devices, NEW k \in conflicts[x]
       PROVE  RecordKept(x, k)' /\ k.ent \in Entities
  <2>1. RecordKept(x, k) /\ k.ent \in Entities
    BY RecordEntities DEF DecisionInv, RecordsKept
  <2> QED
    BY <1>6, <2>1, RecordStays
<1>11. ASSUME NEW k \in conflicts'[d]
       PROVE  RecordKept(d, k)'
  <2>1. CASE k \in conflicts[d]
    BY <1>10, <2>1
  <2>2. CASE k \notin conflicts[d] /\ AcceptGroup(d, group)
    <3> DEFINE decided == UNION {Resolved(d, log[c]) : c \in group}
    <3>1. conflicts'[d] = (conflicts[d] \ decided)
                             \cup {[j EXCEPT !.pending = FALSE] : j \in decided}
      BY <2>2 DEF AcceptGroup, TypeOK
    <3>2. PICK was \in decided : k = [was EXCEPT !.pending = FALSE]
      BY <2>2, <3>1
    <3>3. PICK c \in group : was \in Resolved(d, log[c])
      OBVIOUS
    <3>4. /\ was \in conflicts[d] /\ was \in Conflicts /\ was.ent = log[c].ent
          /\ was.op \in log[c].resolves
      BY <3>3, RecordEntities DEF Resolved
    <3>5. RecordKept(d, was)'
      BY <1>10, <3>4
    <3>6. k.op = was.op /\ k.gid = was.gid /\ k.ent = was.ent /\ k.local = was.local
      BY <3>2, <3>4 DEF Conflicts
    <3>7. log[c] \in KnownOps(d)'
      BY <1>5
    <3> QED
      BY <3>4, <3>5, <3>6, <3>7 DEF RecordKept
  <2>3. CASE k \notin conflicts[d] /\ RecordConflict(d, group)
    <3>1. conflicts'[d] = conflicts[d] \cup {ConflictRecord(d, log[c]) : c \in group}
      BY <2>3 DEF RecordConflict, TypeOK
    <3>2. PICK c \in group : k = ConflictRecord(d, log[c])
      BY <2>3, <3>1
    <3>3. /\ k.op = log[c].id /\ k.gid = log[c].gid /\ k.ent = log[c].ent
          /\ k.local = Current(d, log[c]).last /\ k.pending
      BY <3>2 DEF ConflictRecord
    <3>4. /\ log[c].id = <<log[c].gid, log[c].ent>> /\ log[c] \in KnownOps(d)'
          /\ log[c].gid[1] # d
          /\ Current(d, log[c]).last \in KnownIds(d)' \cup {None}
      BY <1>5, <1>8
    <3> QED
      BY <3>3, <3>4 DEF RecordKept
  <2> QED
    BY <1>4, <2>1, <2>2, <2>3
<1>12. RecordsKept'
  <2>1. ASSUME NEW x \in Devices, NEW k \in conflicts'[x]
        PROVE  RecordKept(x, k)'
    <3>1. CASE x = d
      BY <1>11, <3>1
    <3>2. CASE x # d
      BY <1>9, <1>10, <3>2
    <3> QED
      BY <3>1, <3>2
  <2> QED
    BY <2>1 DEF RecordsKept
<1>13. NamesKnown'
  <2>1. \A op \in AllOps' : NamesSeen(op)'
    BY <1>3 DEF DecisionInv, NamesKnown, NamesSeen, After
  <2>2. ASSUME NEW x \in Devices, NEW e \in Entities
        PROVE  /\ \A edit \in Unsent(x, e)' : edit.resolves \subseteq KnownIds(x)'
               /\ state'[x][e].last \in KnownIds(x)' \cup {None}
    <3>1. /\ \A edit \in Unsent(x, e) : edit.resolves \subseteq KnownIds(x)
          /\ state[x][e].last \in KnownIds(x) \cup {None}
      BY DEF DecisionInv, NamesKnown
    <3>2. \A edit \in Unsent(x, e)' : edit.resolves \subseteq KnownIds(x)'
      BY <1>6, <3>1
    <3>3. CASE x = d
      BY <1>9, <3>2, <3>3
    <3>4. CASE x # d
      BY <1>6, <1>9, <3>1, <3>2, <3>4
    <3> QED
      BY <3>3, <3>4
  <2> QED
    BY <2>1, <2>2 DEF NamesKnown
<1> QED
  BY <1>12, <1>13 DEF DecisionInv

\* In every reachable state a conflict record is about another's operation its
\* device knows, a closed one was decided by an operation it knows or will sign,
\* and a decision names only operations its author had seen.
THEOREM DecisionInvariant == Spec => []DecisionInv
<1>1. Init => DecisionInv
  BY InitDecision
<1>2. TypeOK /\ AckInv /\ OrderInv /\ UndisputedInv /\ SeenInv /\ DecisionInv /\ [Next]_vars
         => DecisionInv'
  <2> SUFFICES ASSUME TypeOK, AckInv, OrderInv, UndisputedInv, SeenInv, DecisionInv,
                      [Next]_vars
               PROVE  DecisionInv'
    OBVIOUS
  <2>0. StepsForward /\ \A x \in Devices : \A k \in conflicts[x] : k.ent \in Entities
    BY RecordEntities DEF UndisputedInv
  <2>1. ASSUME UNCHANGED <<log, processed, outbox, conflicts, state>>
        PROVE  DecisionInv'
    <3>1. \A x \in Devices : SameSigned(x)
      BY <2>1 DEF SameSigned, SignedOf, FirstGroup
    <3>2. AllOps' = AllOps /\ \A x \in Devices : KnownOps(x)' = KnownOps(x)
      BY <2>1, <3>1, SameKnown
    <3>3. \A x \in Devices : \A e \in Entities : Unsent(x, e)' = Unsent(x, e)
      BY <2>1 DEF Unsent, Intents
    <3> QED
      BY <2>0, <2>1, <3>2, <3>3, DecisionFrame
  <2>2. CASE Next
    <3>1. PICK d \in Devices : SyncStep(d) \/ UserStep(d) \/ Fault(d)
      BY <2>2 DEF Next
    <3>2. CASE Pull(d) \/ GroupIncomplete(d) \/ Finish(d) \/ Interrupt(d)
      <4>1. UNCHANGED <<log, processed, outbox, conflicts, state>>
        BY <3>2 DEF Pull, GroupIncomplete, Finish, Interrupt, serverVars, deviceVars
      <4> QED
        BY <2>1, <4>1
    <3>3. CASE UserStep(d)
      BY <3>3, EditDecision, ResolveDecision DEF UserStep
    <3>4. CASE Prepare(d)
      BY <3>4, PrepareDecision
    <3>5. CASE Upload(d)
      <4>1. UNCHANGED <<conflicts, state>>
        BY <3>5 DEF Upload
      <4> QED
        BY <2>0, <3>5, <4>1, UploadSame, UploadUnsent, DecisionFrame
    <3>6. CASE UploadUnanswered(d)
      <4>1. UNCHANGED <<conflicts, state, outbox>>
        BY <3>6 DEF UploadUnanswered, deviceVars
      <4>2. \A x \in Devices : \A e \in Entities : Unsent(x, e)' = Unsent(x, e)
        BY <4>1 DEF Unsent, Intents
      <4> QED
        BY <2>0, <3>6, <4>1, <4>2, UnansweredSame, DecisionFrame
    <3>7. CASE ApplyGroup(d)
      BY <2>0, <3>7, ApplyDecision
    <3> QED
      BY <3>1, <3>2, <3>3, <3>4, <3>5, <3>6, <3>7 DEF SyncStep, Fault
  <2>3. CASE UNCHANGED vars
    <3>1. UNCHANGED <<log, processed, outbox, conflicts, state>>
      BY <2>3 DEF vars, serverVars, deviceVars
    <3> QED
      BY <2>1, <3>1
  <2> QED
    BY <2>2, <2>3
<1> QED
  BY <1>1, <1>2, TypeCorrect, AckInvariant, OrderInvariant, UndisputedInvariant,
     SeenInvariant, PTL DEF Spec
-----------------------------------------------------------------------------
(* What was decided in turn: the history of an entity since the last       *)
(* decision about it.                                                      *)

\* The operations on e that d took over, or did itself: not those its user was
\* asked about.
AskedAbout(d) == {k.op : k \in conflicts[d]}
Taken(d, e) == {op \in KnownOps(d) : op.ent = e /\ op.id \notin AskedAbout(d)}

\* Those that no decision among them replaced.
Latest(ops) == {op \in ops : \A other \in ops : other.resolves # {} =>
                                op = other \/ After(op, other)}

\* Neither author had seen the other's operation.
Apart(op, other) == ~After(op, other) /\ ~After(other, op)

\* Operations made apart do not disagree about a version, and a device's own
\* are no newer than another's that it took.
TakenApart(d, ops) ==
    \A op, other \in ops : Apart(op, other) =>
       /\ op.res.ver = other.res.ver => op.res = other.res
       /\ op.dev = d /\ other.dev # d => op.res.ver <= other.res.ver

TurnHistory(d, ops, now, e) == History(Latest(ops), now, e) /\ TakenApart(d, ops)

InTurn(d, e) == DecidedInTurn(e) => TurnHistory(d, Taken(d, e), state[d][e].hash, e)
InTurnInv == \A d \in Devices : \A e \in Entities : InTurn(d, e)

\* What d knows and took of an entity, after a step.
LEMMA InTurnBy ==
    ASSUME NEW d, NEW e, NEW ops, NEW now, Taken(d, e)' = ops, state'[d][e].hash = now,
           DecidedInTurn(e)' => TurnHistory(d, ops, now, e)
    PROVE  InTurn(d, e)'
<1>1. TurnHistory(d, ops, now, e) => TurnHistory(d, Taken(d, e), state[d][e].hash, e)'
  BY DEF TurnHistory, History, Latest, TakenApart, Apart, After
<1> QED
  BY <1>1 DEF InTurn

\* A decision out of turn stays in the log.
LEMMA TurnsGrow ==
    ASSUME NEW e, Len(log) \in Nat, Len(log') \in Nat, Len(log) <= Len(log'),
           \A c \in 1..Len(log) : log'[c] = log[c], DecidedInTurn(e)'
    PROVE  DecidedInTurn(e)
<1>1. 1..Len(log) \subseteq 1..Len(log')
  OBVIOUS
<1> QED
  BY <1>1 DEF DecidedInTurn, Sees

\* Steps that sign and apply nothing.
LEMMA InTurnFrame ==
    ASSUME InTurnInv, UNCHANGED state,
           \A x \in Devices : KnownOps(x)' = KnownOps(x),
           \A x \in Devices : AskedAbout(x)' = AskedAbout(x),
           \A e \in Entities : DecidedInTurn(e)' => DecidedInTurn(e)
    PROVE  InTurnInv'
<1> SUFFICES ASSUME NEW d \in Devices, NEW e \in Entities
             PROVE  InTurn(d, e)'
  BY DEF InTurnInv
<1>1. Taken(d, e)' = Taken(d, e)
  BY DEF Taken
<1> QED
  BY <1>1, InTurnBy DEF InTurnInv, InTurn

\* The next version, by an author who had seen every decision.
LEMMA LatestGrows ==
    ASSUME NEW ops, \A o \in ops : o.res \in Hashes, NEW op, op.res \in Hashes,
           NEW was \in Hashes, NEW e, op.res.ver > Base(e).ver,
           op.res = was \/ op.res.ver > was.ver, History(Latest(ops), was, e),
           \A o \in ops : o.resolves # {} => After(op, o)
    PROVE  /\ History(Latest(ops \cup {op}), op.res, e)
           /\ History(Latest(ops) \cup {op}, op.res, e)
<1>1. History(Latest(ops) \cup {op}, op.res, e)
  <2> DEFINE kept == Latest(ops)
  <2>1. \A o \in kept : o.res \in Hashes
    BY DEF Latest
  <2> HIDE DEF kept
  <2> QED
    BY <2>1, HistoryGrows DEF kept
<1>2. Latest(ops \cup {op}) \subseteq Latest(ops) \cup {op}
  BY DEF Latest
<1>3. op \in Latest(ops \cup {op})
  BY DEF Latest
<1> QED
  BY <1>1, <1>2, <1>3 DEF History

\* A decision replaces what its author had seen.
LEMMA DecisionReplaces ==
    ASSUME NEW ops, NEW op, op.res \in Hashes, NEW e, op.res.ver > Base(e).ver,
           op.resolves # {}, \A o \in ops : After(op, o) /\ ~After(o, op)
    PROVE  History(Latest(ops \cup {op}), op.res, e)
<1>1. Latest(ops \cup {op}) \subseteq {op}
  BY DEF Latest
<1>2. op \in Latest(ops \cup {op})
  BY DEF Latest
<1>3. Latest(ops \cup {op}) = {op}
  BY <1>1, <1>2
<1>4. op.res.ver \in Nat /\ op.res.ver <= op.res.ver
  BY DEF Hashes
<1>5. History({op}, op.res, e)
  BY <1>4 DEF History
<1> QED
  BY <1>3, <1>5

\* One more operation, whose author had seen the others.
LEMMA SeenIsNotApart ==
    ASSUME NEW d, NEW ops, TakenApart(d, ops), NEW op, \A o \in ops : After(op, o)
    PROVE  TakenApart(d, ops \cup {op})
BY DEF TakenApart, Apart

\* Another's operation, made apart only from those no decision replaced.
LEMMA ApartIsKept ==
    ASSUME NEW d, NEW ops, TakenApart(d, ops), NEW op, op.dev # d, NEW e,
           History(Latest(ops) \cup {op}, op.res, e),
           \A o \in ops : Apart(op, o) => o \in Latest(ops)
    PROVE  TakenApart(d, ops \cup {op})
<1>1. ASSUME NEW o \in ops, Apart(op, o)
      PROVE  o.res.ver <= op.res.ver /\ (o.res.ver = op.res.ver => o.res = op.res)
  BY <1>1 DEF History
<1>2. \A o \in ops : Apart(o, op) <=> Apart(op, o)
  BY DEF Apart
<1> SUFFICES ASSUME NEW o \in ops \cup {op}, NEW other \in ops \cup {op}, Apart(o, other)
             PROVE  /\ o.res.ver = other.res.ver => o.res = other.res
                    /\ o.dev = d /\ other.dev # d => o.res.ver <= other.res.ver
  BY DEF TakenApart
<1>3. CASE o \in ops /\ other \in ops
  BY <1>3 DEF TakenApart
<1>4. CASE o = op /\ other = op
  BY <1>4
<1>5. CASE o \in ops /\ other = op
  BY <1>1, <1>2, <1>5
<1>6. CASE o = op /\ other \in ops
  BY <1>1, <1>6
<1> QED
  BY <1>3, <1>4, <1>5, <1>6

\* Of two operations on e in the log, one of them a decision, one author had
\* seen the other's operation.
LEMMA TurnsAlternate ==
    ASSUME TypeOK, SeenInv, NEW e, DecidedInTurn(e),
           NEW c \in 1..Len(log), NEW k \in 1..Len(log), log[c].ent = e, log[k].ent = e,
           log[c].resolves # {}, log[c] # log[k]
    PROVE  After(log[c], log[k]) \/ After(log[k], log[c])
<1>1. CASE log[c].dev # log[k].dev
  BY <1>1 DEF DecidedInTurn, Sees, After
<1>2. CASE log[c].dev = log[k].dev
  <2>1. log[c] \in AllOps /\ log[k] \in AllOps
    BY DEF AllOps
  <2>2. log[c] \in Operations /\ log[k] \in Operations
    BY <2>1, KnownAre
  <2>3. log[c].seq # log[k].seq
    BY <1>2, <2>1 DEF SeenInv, SeenInTurn
  <2>4. /\ log[c].causal[log[c].dev] = log[c].seq - 1
        /\ log[k].causal[log[k].dev] = log[k].seq - 1
    BY <2>1 DEF SeenInv, SeenInTurn
  <2>5. log[c].seq \in Nat /\ log[k].seq \in Nat
    BY <2>2, OpNumbers
  <2> QED
    BY <1>2, <2>3, <2>4, <2>5 DEF After
<1> QED
  BY <1>1, <1>2

\* What an author had seen of an author that had seen a third.
LEMMA AfterTransitive ==
    ASSUME TypeOK, SeenInv, NEW a \in AllOps, NEW b \in AllOps, NEW c \in AllOps,
           After(a, b), After(b, c)
    PROVE  After(a, c)
<1>1. c.dev \in Devices /\ c.seq \in Nat /\ a.causal[c.dev] \in Nat /\ b.causal[c.dev] \in Nat
  BY KnownAre, OpNumbers
<1>2. a.causal[c.dev] >= b.causal[c.dev]
  BY <1>1 DEF SeenInv, SeenInTurn
<1> QED
  BY <1>1, <1>2 DEF After

\* Nobody sees an operation before it is made.
LEMMA AfterOnce ==
    ASSUME TypeOK, SeenInv, NEW a \in AllOps, NEW b \in AllOps, After(a, b)
    PROVE  ~After(b, a)
<1> SUFFICES ASSUME After(b, a)
             PROVE  FALSE
  OBVIOUS
<1>1. After(a, a)
  BY AfterTransitive
<1>2. a.causal[a.dev] = a.seq - 1
  BY DEF SeenInv, SeenInTurn
<1>3. a.seq \in Nat
  BY KnownAre, OpNumbers
<1> QED
  BY <1>1, <1>2, <1>3 DEF After

\* Signing: the new operation follows whatever its device knows.
LEMMA PrepareTurn ==
    ASSUME TypeOK, AckInv, OrderInv, StepsForward, SeenInv, DecisionInv, InTurnInv,
           NEW d \in Devices, Prepare(d)
    PROVE  InTurnInv'
<1> DEFINE group == FirstGroup(d)
           es == Touched(group)
           op(e) == PreparedOp(d, group, e)
           new == {op(e) : e \in es}
<1>1. /\ AllOps' = AllOps \cup new /\ KnownOps(d)' = KnownOps(d) \cup new
      /\ \A x \in Devices \ {d} : KnownOps(x)' = KnownOps(x)
      /\ SignedOf(d) = {}
  BY PrepareAdds
<1>2. \A e \in es : Fresh(d, op(e))
  BY PreparedFresh
<1>3. group \in Groups /\ es \subseteq Entities /\ outbox[d] # <<>>
  <2>1. group = outbox[d][1] /\ 1 \in 1..Len(outbox[d]) /\ outbox[d] # <<>>
    BY PrepareShape
  <2>2. outbox[d] \in Seq(Groups)
    BY DEF TypeOK
  <2> QED
    BY <2>1, <2>2 DEF Touched
<1>4. \A e \in es : /\ Forward(op(e)) /\ op(e).ent = e /\ op(e).dev = d
                    /\ op(e).res \in Hashes /\ op(e).res.ver > state[d][e].hash.ver
  BY <1>3, PreparedForward
<1>5. /\ UNCHANGED <<conflicts, log>>
      /\ \A x \in Devices \ {d} : state'[x] = state[x]
      /\ \A e \in Entities : e \notin es => state'[d][e] = state[d][e]
      /\ \A e \in es : state'[d][e].hash = op(e).res
  <2>1. state' = [state EXCEPT ![d] =
                    [e \in Entities |->
                       IF e \in es THEN [hash |-> op(e).res, last |-> op(e).id]
                                   ELSE @[e]]]
    BY DEF Prepare
  <2>2. UNCHANGED <<conflicts, log>>
    BY DEF Prepare, serverVars
  <2> HIDE DEF es, op, group
  <2>3. \A e \in Entities : state'[d][e] = IF e \in es
                                           THEN [hash |-> op(e).res, last |-> op(e).id]
                                           ELSE state[d][e]
    BY <2>1 DEF TypeOK
  <2>4. \A x \in Devices \ {d} : state'[x] = state[x]
    BY <2>1 DEF TypeOK
  <2>5. ASSUME NEW e \in es
        PROVE  state'[d][e].hash = op(e).res
    <3>1. state'[d][e] = [hash |-> op(e).res, last |-> op(e).id]
      BY <1>3, <2>3
    <3> QED
      BY <3>1
  <2>6. \A e \in Entities : e \notin es => state'[d][e] = state[d][e]
    BY <2>3
  <2> QED
    BY <2>2, <2>4, <2>5, <2>6
<1>6. \A e \in es : \A o \in AllOps : op(e).id # o.id
  <2> TAKE e \in es
  <2> TAKE o \in AllOps
  <2>1. op(e).id = <<group.gid, e>>
    BY DEF PreparedOp
  <2>2. o.id = <<o.gid, o.ent>> /\ o.gid # group.gid
    BY <1>1, <1>3, IdsNameGroups, UnsignedIsNew
  <2> HIDE DEF op, group
  <2> QED
    BY <2>1, <2>2
<1> HIDE DEF group, es, op, new
<1>7. AskedAbout(d) \subseteq {o.id : o \in AllOps}
  <2> SUFFICES ASSUME NEW k \in conflicts[d]
               PROVE  \E o \in AllOps : o.id = k.op
    BY DEF AskedAbout
  <2>1. RecordKept(d, k)
    BY DEF DecisionInv, RecordsKept
  <2> QED
    BY <2>1, KnownAre DEF RecordKept
<1>8. \A e \in es : op(e).id \notin AskedAbout(d)
  BY <1>6, <1>7
<1>9. \A x \in Devices : AskedAbout(x)' = AskedAbout(x)
  BY <1>5 DEF AskedAbout
<1>10. ASSUME NEW e \in Entities
       PROVE  Taken(d, e)' = IF e \in es THEN Taken(d, e) \cup {op(e)} ELSE Taken(d, e)
  <2>1. \A f \in es : op(f).ent = f /\ op(f).id \notin AskedAbout(d)
    BY <1>4, <1>8
  <2>2. Taken(d, e)' = {o \in KnownOps(d) \cup new : o.ent = e /\ o.id \notin AskedAbout(d)}
    BY <1>1, <1>9 DEF Taken
  <2>3. {o \in new : o.ent = e /\ o.id \notin AskedAbout(d)} = IF e \in es THEN {op(e)} ELSE {}
    BY <2>1 DEF new
  <2> QED
    BY <2>2, <2>3 DEF Taken
<1>11. \A e \in Entities : DecidedInTurn(e)' => DecidedInTurn(e)
  BY <1>5 DEF DecidedInTurn, Sees
<1>12. ASSUME NEW e \in es, DecidedInTurn(e)
       PROVE  TurnHistory(d, Taken(d, e) \cup {op(e)}, op(e).res, e)
  <2> DEFINE ops == Taken(d, e)
             was == state[d][e].hash
             o == op(e)
  <2>1. History(Latest(ops), was, e) /\ TakenApart(d, ops)
    BY <1>3, <1>12 DEF InTurnInv, InTurn, TurnHistory
  <2>2. \A t \in ops : After(o, t)
    <3> TAKE t \in ops
    <3>1. t \in KnownOps(d)
      BY DEF Taken
    <3>2. Fresh(d, op(e))
      BY <1>2
    <3> QED
      BY <3>1, <3>2, NewSeesKnown
  <2>3. was \in Hashes /\ \A t \in ops : t.res \in Hashes
    <3>1. was \in Hashes
      BY <1>3 DEF TypeOK, States
    <3>2. \A t \in ops : t \in Operations
      BY KnownAre DEF Taken
    <3> QED
      BY <3>1, <3>2 DEF Operations
  <2>4. Forward(o) /\ o.ent = e /\ o.res \in Hashes /\ o.res.ver > was.ver
    BY <1>4
  <2>5. o.res.ver > Base(e).ver
    BY <2>4 DEF Forward
  <2> HIDE DEF ops, was, o
  <2>6. History(Latest(ops \cup {o}), o.res, e)
    BY <2>1, <2>2, <2>3, <2>4, <2>5, LatestGrows
  <2>7. TakenApart(d, ops \cup {o})
    BY <2>1, <2>2, SeenIsNotApart
  <2> QED
    BY <2>6, <2>7 DEF TurnHistory, ops, o
<1>13. ASSUME NEW x \in Devices, NEW e \in Entities
       PROVE  InTurn(x, e)'
  <2>1. DecidedInTurn(e) => TurnHistory(x, Taken(x, e), state[x][e].hash, e)
    BY DEF InTurnInv, InTurn
  <2>2. CASE x = d /\ e \in es
    <3>1. Taken(d, e)' = Taken(d, e) \cup {op(e)} /\ state'[d][e].hash = op(e).res
      BY <1>5, <1>10, <2>2
    <3> QED
      BY <1>11, <1>12, <2>2, <3>1, InTurnBy
  <2>3. CASE ~(x = d /\ e \in es)
    <3>1. Taken(x, e)' = Taken(x, e) /\ state'[x][e] = state[x][e]
      <4>1. CASE x = d
        BY <1>5, <1>10, <2>3, <4>1
      <4>2. CASE x # d
        BY <1>1, <1>5, <1>9, <4>2 DEF Taken
      <4> QED
        BY <4>1, <4>2
    <3> QED
      BY <1>11, <2>1, <3>1, InTurnBy
  <2> QED
    BY <2>2, <2>3
<1> QED
  BY <1>13 DEF InTurnInv

\* An operation that no decision replaced is all its author and another can
\* have made apart.
LEMMA ApartIsLatest ==
    ASSUME TypeOK, SeenInv, NEW e, DecidedInTurn(e), NEW n \in 1..Len(log), log[n].ent = e,
           NEW ops, ops \subseteq {log[c] : c \in {c \in 1..Len(log) : log[c].ent = e}},
           \A o \in ops : ~After(o, log[n]), \A o \in ops : o.resolves # {} => After(log[n], o)
    PROVE  \A o \in ops : Apart(log[n], o) => o \in Latest(ops)
<1> SUFFICES ASSUME NEW o \in ops, Apart(log[n], o), NEW other \in ops, other.resolves # {},
                    o # other, ~After(o, other)
             PROVE  FALSE
  BY DEF Latest
<1>1. PICK c \in 1..Len(log) : other = log[c] /\ log[c].ent = e
  OBVIOUS
<1>2. PICK k \in 1..Len(log) : o = log[k] /\ log[k].ent = e
  OBVIOUS
<1>3. After(other, o)
  BY <1>1, <1>2, TurnsAlternate
<1>4. After(log[n], other)
  OBVIOUS
<1>5. log[n] \in AllOps /\ other \in AllOps /\ o \in AllOps
  BY <1>1, <1>2 DEF AllOps
<1>6. After(log[n], o)
  BY <1>3, <1>4, <1>5, AfterTransitive
<1> QED
  BY <1>6 DEF Apart

\* What a device accepts of another's work follows what it had taken.
LEMMA TakesInTurn ==
    ASSUME TypeOK, StepsForward, SeenInv, NEW d \in Devices, NEW e \in Entities,
           DecidedInTurn(e), NEW n \in 1..Len(log), log[n].ent = e, log[n].dev # d,
           Accepted(d, log[n]),
           NEW ops, ops \subseteq {log[c] : c \in {c \in 1..Len(log) : log[c].ent = e}},
           \A o \in ops : ~After(o, log[n]), log[n] \notin ops,
           TurnHistory(d, ops, state[d][e].hash, e)
    PROVE  TurnHistory(d, ops \cup {log[n]}, log[n].res, e)
<1> DEFINE op == log[n]
           was == state[d][e].hash
<1>1. op \in Operations /\ Forward(op) /\ op.res \in Hashes /\ op.res.ver > Base(e).ver
  <2>1. op \in Operations /\ Forward(op)
    BY DEF TypeOK, StepsForward
  <2> QED
    BY <2>1, OpNumbers DEF Forward
<1>2. was \in Hashes /\ \A o \in ops : o.res \in Hashes
  <2>1. \A o \in ops : o \in AllOps
    BY DEF AllOps
  <2>2. \A o \in ops : o.res \in Hashes
    BY <2>1, KnownAre, OpNumbers
  <2> QED
    BY <2>2 DEF TypeOK, States
<1>3. ASSUME NEW o \in ops, o.resolves # {} \/ op.resolves # {}
      PROVE  After(op, o)
  <2>1. PICK k \in 1..Len(log) : o = log[k] /\ log[k].ent = e
    OBVIOUS
  <2>2. After(op, o) \/ After(o, op)
    BY <1>3, <2>1, TurnsAlternate
  <2> QED
    BY <2>2
<1>4. History(Latest(ops), was, e) /\ TakenApart(d, ops)
  BY DEF TurnHistory
<1>5. CASE Resolved(d, op) # {}
  <2>1. op.resolves # {}
    BY <1>5 DEF Resolved
  <2>2. \A o \in ops : After(op, o) /\ ~After(o, op)
    BY <1>3, <2>1
  <2> HIDE DEF op
  <2>3. History(Latest(ops \cup {op}), op.res, e)
    BY <1>1, <2>1, <2>2, DecisionReplaces
  <2>4. TakenApart(d, ops \cup {op})
    BY <1>4, <2>2, SeenIsNotApart
  <2> QED
    BY <2>3, <2>4 DEF TurnHistory, op
<1>6. CASE Resolved(d, op) = {}
  <2>1. op.res = was \/ op.res.ver > was.ver
    BY <1>1, <1>6, AcceptedForward
  <2>2. \A o \in ops : Apart(op, o) => o \in Latest(ops)
    BY <1>3, ApartIsLatest
  <2>3. \A o \in ops : o.resolves # {} => After(op, o)
    BY <1>3
  <2>4. op.dev # d
    OBVIOUS
  <2> HIDE DEF op, was
  <2>5. /\ History(Latest(ops \cup {op}), op.res, e)
        /\ History(Latest(ops) \cup {op}, op.res, e)
    BY <1>1, <1>2, <1>4, <2>1, <2>3, LatestGrows
  <2>6. TakenApart(d, ops \cup {op})
    BY <1>4, <2>2, <2>4, <2>5, ApartIsKept
  <2> QED
    BY <2>5, <2>6 DEF TurnHistory, op
<1> QED
  BY <1>5, <1>6

\* Closing records asks nobody about anything.
LEMMA ClosingAsks ==
    ASSUME TypeOK, NEW d \in Devices, NEW decided, decided \subseteq conflicts[d],
           conflicts' = [conflicts EXCEPT ![d] =
              (@ \ decided) \cup {[k EXCEPT !.pending = FALSE] : k \in decided}]
    PROVE  \A x \in Devices : AskedAbout(x)' = AskedAbout(x)
<1>1. /\ conflicts'[d] = (conflicts[d] \ decided)
                            \cup {[k EXCEPT !.pending = FALSE] : k \in decided}
      /\ \A x \in Devices \ {d} : conflicts'[x] = conflicts[x]
  BY DEF TypeOK
<1>2. \A k \in decided : [k EXCEPT !.pending = FALSE].op = k.op
  BY RecordEntities DEF Conflicts
<1>3. AskedAbout(d)' = AskedAbout(d)
  <2>1. ASSUME NEW k \in conflicts[d]
        PROVE  \E j \in conflicts'[d] : j.op = k.op
    <3>1. CASE k \in decided
      <4>1. [k EXCEPT !.pending = FALSE] \in conflicts'[d]
        BY <1>1, <3>1
      <4> QED
        BY <1>2, <3>1, <4>1
    <3>2. CASE k \notin decided
      BY <1>1, <3>2
    <3> QED
      BY <3>1, <3>2
  <2>2. \A j \in conflicts'[d] : \E k \in conflicts[d] : j.op = k.op
    BY <1>1, <1>2
  <2>3. {j.op : j \in conflicts'[d]} \subseteq {k.op : k \in conflicts[d]}
    BY ONLY <2>2
  <2>4. {k.op : k \in conflicts[d]} \subseteq {j.op : j \in conflicts'[d]}
    BY ONLY <2>1
  <2> QED
    BY <2>3, <2>4 DEF AskedAbout
<1> QED
  BY <1>1, <1>3 DEF AskedAbout

\* Applying or refusing the first group: its operations are new to the device.
LEMMA ApplyTurn ==
    ASSUME TypeOK, AckInv, OrderInv, StepsForward, SeenInv, DecisionInv, InTurnInv,
           NEW d \in Devices, ApplyGroup(d)
    PROVE  InTurnInv'
<1>1. PICK first \in received[d], newest \in received[d] :
        LET group == Members(d, log[first].gid)
        IN  /\ \A c \in received[d] : first <= c
            /\ newest \in group /\ \A c \in group : c <= newest
            /\ processed' = [processed EXCEPT ![d] = @ \cup group]
            /\ frontier' = [frontier EXCEPT ![d] = FrontierAfter(d, newest)]
            /\ IF \A c \in group : Accepted(d, log[c])
               THEN AcceptGroup(d, group) ELSE RecordConflict(d, group)
  BY DEF ApplyGroup
<1> DEFINE group == Members(d, log[first].gid)
<1>2. AllComplete(d) /\ UNCHANGED <<log, outbox>> /\ phase[d] = "apply"
  BY DEF ApplyGroup, serverVars
<1>3. /\ KnownOps(d)' = KnownOps(d) \cup {log[c] : c \in group}
      /\ \A x \in Devices \ {d} : KnownOps(x)' = KnownOps(x)
      /\ group \subseteq received[d]
  BY <1>1, <1>2, ApplyAdds
<1>4. \A c \in group : /\ log[c].dev \in Devices \ {d} /\ log[c].gid = log[first].gid
                       /\ log[c].seq > frontier[d][log[c].dev]
  <2>1. /\ log[first].dev \in Devices \ {d} /\ \A c \in group : log[c].dev = log[first].dev
        /\ \A c \in group : log[c].seq \in (frontier[d][log[first].dev] + 1)
                                ..(frontier[d][log[first].dev] + Cardinality(group))
    BY <1>1, <1>2, GroupFollows
  <2>2. \A c \in group : log[c].gid = log[first].gid
    BY DEF Members
  <2>3. frontier[d][log[first].dev] \in Nat
    BY <2>1 DEF TypeOK
  <2> HIDE DEF group
  <2>4. \A c \in group : log[c].seq > frontier[d][log[first].dev]
    BY <2>1, <2>3
  <2> QED
    BY <2>1, <2>2, <2>4
<1>5. \/ (\A c \in group : Accepted(d, log[c])) /\ AcceptGroup(d, group)
      \/ RecordConflict(d, group)
  BY <1>1
<1> HIDE DEF group
<1>6. \A c \in group : /\ c \in 1..Len(log) /\ log[c] \in Operations /\ Forward(log[c])
                       /\ log[c].ent \in Entities
  <2>1. \A c \in group : c \in 1..Len(log) /\ log[c] \in Operations
    BY <1>3 DEF TypeOK
  <2> QED
    BY <2>1 DEF StepsForward, Operations
<1>7. \A c, k \in group : log[c].ent = log[k].ent => c = k
  <2> SUFFICES ASSUME NEW c \in group, NEW k \in group, log[c].ent = log[k].ent
               PROVE  c = k
    OBVIOUS
  <2>1. log[c].id = log[k].id
    BY <1>4, <1>6 DEF Forward
  <2> QED
    BY <1>6, <2>1 DEF AckInv, LogIdsUnique
<1>8. KnownOps(d) = {log[c] : c \in processed[d]}
  <2>1. SignedOf(d) = {}
    BY <1>2 DEF SeenInv, InboxClosed
  <2> QED
    BY <2>1 DEF KnownOps, SignedOps
<1>9. ASSUME NEW c \in group, NEW o \in KnownOps(d)
      PROVE  o.id # log[c].id /\ ~After(o, log[c])
  <2>1. PICK k \in processed[d] : o = log[k]
    BY <1>8
  <2>2. k \in 1..Len(log) /\ k # c
    BY <1>3 DEF TypeOK, AckInv, InboxOnce
  <2>3. o.id # log[c].id
    BY <1>6, <2>1, <2>2 DEF AckInv, LogIdsUnique
  <2>4. log[c].dev \in Devices \ {d} /\ log[c].seq > frontier[d][log[c].dev]
    BY <1>4
  <2>5. o.causal[log[c].dev] <= frontier[d][log[c].dev]
    BY <2>4 DEF SeenInv, InboxClosed
  <2>6. o.causal[log[c].dev] \in Nat /\ frontier[d][log[c].dev] \in Nat /\ log[c].seq \in Nat
    <3>1. o \in Operations /\ log[c] \in Operations
      BY <1>6, KnownAre
    <3>2. o.causal[log[c].dev] \in Nat /\ log[c].seq \in Nat
      BY <2>4, <3>1, OpNumbers
    <3>3. frontier[d] \in [Devices -> Nat] /\ log[c].dev \in Devices
      BY <2>4 DEF TypeOK
    <3>4. frontier[d][log[c].dev] \in Nat
      BY <3>3
    <3> QED
      BY <3>2, <3>4
  <2> QED
    BY <2>3, <2>4, <2>5, <2>6 DEF After
<1>10. \A c \in group : log[c].id \notin AskedAbout(d)
  <2> SUFFICES ASSUME NEW c \in group, NEW k \in conflicts[d], log[c].id = k.op
               PROVE  FALSE
    BY DEF AskedAbout
  <2>1. \E o \in KnownOps(d) : o.id = k.op
    BY DEF DecisionInv, RecordsKept, RecordKept
  <2> QED
    BY <1>9, <2>1
<1>11. /\ \A x \in Devices \ {d} : state'[x] = state[x]
       /\ \A x \in Devices \ {d} : conflicts'[x] = conflicts[x]
  BY <1>5 DEF AcceptGroup, RecordConflict, TypeOK
<1>12. \A e : DecidedInTurn(e)' => DecidedInTurn(e)
  BY <1>2 DEF DecidedInTurn, Sees
<1>13. ASSUME RecordConflict(d, group), NEW e \in Entities
       PROVE  Taken(d, e)' = Taken(d, e) /\ state'[d][e] = state[d][e]
  <2>1. AskedAbout(d)' = AskedAbout(d) \cup {log[c].id : c \in group}
    <3>1. conflicts'[d] = conflicts[d] \cup {ConflictRecord(d, log[c]) : c \in group}
      BY <1>13 DEF RecordConflict, TypeOK
    <3>2. \A c \in group : ConflictRecord(d, log[c]).op = log[c].id
      BY DEF ConflictRecord
    <3>3. {k.op : k \in {ConflictRecord(d, log[c]) : c \in group}} = {log[c].id : c \in group}
      BY <3>2
    <3> QED
      BY <3>1, <3>3 DEF AskedAbout
  <2>2. \A o \in KnownOps(d) : o.id \notin {log[c].id : c \in group}
    BY <1>9
  <2>3. Taken(d, e)' = {o \in KnownOps(d) \cup {log[c] : c \in group} :
                          o.ent = e /\ o.id \notin AskedAbout(d) \cup {log[c].id : c \in group}}
    BY <1>3, <2>1 DEF Taken
  <2>4. Taken(d, e)' = Taken(d, e)
    BY <2>2, <2>3 DEF Taken
  <2> QED
    BY <1>13, <2>4 DEF RecordConflict
<1>14. ASSUME AcceptGroup(d, group), NEW e \in Entities
       PROVE  Taken(d, e)' = Taken(d, e) \cup {log[c] : c \in {c \in group : log[c].ent = e}}
  <2>1. AskedAbout(d)' = AskedAbout(d)
    <3> DEFINE decided == UNION {Resolved(d, log[c]) : c \in group}
    <3>1. decided \subseteq conflicts[d]
      BY DEF Resolved
    <3>2. conflicts' = [conflicts EXCEPT ![d] =
             (@ \ decided) \cup {[k EXCEPT !.pending = FALSE] : k \in decided}]
      BY <1>14 DEF AcceptGroup
    <3> HIDE DEF decided
    <3> QED
      BY <3>1, <3>2, ClosingAsks
  <2>2. Taken(d, e)' = {o \in KnownOps(d) \cup {log[c] : c \in group} :
                          o.ent = e /\ o.id \notin AskedAbout(d)}
    BY <1>3, <2>1 DEF Taken
  <2>3. {o \in {log[c] : c \in group} : o.ent = e /\ o.id \notin AskedAbout(d)}
           = {log[c] : c \in {c \in group : log[c].ent = e}}
    BY <1>10
  <2> QED
    BY <2>2, <2>3 DEF Taken
<1>15. ASSUME AcceptGroup(d, group), NEW e \in Entities, ~Writes(group, e)
       PROVE  Taken(d, e)' = Taken(d, e) /\ state'[d][e] = state[d][e]
  <2>1. state'[d][e] = state[d][e]
    BY <1>15 DEF AcceptGroup, StateAfter, TypeOK
  <2>2. {c \in group : log[c].ent = e} = {}
    BY <1>15 DEF Writes
  <2> QED
    BY <1>14, <1>15, <2>1, <2>2
<1>16. ASSUME AcceptGroup(d, group), NEW e \in Entities, NEW n \in group, log[n].ent = e
       PROVE  /\ Taken(d, e)' = Taken(d, e) \cup {log[n]}
              /\ state'[d][e].hash = log[n].res
  <2>1. Writes(group, e)
    BY <1>16 DEF Writes
  <2>2. OpOn(group, e) = log[n]
    BY <1>7, <1>16 DEF OpOn
  <2>3. {c \in group : log[c].ent = e} = {n}
    BY <1>7, <1>16
  <2>4. state'[d][e] = IF ResultMatchesCurrent(d, log[n]) THEN Current(d, log[n])
                       ELSE [hash |-> log[n].res, last |-> log[n].id]
    BY <1>16, <2>1, <2>2 DEF AcceptGroup, StateAfter, TypeOK
  <2>5. state'[d][e].hash = log[n].res
    BY <2>4 DEF ResultMatchesCurrent
  <2>6. {log[c] : c \in {c \in group : log[c].ent = e}} = {log[n]}
    BY <2>3
  <2>7. Taken(d, e)' = Taken(d, e) \cup {log[n]}
    BY <1>14, <1>16, <2>6
  <2> QED
    BY <2>5, <2>7
<1>17. ASSUME \A c \in group : Accepted(d, log[c]), NEW e \in Entities,
              NEW n \in group, log[n].ent = e, DecidedInTurn(e)
       PROVE  TurnHistory(d, Taken(d, e) \cup {log[n]}, log[n].res, e)
  <2> DEFINE ops == Taken(d, e)
  <2>1. ops \subseteq {log[c] : c \in {c \in 1..Len(log) : log[c].ent = e}}
    BY <1>8 DEF Taken, TypeOK
  <2>2. (\A o \in ops : ~After(o, log[n])) /\ log[n] \notin ops
    BY <1>9 DEF Taken
  <2>3. n \in 1..Len(log) /\ log[n].dev # d
    BY <1>4, <1>6
  <2>4. TurnHistory(d, ops, state[d][e].hash, e)
    BY <1>17 DEF InTurnInv, InTurn
  <2>5. DecidedInTurn(e) /\ Accepted(d, log[n]) /\ log[n].ent = e
    BY <1>17
  <2> HIDE DEF ops
  <2>6. TurnHistory(d, ops \cup {log[n]}, log[n].res, e)
    BY <2>1, <2>2, <2>3, <2>4, <2>5, TakesInTurn
  <2> QED
    BY <2>6 DEF ops
<1>18. ASSUME NEW x \in Devices, NEW e \in Entities
       PROVE  InTurn(x, e)'
  <2>1. DecidedInTurn(e) => TurnHistory(x, Taken(x, e), state[x][e].hash, e)
    BY DEF InTurnInv, InTurn
  <2>2. CASE Taken(x, e)' = Taken(x, e) /\ state'[x][e] = state[x][e]
    BY <1>12, <2>1, <2>2, InTurnBy
  <2>3. CASE x # d
    <3>1. Taken(x, e)' = Taken(x, e)
      BY <1>3, <1>11, <2>3 DEF Taken, AskedAbout
    <3> QED
      BY <1>11, <2>2, <2>3, <3>1
  <2>4. CASE x = d /\ RecordConflict(d, group)
    BY <1>13, <2>2, <2>4
  <2>5. CASE x = d /\ AcceptGroup(d, group) /\ \A c \in group : Accepted(d, log[c])
    <3>1. CASE ~Writes(group, e)
      BY <1>15, <2>2, <2>5, <3>1
    <3>2. CASE Writes(group, e)
      <4>1. PICK n \in group : log[n].ent = e
        BY <3>2 DEF Writes
      <4>2. Taken(d, e)' = Taken(d, e) \cup {log[n]} /\ state'[d][e].hash = log[n].res
        BY <1>16, <2>5, <4>1
      <4>3. DecidedInTurn(e) => TurnHistory(d, Taken(d, e) \cup {log[n]}, log[n].res, e)
        BY <1>17, <2>5, <4>1
      <4> QED
        BY <1>12, <2>5, <4>2, <4>3, InTurnBy
    <3> QED
      BY <3>1, <3>2
  <2> QED
    BY <1>5, <2>3, <2>4, <2>5
<1> QED
  BY <1>18 DEF InTurnInv

\* Nobody took anything over in a bootstrapped vault.
LEMMA InitTurn == Init => InTurnInv
<1> SUFFICES ASSUME Init, NEW d \in Devices, NEW e \in Entities
             PROVE  TurnHistory(d, Taken(d, e), state[d][e].hash, e)
  BY DEF InTurnInv, InTurn
<1>1. outbox[d] = <<>> /\ processed[d] = {} /\ state[d][e].hash = Base(e)
  BY DEF Init, Base
<1>2. SignedOf(d) = {}
  BY <1>1 DEF SignedOf
<1>3. KnownOps(d) = {}
  BY <1>1, <1>2 DEF KnownOps, SignedOps
<1>4. Taken(d, e) = {} /\ Latest({}) = {}
  BY <1>3 DEF Taken, Latest
<1> QED
  BY <1>1, <1>4 DEF TurnHistory, History, TakenApart

\* Uploads move operations, and the log grows.
LEMMA UploadTurn ==
    ASSUME TypeOK, AckInv, OrderInv, StepsForward, InTurnInv, NEW d \in Devices,
           Upload(d) \/ UploadUnanswered(d)
    PROVE  InTurnInv'
<1>1. UNCHANGED <<state, conflicts>> /\ outbox[d] # <<>>
  BY DEF Upload, UploadUnanswered, deviceVars, Uploading
<1>2. \A x \in Devices : KnownOps(x)' = KnownOps(x)
  BY UploadSame, UnansweredSame
<1>3. PICK e \in Entities : Sends(d, e) /\ Accepts(FirstGroup(d).ops[e])
                               /\ log' = LogAfter(FirstGroup(d).ops[e])
  BY DEF Upload, UploadUnanswered
<1>4. /\ Len(log) \in Nat /\ Len(log') \in Nat /\ Len(log) <= Len(log')
      /\ \A c \in 1..Len(log) : log'[c] = log[c]
  <2>1. FirstGroup(d).ops[e] \in Operations
    BY <1>1, <1>3, SentOp
  <2> QED
    BY <1>3, <2>1, UploadLog
<1>5. \A f \in Entities : DecidedInTurn(f)' => DecidedInTurn(f)
  BY <1>4, TurnsGrow
<1>6. \A x \in Devices : AskedAbout(x)' = AskedAbout(x)
  BY <1>1 DEF AskedAbout
<1> QED
  BY <1>1, <1>2, <1>5, <1>6, InTurnFrame

\* An edit or a decision of a user signs nothing, and closes records.
LEMMA UserTurn ==
    ASSUME TypeOK, InTurnInv, NEW d \in Devices, UserStep(d)
    PROVE  InTurnInv'
<1>1. \E edits \in [Entities -> Edits \cup {None}], at \in 1..(Len(outbox[d]) + 1) :
         Enqueue(d, edits, at)
  BY UserEnqueues
<1>2. UNCHANGED <<log, state, processed>>
  BY UserEnqueues
<1>3. \A x \in Devices : SameSigned(x)
  BY <1>1, EnqueueSigns
<1>4. \A x \in Devices : KnownOps(x)' = KnownOps(x)
  BY <1>2, <1>3, SameKnown
<1>5. \A x \in Devices : AskedAbout(x)' = AskedAbout(x)
  <2>1. CASE LocalEdit(d)
    BY <2>1 DEF LocalEdit, AskedAbout
  <2>2. CASE \E gid \in GroupIds, keepLocal \in BOOLEAN : Resolve(d, gid, keepLocal)
    <3>1. PICK gid \in GroupIds, keepLocal \in BOOLEAN : Resolve(d, gid, keepLocal)
      BY <2>2
    <3> DEFINE group == ConflictsOf(d, gid)
    <3>2. group \subseteq conflicts[d]
      BY DEF ConflictsOf
    <3>3. conflicts' = [conflicts EXCEPT ![d] =
             (@ \ group) \cup {[k EXCEPT !.pending = FALSE] : k \in group}]
      BY <3>1 DEF Resolve
    <3> HIDE DEF group
    <3> QED
      BY <3>2, <3>3, ClosingAsks
  <2> QED
    BY <2>1, <2>2 DEF UserStep
<1>6. \A e \in Entities : DecidedInTurn(e)' => DecidedInTurn(e)
  BY <1>2 DEF DecidedInTurn, Sees
<1> QED
  BY <1>2, <1>4, <1>5, <1>6, InTurnFrame

\* In every reachable state, where an entity was decided about in turn, what a
\* device took over since the decisions leads to its present state, and nothing
\* of it that was made apart disagrees about a version.
THEOREM InTurnInvariant == Spec => []InTurnInv
<1>1. Init => InTurnInv
  BY InitTurn
<1>2. /\ TypeOK /\ AckInv /\ OrderInv /\ UndisputedInv /\ SeenInv /\ DecisionInv /\ InTurnInv
      /\ [Next]_vars
      => InTurnInv'
  <2> SUFFICES ASSUME TypeOK, AckInv, OrderInv, UndisputedInv, SeenInv, DecisionInv,
                      InTurnInv, [Next]_vars
               PROVE  InTurnInv'
    OBVIOUS
  <2>0. StepsForward
    BY DEF UndisputedInv
  <2>1. ASSUME UNCHANGED <<log, processed, outbox, conflicts, state>>
        PROVE  InTurnInv'
    <3>1. \A x \in Devices : SameSigned(x)
      BY <2>1 DEF SameSigned, SignedOf, FirstGroup
    <3>2. \A x \in Devices : KnownOps(x)' = KnownOps(x)
      BY <2>1, <3>1, SameKnown
    <3>3. \A x \in Devices : AskedAbout(x)' = AskedAbout(x)
      BY <2>1 DEF AskedAbout
    <3>4. \A e \in Entities : DecidedInTurn(e)' => DecidedInTurn(e)
      BY <2>1 DEF DecidedInTurn, Sees
    <3> QED
      BY <2>1, <3>2, <3>3, <3>4, InTurnFrame
  <2>2. CASE Next
    <3>1. PICK d \in Devices : SyncStep(d) \/ UserStep(d) \/ Fault(d)
      BY <2>2 DEF Next
    <3>2. CASE Pull(d) \/ GroupIncomplete(d) \/ Finish(d) \/ Interrupt(d)
      <4>1. UNCHANGED <<log, processed, outbox, conflicts, state>>
        BY <3>2 DEF Pull, GroupIncomplete, Finish, Interrupt, serverVars, deviceVars
      <4> QED
        BY <2>1, <4>1
    <3>3. CASE UserStep(d)
      BY <3>3, UserTurn
    <3>4. CASE Prepare(d)
      BY <2>0, <3>4, PrepareTurn
    <3>5. CASE Upload(d) \/ UploadUnanswered(d)
      BY <2>0, <3>5, UploadTurn
    <3>6. CASE ApplyGroup(d)
      BY <2>0, <3>6, ApplyTurn
    <3> QED
      BY <3>1, <3>2, <3>3, <3>4, <3>5, <3>6 DEF SyncStep, Fault
  <2>3. CASE UNCHANGED vars
    <3>1. UNCHANGED <<log, processed, outbox, conflicts, state>>
      BY <2>3 DEF vars, serverVars, deviceVars
    <3> QED
      BY <2>1, <3>1
  <2> QED
    BY <2>2, <2>3
<1> QED
  BY <1>1, <1>2, TypeCorrect, AckInvariant, OrderInvariant, UndisputedInvariant,
     SeenInvariant, DecisionInvariant, PTL DEF Spec
-----------------------------------------------------------------------------
(* Two devices.                                                            *)

\* A device never asks its user about an operation of its own.
LEMMA OwnIsTaken ==
    ASSUME TypeOK, AckInv, OrderInv, StepsForward, DecisionInv, NEW c \in 1..Len(log)
    PROVE  log[c] \in Taken(log[c].dev, log[c].ent)
<1> DEFINE d == log[c].dev
           e == log[c].ent
<1>1. d \in Devices /\ log[c].id = <<log[c].gid, e>> /\ log[c].gid[1] = d
  <2>1. log[c] \in Operations
    BY DEF TypeOK
  <2>2. d \in Devices
    BY <2>1, OpNumbers
  <2>3. log[c].id = <<log[c].gid, e>>
    BY DEF StepsForward, Forward
  <2>4. log[c].gid[1] = d
    BY DEF OrderInv, LogGroups
  <2> QED
    BY <2>2, <2>3, <2>4
<1>2. log[c] \in KnownOps(d)
  <2>1. log[c] \in OpsOf(d, e)
    BY OwnIsKnown
  <2> QED
    BY <2>1 DEF OpsOf, KnownOps, SignedOps
<1>3. log[c].id \notin AskedAbout(d)
  <2> SUFFICES ASSUME NEW k \in conflicts[d], k.op = log[c].id
               PROVE  FALSE
    BY DEF AskedAbout
  <2>1. k.op = <<k.gid, k.ent>> /\ k.gid[1] # d
    BY <1>1 DEF DecisionInv, RecordsKept, RecordKept
  <2>2. k.gid = log[c].gid
    BY <1>1, <2>1
  <2> QED
    BY <1>1, <2>1, <2>2
<1> QED
  BY <1>2, <1>3 DEF Taken

\* Two devices that wrote different results to one entity, neither having seen
\* the other's, do not both stay silent: before both have processed both,
\* applyRemoteGroup records a conflict about the entity on one of them, however
\* many devices, edits and decisions there are; and where no decision passed
\* another edit or decision by, the conflict is about that very operation.
THEOREM ConcurrentEditsAreReported == Spec => []ConcurrentEditsSurface
<1>1. TypeOK /\ AckInv /\ OrderInv /\ UndisputedInv /\ DecisionInv /\ InTurnInv
         => ConcurrentEditsSurface
  <2> SUFFICES ASSUME TypeOK, AckInv, OrderInv, UndisputedInv, DecisionInv, InTurnInv,
                      NEW c \in 1..Len(log), NEW k \in 1..Len(log), NEW d, d = log[c].dev,
                      NEW x, x = log[k].dev, NEW e, e = log[c].ent,
                      d # x, log[k].ent = e, log[c].res # log[k].res,
                      ~Sees(c, k), ~Sees(k, c), k \in processed[d], c \in processed[x]
               PROVE  /\ Disputed(d, e) \/ Disputed(x, e)
                      /\ DecidedInTurn(e) => Reported(c, k) \/ Reported(k, c)
    BY DEF ConcurrentEditsSurface
  <2>1. log[c] \in Operations /\ log[k] \in Operations
    BY DEF TypeOK
  <2>2. /\ d \in Devices /\ x \in Devices /\ e \in Entities
        /\ log[c].res.ver \in Nat /\ log[k].res.ver \in Nat
    BY <2>1, OpNumbers DEF Operations
  <2>3. StepsForward
    BY DEF UndisputedInv
  <2>4. ASSUME ~Disputed(d, e), ~Disputed(x, e)
        PROVE  FALSE
    <3>1. log[c] \in OpsOf(d, e) /\ log[k] \in OpsOf(x, e)
      BY <2>3, OwnIsKnown
    <3>2. log[k] \in OpsOf(d, e) /\ log[c] \in OpsOf(x, e)
      BY DEF OpsOf
    <3>3. History(OpsOf(d, e), state[d][e].hash, e) /\ SeenOrOlder(d, OpsOf(d, e))
      BY <2>2, <2>4 DEF UndisputedInv, Told
    <3>4. SeenOrOlder(x, OpsOf(x, e))
      BY <2>2, <2>4 DEF UndisputedInv, Told
    <3>5. log[c].res.ver <= log[k].res.ver
      BY <3>1, <3>2, <3>3 DEF SeenOrOlder, Sees
    <3>6. log[k].res.ver <= log[c].res.ver
      BY <3>1, <3>2, <3>4 DEF SeenOrOlder, Sees
    <3>7. log[c].res.ver = log[k].res.ver
      BY <2>2, <3>5, <3>6
    <3> QED
      BY <3>1, <3>2, <3>3, <3>7 DEF History
  <2>5. ASSUME DecidedInTurn(e), ~Reported(c, k), ~Reported(k, c)
        PROVE  FALSE
    <3>1. log[c] \in Taken(d, e) /\ log[k] \in Taken(x, e)
      BY <2>3, OwnIsTaken
    <3>2. log[k] \in Taken(d, e) /\ log[c] \in Taken(x, e)
      BY <2>5 DEF Taken, KnownOps, AskedAbout, Reported
    <3>3. TakenApart(d, Taken(d, e)) /\ TakenApart(x, Taken(x, e))
      BY <2>2, <2>5 DEF InTurnInv, InTurn, TurnHistory
    <3>4. Apart(log[c], log[k]) /\ Apart(log[k], log[c])
      BY DEF Apart, After, Sees
    <3>5. log[c].res.ver <= log[k].res.ver
      BY <3>1, <3>2, <3>3, <3>4 DEF TakenApart
    <3>6. log[k].res.ver <= log[c].res.ver
      BY <3>1, <3>2, <3>3, <3>4 DEF TakenApart
    <3>7. log[c].res.ver = log[k].res.ver
      BY <2>2, <3>5, <3>6
    <3> QED
      BY <3>1, <3>2, <3>3, <3>4, <3>7 DEF TakenApart
  <2> QED
    BY <2>4, <2>5
<1> QED
  BY <1>1, TypeCorrect, AckInvariant, OrderInvariant, UndisputedInvariant,
     DecisionInvariant, InTurnInvariant, PTL

-----------------------------------------------------------------------------
(* Settled devices.                                                        *)

LoggedOn(e) == {log[c] : c \in {c \in 1..Len(log) : log[c].ent = e}}

\* An author has seen only what the log held before its operation.
LEMMA SeenIsEarlier ==
    ASSUME TypeOK, OrderInv, NEW c \in 1..Len(log), NEW k \in 1..Len(log),
           After(log[c], log[k])
    PROVE  k < c
<1> DEFINE x == log[k].dev
           n == log[c].causal[x]
<1>1. log[c] \in Operations /\ log[k] \in Operations /\ c \in Nat /\ k \in Nat
  BY DEF TypeOK
<1>2. x \in Devices /\ log[k].seq \in Nat /\ n \in Nat
  BY <1>1, OpNumbers
<1>3. log[k].seq >= 1 /\ n >= log[k].seq
  BY DEF OrderInv, LogRuns, After
<1>4. n > 0
  BY <1>2, <1>3
<1>5. PICK i \in 1..(c - 1) : log[i].dev = x /\ log[i].seq = n
  BY <1>2, <1>4 DEF OrderInv, CausalKnown
<1>6. i \in Nat /\ i < c
  BY <1>1, <1>5
<1>7. ~(i < k)
  <2> SUFFICES ASSUME i < k
               PROVE  FALSE
    OBVIOUS
  <2>1. i \in 1..(k - 1)
    BY <1>1, <1>5
  <2>2. log[i].seq < log[k].seq
    BY <1>5, <2>1 DEF OrderInv, LogRuns
  <2> QED
    BY <1>2, <1>3, <1>5, <2>2
<1> QED
  BY <1>1, <1>6, <1>7

\* A settled device knows the whole log.
LEMMA SettledKnowsLog ==
    ASSUME TypeOK, AckInv, NEW d \in Devices, Settled(d)
    PROVE  KnownOps(d) = {log[c] : c \in 1..Len(log)}
<1>1. processed[d] = 1..Len(log)
  BY DEF TypeOK, AckInv, InboxCovers, InInbox, Settled
<1>2. SignedOf(d) = {}
  BY DEF SignedOf, Settled
<1> QED
  BY <1>1, <1>2 DEF KnownOps, SignedOps

\* What a settled device did not take, a later decision replaced, once its user
\* has answered.
LEMMA LeftIsDecided ==
    ASSUME TypeOK, AckInv, SeenInv, DecisionInv, NEW d \in Devices, NEW e \in Entities,
           Settled(d), Answered(d, e), NEW op \in LoggedOn(e), op \notin Taken(d, e)
    PROVE  \E o \in LoggedOn(e) : o.resolves # {} /\ After(o, op)
<1>1. KnownOps(d) = {log[c] : c \in 1..Len(log)}
  BY SettledKnowsLog
<1>2. op \in KnownOps(d) /\ op.ent = e /\ op \in AllOps
  BY <1>1 DEF LoggedOn, AllOps
<1>3. PICK k \in conflicts[d] : k.op = op.id
  BY <1>2 DEF Taken, AskedAbout
<1>4. RecordKept(d, k)
  BY DEF DecisionInv, RecordsKept
<1>5. k.ent = e
  <2>1. PICK o \in KnownOps(d) : o.id = k.op /\ o.ent = k.ent
    BY <1>4 DEF RecordKept
  <2>2. o \in AllOps
    BY KnownAre
  <2>3. o = op
    BY <1>2, <1>3, <2>1, <2>2 DEF SeenInv, SeenInTurn
  <2> QED
    BY <1>2, <2>1, <2>3
<1>6. ~k.pending
  BY <1>5 DEF Answered, Pending
<1>7. Unsent(d, e) = {}
  <2>1. Intents(d, e) = {}
    <3>1. Len(outbox[d]) = 0
      BY DEF Settled
    <3> QED
      BY <3>1 DEF Intents
  <2> QED
    BY <2>1 DEF Unsent
<1>8. PICK o \in KnownOps(d) : o.ent = e /\ k.op \in o.resolves
  BY <1>4, <1>5, <1>6, <1>7 DEF RecordKept
<1>9. o \in AllOps /\ o \in LoggedOn(e)
  BY <1>1, <1>8, KnownAre DEF LoggedOn
<1>10. PICK other \in AllOps : other.id = op.id /\ After(o, other)
  BY <1>3, <1>8, <1>9 DEF DecisionInv, NamesKnown, NamesSeen
<1>11. other = op
  BY <1>2, <1>10 DEF SeenInv, SeenInTurn
<1> QED
  BY <1>8, <1>9, <1>10, <1>11

\* So what counts on it is what counts of the whole log.
LEMMA LatestOfTheLog ==
    ASSUME TypeOK, AckInv, OrderInv, SeenInv, DecisionInv,
           NEW d \in Devices, NEW e \in Entities,
           Settled(d), Answered(d, e), DecidedInTurn(e)
    PROVE  Latest(Taken(d, e)) = Latest(LoggedOn(e))
<1>1. Taken(d, e) \subseteq LoggedOn(e)
  BY SettledKnowsLog DEF Taken, LoggedOn
<1>2. LoggedOn(e) \subseteq AllOps
  BY DEF LoggedOn, AllOps
<1>3. ASSUME NEW op \in Latest(LoggedOn(e))
      PROVE  op \in Latest(Taken(d, e))
  <2>1. op \in LoggedOn(e)
    BY DEF Latest
  <2>2. op \in Taken(d, e)
    <3> SUFFICES ASSUME op \notin Taken(d, e)
                 PROVE  FALSE
      OBVIOUS
    <3>1. PICK o \in LoggedOn(e) : o.resolves # {} /\ After(o, op)
      BY <2>1, LeftIsDecided
    <3>2. ~After(op, o)
      BY <1>2, <2>1, <3>1, AfterOnce
    <3>3. op = o \/ After(op, o)
      BY <3>1 DEF Latest
    <3> QED
      BY <3>1, <3>2, <3>3
  <2> QED
    BY <1>1, <2>2 DEF Latest
<1>4. ASSUME NEW op \in Latest(Taken(d, e))
      PROVE  op \in Latest(LoggedOn(e))
  <2>1. op \in Taken(d, e) /\ op \in LoggedOn(e) /\ op \in AllOps
    BY <1>1, <1>2 DEF Latest
  <2> SUFFICES ASSUME NEW other \in LoggedOn(e), other.resolves # {},
                      op # other, ~After(op, other)
               PROVE  FALSE
    BY <2>1 DEF Latest
  <2> DEFINE against == {c \in 1..Len(log) : /\ log[c].ent = e /\ log[c].resolves # {}
                                             /\ op # log[c] /\ ~After(op, log[c])}
  <2>2. against # {} /\ against \subseteq 1..Len(log) /\ Len(log) \in Nat
    <3>1. PICK c \in 1..Len(log) : log[c].ent = e /\ other = log[c]
      BY DEF LoggedOn
    <3>2. c \in against
      BY <3>1
    <3>3. Len(log) \in Nat
      BY DEF TypeOK
    <3> QED
      BY <3>2, <3>3
  <2>3. PICK m \in against : \A c \in against : c <= m
    <3> HIDE DEF against
    <3> QED
      BY <2>2, LargestExists
  <2>4. m \in 1..Len(log) /\ log[m] \in LoggedOn(e) /\ log[m] \in AllOps
    BY DEF LoggedOn, AllOps
  <2>5. log[m] \notin Taken(d, e)
    BY DEF Latest
  <2>6. PICK o \in LoggedOn(e) : o.resolves # {} /\ After(o, log[m])
    BY <2>4, <2>5, LeftIsDecided
  <2>7. PICK j \in 1..Len(log) : o = log[j] /\ log[j].ent = e
    BY DEF LoggedOn
  <2>8. PICK i \in 1..Len(log) : op = log[i] /\ log[i].ent = e
    BY <2>1 DEF LoggedOn
  <2>9. After(log[m], op)
    BY <2>4, <2>8, TurnsAlternate
  <2>10. After(o, op)
    BY <1>2, <2>1, <2>4, <2>6, <2>9, AfterTransitive
  <2>11. ~After(op, o)
    BY <1>2, <2>1, <2>10, AfterOnce
  <2>12. j \in against
    BY <2>6, <2>7, <2>10, <2>11
  <2>13. m < j
    BY <2>4, <2>6, <2>7, SeenIsEarlier
  <2>14. j <= m /\ j \in Nat /\ m \in Nat
    BY <2>3, <2>4, <2>7, <2>12
  <2> QED
    BY <2>13, <2>14
<1> QED
  BY <1>3, <1>4

\* The half of Convergence about entity states.
StatesConverge ==
    \A d, x \in Devices : \A e \in Entities :
       /\ Settled(d) /\ Answered(d, e) /\ Settled(x) /\ Answered(x, e)
       /\ DecidedInTurn(e) \/ (~Disputed(d, e) /\ ~Disputed(x, e))
       => state[d][e].hash = state[x][e].hash

\* Two devices that sent and read everything hold the same synchronized state of
\* every entity about which nobody was asked, or whoever was asked answered in
\* turn, whatever was lost, retried, reordered by a clock or overtaken.
THEOREM SettledStatesAgree == Spec => []StatesConverge
<1>1. /\ TypeOK /\ AckInv /\ OrderInv /\ UndisputedInv /\ SeenInv /\ DecisionInv /\ InTurnInv
      => StatesConverge
  <2> SUFFICES ASSUME TypeOK, AckInv, OrderInv, UndisputedInv, SeenInv, DecisionInv,
                      InTurnInv,
                      NEW d \in Devices, NEW x \in Devices, NEW e \in Entities,
                      Settled(d), Answered(d, e), Settled(x), Answered(x, e),
                      DecidedInTurn(e) \/ (~Disputed(d, e) /\ ~Disputed(x, e))
               PROVE  state[d][e].hash = state[x][e].hash
    BY DEF StatesConverge
  <2>1. state[d][e].hash \in Hashes /\ state[x][e].hash \in Hashes
    BY DEF TypeOK, States
  <2>2. CASE ~Disputed(d, e) /\ ~Disputed(x, e)
    <3>1. OpsOf(x, e) = OpsOf(d, e)
      BY SettledKnows
    <3>2. /\ History(OpsOf(d, e), state[d][e].hash, e)
          /\ History(OpsOf(d, e), state[x][e].hash, e)
      BY <2>2, <3>1 DEF UndisputedInv, Told
    <3>3. \A op \in OpsOf(d, e) : op.res \in Hashes
      BY OpsAre DEF UndisputedInv, Operations
    <3> QED
      BY <2>1, <3>2, <3>3, SameHistory
  <2>3. CASE DecidedInTurn(e)
    <3> DEFINE ops == Latest(LoggedOn(e))
    <3>1. Latest(Taken(d, e)) = ops /\ Latest(Taken(x, e)) = ops
      BY <2>3, LatestOfTheLog
    <3>2. History(ops, state[d][e].hash, e) /\ History(ops, state[x][e].hash, e)
      BY <2>3, <3>1 DEF InTurnInv, InTurn, TurnHistory
    <3>3. \A op \in ops : op.res \in Hashes
      <4>1. \A op \in ops : op \in Operations
        BY DEF Latest, LoggedOn, TypeOK
      <4> QED
        BY <4>1, OpNumbers
    <3> HIDE DEF ops
    <3> QED
      BY <2>1, <3>2, <3>3, SameHistory
  <2> QED
    BY <2>2, <2>3
<1> QED
  BY <1>1, TypeCorrect, AckInvariant, OrderInvariant, UndisputedInvariant, SeenInvariant,
     DecisionInvariant, InTurnInvariant, PTL

\* Where no device's clock steps back, they also show the same value in their
\* finance tables, unless an unprepared intent was overtaken on one of them.
THEOREM SettledDevicesAgree ==
    ASSUME MaxClockSteps = 0 PROVE Spec => []Convergence
<1>1. StatesConverge /\ LocalValueExplained => Convergence
  <2> SUFFICES ASSUME StatesConverge, LocalValueExplained,
                      NEW d \in Devices, NEW x \in Devices, NEW e \in Entities,
                      Settled(d), Answered(d, e), Settled(x), Answered(x, e),
                      DecidedInTurn(e) \/ (~Disputed(d, e) /\ ~Disputed(x, e))
               PROVE  /\ state[d][e].hash = state[x][e].hash
                      /\ {<<d, e>>, <<x, e>>} \cap overtaken = {} => table[d][e] = table[x][e]
    BY DEF Convergence
  <2>1. state[d][e].hash = state[x][e].hash
    BY DEF StatesConverge
  <2>2. ASSUME NEW y \in {d, x}, <<y, e>> \notin overtaken
        PROVE  table[y][e] = state[y][e].hash.val
    <3>1. {i \in 1..Len(outbox[y]) : ~Prepared(outbox[y][i]) /\ e \in Touched(outbox[y][i])} = {}
      <4>1. outbox[y] = <<>>
        BY DEF Settled
      <4> QED
        BY <4>1
    <3> QED
      BY <2>2, <3>1 DEF LocalValueExplained
  <2> QED
    BY <2>1, <2>2
<1> QED
  BY <1>1, SettledStatesAgree, LocalWorkStays, PTL
=============================================================================
