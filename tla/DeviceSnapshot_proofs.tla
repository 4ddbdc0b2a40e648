----------------------- MODULE DeviceSnapshot_proofs -----------------------
(***************************************************************************)
(* Proofs about DeviceSnapshot, for all sets of devices and entities, any  *)
(* owners and all bounds: a snapshot says what the log up to its cursor    *)
(* says (SnapshotsFollowLog), so do the finance tables (TablesExplained),  *)
(* a device holds what its revision stands for (PinnedIsHeld), and its     *)
(* intents can be prepared (OutboxNeverStuck).                             *)
(***************************************************************************)
EXTENDS DeviceSnapshot, WellFoundedInduction, TLAPS

-----------------------------------------------------------------------------
(* The inductive invariant.                                                *)

EntityStates == [ver : Nat, val : Nat, last : (Devices \X Nat) \cup {None}]
Stores == [Entities -> EntityStates]
Frontiers == [Devices -> Nat]
Operations == [dev : Devices, seq : Nat, ent : Entities, pre : EntityStates,
               causal : Frontiers, res : EntityStates]
SnapshotRecords == [data : [Entities -> Nat], st : Stores, front : Frontiers,
                    cursor : Nat, epoch : Nat, dev : Devices]
OutboxIntents == [ent : Entities, prev : Nat, val : Nat]

\* The types without the bounds of the instance that is checked.
Typed ==
    /\ log \in Seq(Operations) /\ snaps \in Seq(SnapshotRecords)
    /\ acked \in [Devices -> Nat] /\ active \subseteq Devices /\ epoch \in Nat
    /\ mode \in [Devices -> Modes \cup {None}]
    /\ rev \in [Devices -> Nat] /\ pin \in [Devices -> Nat]
    /\ block \in [Devices -> Blocks \cup {None}]
    /\ cursor \in [Devices -> Nat] /\ owes \in [Devices -> Nat] /\ era \in [Devices -> Nat]
    /\ table \in [Devices -> [Entities -> Nat]] /\ st \in [Devices -> Stores]
    /\ front \in [Devices -> Frontiers] /\ inbox \in [Devices -> SUBSET Nat]
    /\ outbox \in [Devices -> Seq(OutboxIntents)] /\ conflict \in [Devices -> BOOLEAN]
    /\ at \in [Devices -> Phases] /\ shot \in [Devices -> SnapshotRecords \cup {None}]
    /\ unaudited \subseteq Devices \X Entities

Complete(d) == mode[d] = "complete"
Uploading(d) == at[d] \in {"send", "store"}

\* What an operation accepted by the service says of its device.
LogFits ==
    \A c \in DOMAIN log :
       /\ log[c].dev = Owner[log[c].ent] /\ c \in inbox[log[c].dev]
       /\ log[c].res.ver = log[c].pre.ver + 1 /\ log[c].res.val > 0

\* A phase, a mode and a revision that go together.
PhaseFits(d) ==
    /\ at[d] \in {"operations", "snapshot", "acknowledge"} => rev[d] > 0
    /\ at[d] = "bootstrap" => rev[d] = 0
    /\ Complete(d) <=> rev[d] > 0
    /\ mode[d] = "creator-upload" =>
          d = Creator /\ \A e \in Initially : table[d][e] > 0

\* A device without a revision has no sync state, sent nothing, and stopped if
\* it met a conflict.
FreshFits(d) ==
    rev[d] = 0 =>
       /\ cursor[d] = 0 /\ inbox[d] = {} /\ outbox[d] = <<>>
       /\ st[d] = [e \in Entities |-> Absent]
       /\ conflict[d] => block[d] # None

\* Cursors and revisions are behind the service; past its cursor a device has
\* only its own operations, and none of those once it has pulled.
CursorFits(d) ==
    /\ cursor[d] <= Len(log) /\ rev[d] <= Len(snaps) /\ acked[d] <= rev[d]
    /\ inbox[d] \subseteq DOMAIN log
    /\ \A c \in inbox[d] : c > cursor[d] => log[c].dev = d
    /\ at[d] = "snapshot" \/ Uploading(d) =>
          \A c \in DOMAIN log : log[c].dev = d => c <= cursor[d]

\* No snapshot is made in a cycle that left a conflict.
CalmFits(d) ==
    at[d] \in {"bootstrap", "snapshot"} \/ Uploading(d) => ~conflict[d]

\* A value of a snapshot, or of a table at a cursor: the log's, or that of an
\* entity whose owner has not sent its creation.
Follows(val, e, c) ==
    \/ val = Truth(e, c)
    \/ Truth(e, c) = 0 /\ Complete(Owner[e])
SnapshotFits(s) ==
    /\ s.cursor <= Len(log)
    /\ \A e \in Entities : s.st[e].val = s.data[e] /\ Follows(s.data[e], e, s.cursor)

SnapsFit ==
    /\ \A r \in DOMAIN snaps : SnapshotFits(snaps[r])
    /\ snaps # <<>> => \E e \in Entities : snaps[1].data[e] # 0

\* What is being uploaded was read by this cycle, and is committed when the
\* answer is awaited.  The data of a first snapshot differ from the tables
\* only by edits that were never recorded.
ShotFits(d) ==
    Uploading(d) =>
       /\ shot[d] \in SnapshotRecords /\ shot[d].cursor = cursor[d]
       /\ \A e \in Entities : /\ shot[d].st[e] = Known(st[d][e], shot[d].data[e])
                              /\ shot[d].st[e].val = shot[d].data[e]
       /\ IF Complete(d)
          THEN \A e \in Entities : Follows(shot[d].data[e], e, cursor[d])
          ELSE /\ \E e \in Entities : shot[d].data[e] # 0
               /\ \A e \in Entities : \/ shot[d].data[e] = table[d][e]
                                      \/ Owner[e] = d /\ <<d, e>> \in unaudited
       /\ at[d] = "store" => rev[d] < Len(snaps) /\ snaps[rev[d] + 1] = shot[d]

\* PinnedIsHeld for one device.
HeldFits(d) ==
    rev[d] > 0 =>
       /\ cursor[d] >= snaps[rev[d]].cursor
       /\ \A e \in Entities : st[d][e].ver >= snaps[rev[d]].st[e].ver

\* The intents on an entity follow one another, and end in the tables.
QueueFits(d) ==
    \A i \in DOMAIN outbox[d] :
       LET intent == outbox[d][i] IN
       /\ Owner[intent.ent] = d /\ intent.val > 0
       /\ \A j \in Intents(d, intent.ent) :
             i < j /\ (\A k \in Intents(d, intent.ent) : k <= i \/ j <= k)
                => outbox[d][j].prev = intent.val
       /\ (\A k \in Intents(d, intent.ent) : k <= i) => intent.val = table[d][intent.ent]

\* The value an owner's first intent starts from, or its tables have.
Base(d, e, val) ==
    IF Intents(d, e) = {} THEN val = table[d][e]
    ELSE \E i \in Intents(d, e) : /\ \A k \in Intents(d, e) : i <= k
                                  /\ val = outbox[d][i].prev

\* A snapshot has the entity, and the log up to its cursor does not.
EarlySnapshot(e) ==
    \E r \in DOMAIN snaps : snaps[r].st[e] # Absent /\ CapturedEarly(e, snaps[r].cursor)

\* The owner of an entity goes on from what the log says.
OwnerFits(d) ==
    Complete(d) => \A e \in Entities : Owner[e] = d =>
       /\ <<d, e>> \in unaudited \/ Base(d, e, Truth(e, Len(log)))
       /\ CapturedEarly(e, Len(log)) \/ st[d][e].val = Truth(e, Len(log))
       /\ CapturedEarly(e, Len(log)) /\ st[d][e] # Absent => EarlySnapshot(e)

\* The others have what the log up to their cursor says.
TableFits(d) ==
    Complete(d) /\ ~conflict[d] => \A e \in Entities : Owner[e] # d =>
       Follows(table[d][e], e, cursor[d])

DeviceFits(d) ==
    /\ PhaseFits(d) /\ FreshFits(d) /\ CursorFits(d) /\ CalmFits(d) /\ ShotFits(d)
    /\ HeldFits(d) /\ QueueFits(d) /\ OwnerFits(d) /\ TableFits(d)

IInv == Typed /\ LogFits /\ SnapsFit /\ \A d \in Devices : DeviceFits(d)

-----------------------------------------------------------------------------
(* Largest numbers, and what the log says.                                   *)

\* A set of natural numbers that is not empty has a smallest one.
LEMMA SmallestIs ==
    ASSUME NEW S, S \subseteq Nat, S # {}
    PROVE  \E x \in S : \A y \in S : x <= y
<1> DEFINE R == {ss \in Nat \X Nat : ss[1] < ss[2]}
<1>1. \A x, y \in Nat : <<y, x>> \in R <=> y < x
  OBVIOUS
<1>2. IsWellFoundedOn(R, Nat)
  BY NatLessThanWellFounded, Zenon DEF OpToRel
<1> HIDE DEF R
<1>3. PICK x \in S : \A y \in S : ~(<<y, x>> \in R)
  BY <1>2, WFMin
<1>4. \A y \in S : x <= y
  <2> TAKE y \in S
  <2>1. x \in Nat /\ y \in Nat /\ ~(y < x)
    BY <1>1, <1>3
  <2> QED
    BY <2>1
<1> QED
  BY <1>4

\* What holds of a number, and of each number after one it holds of.
LEMMA NumbersInTurn ==
    ASSUME NEW S, 0 \in S, \A n \in Nat : n \in S => n + 1 \in S
    PROVE  Nat \subseteq S
<1> SUFFICES ASSUME Nat \ S # {} PROVE FALSE
  OBVIOUS
<1>1. PICK n \in Nat \ S : \A m \in Nat \ S : n <= m
  BY SmallestIs
<1>2. n # 0 /\ n - 1 \in Nat
  BY <1>1
<1>3. n - 1 \in S
  BY <1>1, <1>2
<1> QED
  BY <1>1, <1>2, <1>3

\* A bounded set of natural numbers that is not empty has a largest one.
LEMMA MaxIs ==
    ASSUME NEW S, S \subseteq Nat, S # {}, NEW n \in Nat, \A x \in S : x <= n
    PROVE  Max(S) \in S /\ \A y \in S : y <= Max(S)
<1> DEFINE T == {n - x : x \in S}
<1>0. \A x \in S : x \in Nat /\ n - x \in Nat
  OBVIOUS
<1>1. T \subseteq Nat /\ T # {}
  BY <1>0
<1>2. PICK m \in T : \A y \in T : m <= y
  <2> HIDE DEF T
  <2> QED
    BY <1>1, SmallestIs
<1>3. PICK x \in S : m = n - x
  BY <1>2
<1>4. \A y \in S : y <= x
  <2> TAKE y \in S
  <2>1. n - y \in T
    OBVIOUS
  <2>2. n - x <= n - y
    BY <1>2, <1>3, <2>1
  <2>3. x \in Nat /\ y \in Nat
    OBVIOUS
  <2> QED
    BY <2>2, <2>3
<1> QED
  BY <1>4 DEF Max

\* Truth for any log and any snapshots.
OpsOn(lg, e, c) == {k \in 1..c : lg[k].ent = e}
TruthOf(lg, sn, e, c) ==
    IF OpsOn(lg, e, c) # {} THEN lg[Max(OpsOn(lg, e, c))].res.val
    ELSE IF sn = <<>> THEN 0 ELSE sn[1].data[e]

\* Truth is that of the log and the snapshots of the state.
LEMMA TruthIs ==
    ASSUME NEW e, NEW c
    PROVE  /\ Truth(e, c) = TruthOf(log, snaps, e, c)
           /\ Truth(e, c)' = TruthOf(log', snaps', e, c)
BY DEF Truth, TruthOf, OpsOn

\* The last operation on an entity is among those on it.
LEMMA LastOp ==
    ASSUME NEW lg, NEW e, NEW c \in Nat, OpsOn(lg, e, c) # {}
    PROVE  /\ Max(OpsOn(lg, e, c)) \in OpsOn(lg, e, c)
           /\ \A k \in OpsOn(lg, e, c) : k <= Max(OpsOn(lg, e, c))
<1>1. OpsOn(lg, e, c) \subseteq Nat /\ \A k \in OpsOn(lg, e, c) : k <= c
  BY DEF OpsOn
<1> QED
  BY <1>1, MaxIs

\* The last operation on an entity decides.
LEMMA TruthOfLast ==
    ASSUME NEW lg, NEW sn, NEW e, NEW c \in Nat, NEW k \in 1..c,
           lg[k].ent = e, \A j \in (k + 1)..c : lg[j].ent # e
    PROVE  TruthOf(lg, sn, e, c) = lg[k].res.val
<1>1. k \in OpsOn(lg, e, c)
  BY DEF OpsOn
<1>2. /\ Max(OpsOn(lg, e, c)) \in OpsOn(lg, e, c)
      /\ k <= Max(OpsOn(lg, e, c))
  BY <1>1, LastOp
<1>3. Max(OpsOn(lg, e, c)) = k
  <2> DEFINE m == Max(OpsOn(lg, e, c))
  <2>1. m \in 1..c /\ lg[m].ent = e
    BY <1>2 DEF OpsOn
  <2> HIDE DEF m
  <2>2. k <= m
    BY <1>2 DEF m
  <2>3. m = k
    BY <2>1, <2>2
  <2> QED
    BY <2>3 DEF m
<1> QED
  BY <1>1, <1>3 DEF TruthOf

\* Without an operation on it, the first snapshot decides.
LEMMA TruthOfNone ==
    ASSUME NEW lg, NEW sn, NEW e, NEW c \in Nat, \A k \in 1..c : lg[k].ent # e
    PROVE  TruthOf(lg, sn, e, c) = IF sn = <<>> THEN 0 ELSE sn[1].data[e]
BY DEF TruthOf, OpsOn

\* Two logs that have the same operations on an entity say the same of it.
LEMMA TruthOfSame ==
    ASSUME NEW lg, NEW lh, NEW sn, NEW sm, NEW e, NEW c \in Nat, NEW b \in Nat,
           c <= b,
           \A k \in 1..c : lg[k] = lh[k],
           \A k \in (c + 1)..b : lh[k].ent # e,
           sn = sm \/ (sn # <<>> /\ sm # <<>> /\ sn[1] = sm[1])
    PROVE  TruthOf(lg, sn, e, c) = TruthOf(lh, sm, e, b)
<1>1. OpsOn(lg, e, c) = OpsOn(lh, e, b)
  BY DEF OpsOn
<1>2. OpsOn(lg, e, c) # {} => Max(OpsOn(lg, e, c)) \in 1..c
  <2>1. OpsOn(lg, e, c) \subseteq 1..c
    BY DEF OpsOn
  <2> QED
    BY <2>1, LastOp
<1> DEFINE S == OpsOn(lg, e, c)
<1>3. S # {} => lg[Max(S)] = lh[Max(S)]
  BY <1>2
<1>4. sn = <<>> <=> sm = <<>>
  OBVIOUS
<1>5. sn # <<>> => sn[1] = sm[1]
  OBVIOUS
<1>6. TruthOf(lg, sn, e, c) =
        IF S # {} THEN lg[Max(S)].res.val ELSE IF sn = <<>> THEN 0 ELSE sn[1].data[e]
  BY DEF TruthOf
<1>7. TruthOf(lh, sm, e, b) =
        IF S # {} THEN lh[Max(S)].res.val ELSE IF sm = <<>> THEN 0 ELSE sm[1].data[e]
  BY <1>1 DEF TruthOf
<1> HIDE DEF S
<1> QED
  BY <1>3, <1>4, <1>5, <1>6, <1>7

-----------------------------------------------------------------------------
(* What Pull computes.                                                       *)

\* The function Applied is defined by, with its parameters.
Body(g, c, lo, start, own, lg) ==
    IF c = lo THEN start
    ELSE IF c \in own THEN g[c - 1] ELSE Apply(g[c - 1], lg[c])
Steps(g, lo, hi, start, own, lg) ==
    g = [c \in lo..hi |-> Body(g, c, lo, start, own, lg)]

\* There is such a function, for any number of operations.
LEMMA StepsExist ==
    ASSUME NEW lo \in Nat, NEW hi \in Nat, lo <= hi, NEW start, NEW own, NEW lg
    PROVE  \E g : Steps(g, lo, hi, start, own, lg)
<1> DEFINE P == {n \in Nat : \E g : Steps(g, lo, lo + n, start, own, lg)}
<1>1. 0 \in P
  <2> DEFINE g == [c \in lo..lo |-> start]
  <2>1. \A c \in lo..lo : Body(g, c, lo, start, own, lg) = start
    BY DEF Body
  <2>2. Steps(g, lo, lo + 0, start, own, lg)
    BY <2>1 DEF Steps
  <2> QED
    BY <2>2
<1>2. ASSUME NEW n \in Nat, n \in P
      PROVE  n + 1 \in P
  <2>1. PICK f : Steps(f, lo, lo + n, start, own, lg)
    BY <1>2
  <2> DEFINE top == lo + n + 1
             g == [c \in lo..top |-> IF c = top THEN Body(f, c, lo, start, own, lg) ELSE f[c]]
  <2>2. \A c \in lo..top : c # top => c \in lo..(lo + n) /\ g[c] = f[c]
    OBVIOUS
  <2>3. \A c \in lo..(lo + n) : f[c] = Body(f, c, lo, start, own, lg)
    BY <2>1 DEF Steps
  <2>4. \A c \in lo..top : Body(g, c, lo, start, own, lg) = Body(f, c, lo, start, own, lg)
    <3> TAKE c \in lo..top
    <3>1. c # lo => c - 1 \in lo..top /\ c - 1 # top
      OBVIOUS
    <3>2. c # lo => g[c - 1] = f[c - 1]
      BY <2>2, <3>1
    <3> HIDE DEF g, top
    <3> QED
      BY <3>2 DEF Body
  <2>5. g[top] = Body(f, top, lo, start, own, lg)
    OBVIOUS
  <2>6. \A c \in lo..top : g[c] = Body(g, c, lo, start, own, lg)
    <3> TAKE c \in lo..top
    <3>1. CASE c = top
      <4> HIDE DEF g, top
      <4> QED
        BY <2>4, <2>5, <3>1
    <3>2. CASE c # top
      <4> HIDE DEF g, top
      <4> QED
        BY <2>2, <2>3, <2>4, <3>2
    <3> QED
      BY <3>1, <3>2
  <2>7. g = [c \in lo..top |-> g[c]]
    OBVIOUS
  <2>8. Steps(g, lo, top, start, own, lg)
    <3> HIDE DEF g, top
    <3> QED
      BY <2>6, <2>7 DEF Steps
  <2>9. top = lo + (n + 1)
    OBVIOUS
  <2> QED
    <3> HIDE DEF g, top
    <3> QED
      BY <2>8, <2>9
<1> HIDE DEF P
<1>3. Nat \subseteq P
  BY <1>1, <1>2, NumbersInTurn
<1>4. hi - lo \in P
  BY <1>3
<1>5. lo + (hi - lo) = hi
  OBVIOUS
<1> QED
  BY <1>4, <1>5 DEF P

Start0(d) == [table |-> table[d], st |-> st[d], front |-> front[d],
              conflict |-> conflict[d]]

\* Applied starts from the stores, and applies what was not in the inbox.
LEMMA AppliedSteps ==
    ASSUME NEW d \in Devices, cursor[d] \in Nat, Len(log) \in Nat, cursor[d] <= Len(log)
    PROVE  \A c \in cursor[d]..Len(log) :
              Applied(d)[c] = IF c = cursor[d] THEN Start0(d)
                              ELSE IF c \in inbox[d] THEN Applied(d)[c - 1]
                              ELSE Apply(Applied(d)[c - 1], log[c])
<1> DEFINE Good(g) == Steps(g, cursor[d], Len(log), Start0(d), inbox[d], log)
<1>1. Applied(d) = CHOOSE g : Good(g)
  BY Zenon DEF Applied, Steps, Body, Start0
<1>2. \E g : Good(g)
  BY StepsExist
<1>3. Good(Applied(d))
  BY <1>1, <1>2, Zenon
<1> DEFINE A == Applied(d)
<1>4. A = [c \in cursor[d]..Len(log) |->
             Body(A, c, cursor[d], Start0(d), inbox[d], log)]
  BY <1>3, Zenon DEF Steps
<1> HIDE DEF A
<1>5. \A c \in cursor[d]..Len(log) :
         A[c] = Body(A, c, cursor[d], Start0(d), inbox[d], log)
  BY <1>4
<1> QED
  BY <1>5 DEF Body, A

StoreRecords == [table : [Entities -> Nat], st : Stores, front : Frontiers,
                 conflict : BOOLEAN]

\* The stores of a device that applied the log up to a cursor.
Merged(store, d, c) ==
    /\ store \in StoreRecords
    /\ conflict[d] => store.conflict
    /\ \A e \in Entities :
          /\ Owner[e] = d => store.table[e] = table[d][e] /\ store.st[e] = st[d][e]
          /\ store.st[e].ver >= st[d][e].ver
    /\ ~store.conflict =>
          \A e \in Entities : Owner[e] # d => Follows(store.table[e], e, c)

\* A stored state, or version 1 of a value that has none.
LEMMA KnownType ==
    ASSUME NEW s \in EntityStates, NEW v \in Nat
    PROVE  /\ Known(s, v) \in EntityStates
           /\ Known(s, v).ver >= s.ver
           /\ s # Absent => Known(s, v) = s
           /\ s = Absent /\ v # 0 => Known(s, v) = Live(1, v, None)
           /\ s = Absent /\ v = 0 => Known(s, v) = Absent
           /\ Absent \in EntityStates /\ Absent.ver = 0 /\ Absent.val = 0
BY DEF Known, EntityStates, Absent, Live

\* What an operation writes to the stores it is applied to.
LEMMA ApplyWrites ==
    ASSUME NEW s \in StoreRecords, NEW op \in Operations
    PROVE  /\ Apply(s, op) \in StoreRecords
           /\ s.conflict => Apply(s, op).conflict
           /\ \A e \in Entities : e # op.ent =>
                 /\ Apply(s, op).table[e] = s.table[e]
                 /\ Apply(s, op).st[e] = s.st[e]
           /\ op.res.ver = op.pre.ver + 1 =>
                 Apply(s, op).st[op.ent].ver >= s.st[op.ent].ver
           /\ Apply(s, op).conflict \/ Apply(s, op).table[op.ent] = op.res.val
<1> DEFINE e == op.ent
           k == Known(s.st[e], s.table[e])
           fits == Same(op.pre, k) \/ Same(op.res, k)
<1>1. /\ op.dev \in Devices /\ op.seq \in Nat /\ e \in Entities
      /\ op.pre \in EntityStates /\ op.res \in EntityStates
  BY DEF Operations
<1>2. /\ s.table \in [Entities -> Nat] /\ s.st \in Stores /\ s.front \in Frontiers
      /\ s.conflict \in BOOLEAN
      /\ s = [table |-> s.table, st |-> s.st, front |-> s.front, conflict |-> s.conflict]
  BY DEF StoreRecords
<1>3. /\ s.st[e] \in EntityStates /\ s.table[e] \in Nat /\ op.res.val \in Nat
      /\ op.res.ver \in Nat /\ op.pre.ver \in Nat
  BY <1>1, <1>2 DEF Stores, EntityStates
<1>4. k \in EntityStates /\ k.ver >= s.st[e].ver
  BY <1>3, KnownType
<1> DEFINE new == [table |-> [s.table EXCEPT ![e] = op.res.val],
                   st |-> [s.st EXCEPT ![e] = op.res],
                   front |-> [s.front EXCEPT ![op.dev] = op.seq],
                   conflict |-> s.conflict]
           refused == [table |-> s.table, st |-> s.st,
                       front |-> [s.front EXCEPT ![op.dev] = op.seq], conflict |-> TRUE]
<1>5. Apply(s, op) =
        [table |-> IF fits THEN [s.table EXCEPT ![e] = op.res.val] ELSE s.table,
         st |-> IF fits THEN [s.st EXCEPT ![e] = op.res] ELSE s.st,
         front |-> [s.front EXCEPT ![op.dev] = op.seq], conflict |-> s.conflict \/ ~fits]
  BY Zenon DEF Apply
<1>6. CASE fits
  <2>1. Apply(s, op) = new
    <3> HIDE DEF e
    <3> QED
      BY <1>2, <1>5, <1>6
  <2>2. op.res.ver = op.pre.ver + 1 => op.res.ver >= s.st[e].ver
    <3>1. op.pre.ver = k.ver \/ op.res.ver = k.ver
      BY <1>6 DEF Same
    <3> HIDE DEF k
    <3>2. k.ver \in Nat /\ s.st[e].ver \in Nat
      BY <1>3, <1>4 DEF EntityStates
    <3> QED
      BY <1>3, <1>4, <3>1, <3>2
  <2>3. /\ [s.table EXCEPT ![e] = op.res.val] \in [Entities -> Nat]
        /\ [s.st EXCEPT ![e] = op.res] \in Stores
        /\ [s.front EXCEPT ![op.dev] = op.seq] \in Frontiers
    BY <1>1, <1>2, <1>3 DEF Stores, Frontiers
  <2>4. new \in StoreRecords
    BY <1>2, <2>3 DEF StoreRecords
  <2>5. /\ \A x \in Entities : x # e => new.table[x] = s.table[x] /\ new.st[x] = s.st[x]
        /\ new.st[e] = op.res /\ new.table[e] = op.res.val /\ new.conflict = s.conflict
    BY <1>1, <1>2 DEF Stores
  <2> HIDE DEF new, fits
  <2> QED
    BY <2>1, <2>2, <2>4, <2>5
<1>7. CASE ~fits
  <2>1. Apply(s, op) = refused
    <3> HIDE DEF e
    <3> QED
      BY <1>2, <1>5, <1>7
  <2>2. [s.front EXCEPT ![op.dev] = op.seq] \in Frontiers
    BY <1>1, <1>2 DEF Frontiers
  <2>3. refused \in StoreRecords
    BY <1>2, <2>2 DEF StoreRecords
  <2>4. refused.table = s.table /\ refused.st = s.st /\ refused.conflict
    OBVIOUS
  <2>5. s.st[e].ver \in Nat
    BY <1>3 DEF EntityStates
  <2> HIDE DEF refused, fits
  <2> QED
    BY <2>1, <2>3, <2>4, <2>5
<1> QED
  BY <1>6, <1>7

\* Between two cursors without an operation on an entity, the log says the same.
LEMMA TruthSettled ==
    ASSUME NEW e, NEW c \in Nat, NEW b \in Nat, c <= b,
           \A k \in (c + 1)..b : log[k].ent # e
    PROVE  Truth(e, c) = Truth(e, b)
BY TruthOfSame, TruthIs

\* Applying one more operation: the stores go on from one cursor to the next.
LEMMA MergesOne ==
    ASSUME Typed, LogFits, NEW d \in Devices, CursorFits(d),
           NEW c \in (cursor[d] + 1)..Len(log), NEW s, Merged(s, d, c - 1)
    PROVE  Merged(IF c \in inbox[d] THEN s ELSE Apply(s, log[c]), d, c)
<1>1. /\ cursor[d] \in Nat /\ Len(log) \in Nat /\ c \in Nat /\ c \in DOMAIN log
      /\ log[c] \in Operations /\ c - 1 \in Nat /\ c - 1 <= c
  BY DEF Typed
<1>2. /\ log[c].dev = Owner[log[c].ent] /\ log[c].res.ver = log[c].pre.ver + 1
      /\ c \in inbox[log[c].dev] /\ log[c].ent \in Entities /\ log[c].res.val > 0
  BY <1>1 DEF LogFits, Operations
<1>3. \A e : e # log[c].ent => Truth(e, c - 1) = Truth(e, c)
  <2> TAKE e
  <2> HAVE e # log[c].ent
  <2>1. \A k \in ((c - 1) + 1)..c : log[k].ent # e
    BY <1>1
  <2> QED
    BY <1>1, <2>1, TruthSettled
<1>4. Truth(log[c].ent, c) = log[c].res.val
  <2>1. \A j \in (c + 1)..c : log[j].ent # log[c].ent
    BY <1>1
  <2>2. c \in 1..c
    BY <1>1
  <2> QED
    BY <1>1, <2>1, <2>2, TruthOfLast, TruthIs
<1>5. \A e, v : e # log[c].ent /\ Follows(v, e, c - 1) => Follows(v, e, c)
  BY <1>3 DEF Follows
<1>6. CASE c \in inbox[d]
  <2>1. log[c].dev = d
    BY <1>1, <1>6 DEF CursorFits
  <2>2. \A e \in Entities : Owner[e] # d => e # log[c].ent
    BY <1>2, <2>1
  <2>3. Merged(s, d, c)
    BY <1>5, <2>2 DEF Merged
  <2> QED
    BY <1>6, <2>3
<1>7. CASE c \notin inbox[d]
  <2> DEFINE op == log[c]
             t == Apply(s, op)
  <2>1. op.dev # d /\ Owner[op.ent] # d
    BY <1>2, <1>7
  <2>2. s \in StoreRecords
    BY DEF Merged
  <2>3. /\ t \in StoreRecords
        /\ s.conflict => t.conflict
        /\ \A e \in Entities : e # op.ent => t.table[e] = s.table[e] /\ t.st[e] = s.st[e]
        /\ t.st[op.ent].ver >= s.st[op.ent].ver
        /\ t.conflict \/ t.table[op.ent] = op.res.val
    BY <1>1, <1>2, <2>2, ApplyWrites
  <2> HIDE DEF t
  <2>4. \A e \in Entities : /\ t.st[e].ver \in Nat /\ s.st[e].ver \in Nat
                            /\ st[d][e].ver \in Nat
    <3>1. t.st \in Stores /\ s.st \in Stores
      BY <2>2, <2>3 DEF StoreRecords
    <3>2. st[d] \in Stores
      BY DEF Typed
    <3> QED
      BY <3>1, <3>2 DEF Stores, EntityStates
  <2>5. \A e \in Entities : t.st[e].ver >= st[d][e].ver
    <3> TAKE e \in Entities
    <3>1. s.st[e].ver >= st[d][e].ver
      BY DEF Merged
    <3>2. t.st[e].ver >= s.st[e].ver
      BY <2>3, <2>4
    <3> QED
      BY <2>4, <3>1, <3>2
  <2>6. \A e \in Entities : Owner[e] = d => t.table[e] = table[d][e] /\ t.st[e] = st[d][e]
    BY <2>1, <2>3 DEF Merged
  <2>7. ASSUME ~t.conflict, NEW e \in Entities, Owner[e] # d
        PROVE  Follows(t.table[e], e, c)
    <3>1. CASE e = op.ent
      BY <1>4, <2>3, <2>7, <3>1 DEF Follows
    <3>2. CASE e # op.ent
      <4>1. Follows(s.table[e], e, c - 1)
        BY <2>3, <2>7 DEF Merged
      <4> QED
        BY <1>5, <2>3, <3>2, <4>1
    <3> QED
      BY <3>1, <3>2
  <2>8. conflict[d] => t.conflict
    BY <2>3 DEF Merged
  <2>9. Merged(t, d, c)
    BY <2>3, <2>5, <2>6, <2>7, <2>8 DEF Merged
  <2> QED
    BY <1>7, <2>9 DEF t
<1> QED
  BY <1>6, <1>7

\* What Pull writes are the stores at the end of the log.
LEMMA PullMerges ==
    ASSUME Typed, LogFits, NEW d \in Devices, CursorFits(d), TableFits(d), Complete(d)
    PROVE  Merged(Applied(d)[Len(log)], d, Len(log))
<1> DEFINE lo == cursor[d]
           P == {n \in Nat : lo + n <= Len(log) => Merged(Applied(d)[lo + n], d, lo + n)}
<1>1. lo \in Nat /\ Len(log) \in Nat /\ lo <= Len(log)
  BY DEF Typed, CursorFits
<1>2. \A c \in lo..Len(log) :
         Applied(d)[c] = IF c = lo THEN Start0(d)
                         ELSE IF c \in inbox[d] THEN Applied(d)[c - 1]
                         ELSE Apply(Applied(d)[c - 1], log[c])
  BY <1>1, AppliedSteps
<1>3. 0 \in P
  <2>1. Applied(d)[lo] = Start0(d)
    BY <1>1, <1>2
  <2>2. Start0(d) \in StoreRecords
    BY DEF Typed, Start0, StoreRecords
  <2>3. \A e \in Entities : st[d][e].ver \in Nat
    BY DEF Typed, Stores, EntityStates
  <2>4. ~conflict[d] => \A e \in Entities : Owner[e] # d => Follows(table[d][e], e, lo)
    BY DEF TableFits
  <2>5. Merged(Start0(d), d, lo)
    <3>1. /\ Start0(d).table = table[d] /\ Start0(d).st = st[d]
          /\ Start0(d).conflict = conflict[d]
      BY DEF Start0
    <3> QED
      BY <2>2, <2>3, <2>4, <3>1 DEF Merged
  <2>6. lo + 0 = lo
    BY <1>1
  <2> QED
    BY <2>1, <2>5, <2>6
<1>4. ASSUME NEW n \in Nat, n \in P
      PROVE  n + 1 \in P
  <2> SUFFICES ASSUME lo + (n + 1) <= Len(log)
               PROVE  Merged(Applied(d)[lo + (n + 1)], d, lo + (n + 1))
    OBVIOUS
  <2> DEFINE c == lo + (n + 1)
  <2>1. c \in (lo + 1)..Len(log) /\ c - 1 = lo + n /\ lo + n <= Len(log)
    BY <1>1
  <2>2. Merged(Applied(d)[c - 1], d, c - 1)
    BY <1>4, <2>1
  <2>3. Merged(IF c \in inbox[d] THEN Applied(d)[c - 1] ELSE Apply(Applied(d)[c - 1], log[c]), d, c)
    <3> HIDE DEF c
    <3> QED
      BY <2>1, <2>2, MergesOne
  <2>4. Applied(d)[c] = IF c \in inbox[d] THEN Applied(d)[c - 1]
                        ELSE Apply(Applied(d)[c - 1], log[c])
    <3>1. c \in lo..Len(log) /\ c # lo
      BY <1>1, <2>1
    <3> HIDE DEF c
    <3> QED
      BY <1>2, <3>1
  <2> QED
    <3> HIDE DEF c
    <3>1. Merged(Applied(d)[c], d, c)
      BY <2>3, <2>4
    <3> QED
      BY <3>1 DEF c
<1> HIDE DEF P
<1>5. Nat \subseteq P
  BY <1>3, <1>4, NumbersInTurn
<1>6. Len(log) - lo \in P /\ lo + (Len(log) - lo) = Len(log)
  BY <1>1, <1>5
<1> QED
  BY <1>1, <1>6 DEF P

-----------------------------------------------------------------------------
(* The steps, and what they leave alone.                                     *)

\* What one device, or the user at it, does.
StepOf(d) ==
    \/ \E e \in Entities : Edit(d, e)
    \/ \E a \in Devices : Approve(a, d)
    \/ Join(d) \/ Rotate(d) \/ Start(d)
    \/ Upload(d) \/ Pull(d) \/ OperationsFail(d)
    \/ Bootstrapped(d) \/ Accept(d) \/ Block(d)
    \/ Stop(d) \/ UpToDate(d) \/ Capture(d) \/ Send(d) \/ Store(d)
    \/ Acknowledge(d) \/ Interrupt(d)

\* What a device has, and what it holds of the service's, is not touched.
Rests(d) ==
    /\ mode'[d] = mode[d] /\ rev'[d] = rev[d] /\ block'[d] = block[d]
    /\ cursor'[d] = cursor[d] /\ acked'[d] = acked[d]
    /\ table'[d] = table[d] /\ st'[d] = st[d] /\ inbox'[d] = inbox[d]
    /\ outbox'[d] = outbox[d] /\ conflict'[d] = conflict[d]
    /\ at'[d] = at[d] /\ shot'[d] = shot[d]
    /\ \A e \in Entities : <<d, e>> \in unaudited' <=> <<d, e>> \in unaudited

\* A step touches one device.
LEMMA OthersRest ==
    ASSUME Typed, NEW d \in Devices, StepOf(d), NEW x \in Devices, x # d
    PROVE  Rests(x)
<1> USE DEF Rests, service, metadata, stores, cycle, Go
<1>0. \A e \in Entities : <<x, e>> \notin {d} \X Entities
  OBVIOUS
<1>1. CASE \E e \in Entities : Edit(d, e)
  <2>1. PICK e \in Entities : Edit(d, e)
    BY <1>1
  <2>2. table'[x] = table[x] /\ outbox'[x] = outbox[x]
    BY <2>1 DEF Edit, Typed
  <2>3. unaudited' = unaudited \/ unaudited' = unaudited \cup {<<d, e>>}
    BY <2>1 DEF Edit
  <2>4. \A k \in Entities : <<x, k>> \in unaudited' <=> <<x, k>> \in unaudited
    BY <2>3
  <2> QED
    BY <2>1, <2>2, <2>4 DEF Edit
<1>2. CASE \E a \in Devices : Approve(a, d)
  BY <1>2 DEF Approve, Typed
<1>3. CASE Join(d) \/ Rotate(d) \/ Start(d)
  BY <1>3 DEF Join, Rotate, Start, Typed
<1>4. CASE Upload(d)
  BY <1>4 DEF Upload, Typed
<1>5. CASE Pull(d)
  BY <1>5 DEF Pull, Typed
<1>6. CASE OperationsFail(d)
  BY <1>6 DEF OperationsFail, Typed
<1>7. CASE Bootstrapped(d)
  BY <1>0, <1>7 DEF Bootstrapped, Typed
<1>8. CASE Accept(d)
  BY <1>8 DEF Accept, Typed
<1>9. CASE Block(d)
  BY <1>9 DEF Block, Typed
<1>10. CASE Stop(d) \/ UpToDate(d)
  BY <1>10 DEF Stop, UpToDate, Typed
<1>11. CASE Capture(d)
  <2>1. at'[x] = at[x] /\ shot'[x] = shot[x]
    BY <1>11 DEF Capture, Typed
  <2>2. \A e \in Entities : <<x, e>> \in unaudited' <=> <<x, e>> \in unaudited
    BY <1>0, <1>11 DEF Capture
  <2> QED
    BY <1>11, <2>1, <2>2 DEF Capture
<1>12. CASE Send(d)
  BY SMTT(20), <1>12 DEF Send, Typed
<1>13. CASE Store(d)
  BY <1>13 DEF Store, Typed
<1>14. CASE Acknowledge(d) \/ Interrupt(d)
  BY <1>14 DEF Acknowledge, Interrupt, Typed
<1> QED
  BY <1>1, <1>2, <1>3, <1>4, <1>5, <1>6, <1>7, <1>8, <1>9, <1>10, <1>11, <1>12, <1>13,
     <1>14 DEF StepOf

\* Only an upload extends the log, only a sent snapshot the revisions, and what
\* is complete stays so.
LEMMA Extends ==
    ASSUME Typed, NEW d \in Devices, StepOf(d)
    PROVE  /\ log' = log \/ Upload(d)
           /\ \/ snaps' = snaps
              \/ Send(d) /\ UponCurrent(d) /\ snaps' = Append(snaps, shot[d])
           /\ \A x \in Devices : Complete(x) => Complete(x)'
<1> USE DEF service, metadata, stores, cycle
<1>1. CASE \E e \in Entities : Edit(d, e)
  BY <1>1 DEF Edit, Complete
<1>2. CASE \E a \in Devices : Approve(a, d)
  <2>1. /\ mode[d] = None /\ mode' = [mode EXCEPT ![d] = "paired-download"]
        /\ log' = log /\ snaps' = snaps
    BY <1>2 DEF Approve
  <2>2. None # "complete"
    BY DeviceSnapshotAssumption DEF DeviceSnapshotAssumption, Modes
  <2> QED
    BY <2>1, <2>2 DEF Complete, Typed
<1>3. CASE Join(d) \/ Rotate(d) \/ Start(d)
  BY <1>3 DEF Join, Rotate, Start, Complete
<1>4. CASE Upload(d)
  BY <1>4 DEF Upload, Complete
<1>5. CASE Pull(d)
  BY <1>5 DEF Pull, Complete
<1>6. CASE OperationsFail(d)
  BY <1>6 DEF OperationsFail, Complete
<1>7. CASE Bootstrapped(d)
  BY <1>7 DEF Bootstrapped, Complete, Typed
<1>8. CASE Accept(d)
  BY <1>8 DEF Accept, Complete
<1>9. CASE Block(d)
  BY <1>9 DEF Block, Complete
<1>10. CASE Stop(d) \/ UpToDate(d)
  BY <1>10 DEF Stop, UpToDate, Complete
<1>11. CASE Capture(d)
  BY <1>11 DEF Capture, Complete
<1>12. CASE Send(d)
  BY <1>12 DEF Send, Complete
<1>13. CASE Store(d)
  BY <1>13 DEF Store, Complete, Typed
<1>14. CASE Acknowledge(d) \/ Interrupt(d)
  BY <1>14 DEF Acknowledge, Interrupt, Complete
<1> QED
  BY <1>1, <1>2, <1>3, <1>4, <1>5, <1>6, <1>7, <1>8, <1>9, <1>10, <1>11, <1>12, <1>13,
     <1>14 DEF StepOf

\* What an upload appends is an operation of its device on one of its entities.
LEMMA Uploads ==
    ASSUME Typed, NEW d \in Devices, QueueFits(d), Upload(d)
    PROVE  LET op == PreparedOp(d, Head(outbox[d])) IN
           /\ outbox[d] # <<>> /\ 1 \in DOMAIN outbox[d]
           /\ op \in Operations /\ op.dev = d /\ Owner[op.ent] = d
           /\ op.ent = outbox[d][1].ent /\ op.res.val = outbox[d][1].val
           /\ op.res.val > 0 /\ op.res.ver = op.pre.ver + 1
           /\ op.pre = Known(st[d][op.ent], outbox[d][1].prev)
           /\ op.seq \in Nat
           /\ log' = Append(log, op)
           /\ st' = [st EXCEPT ![d][op.ent] = op.res]
           /\ front' = [front EXCEPT ![d][d] = op.seq]
           /\ inbox' = [inbox EXCEPT ![d] = @ \cup {Len(log) + 1}]
           /\ outbox' = [outbox EXCEPT ![d] = Tail(@)]
<1> DEFINE i == Head(outbox[d])
           op == PreparedOp(d, i)
<1>1. /\ outbox[d] \in Seq(OutboxIntents) /\ outbox[d] # <<>>
      /\ log' = Append(log, op) /\ st' = [st EXCEPT ![d][op.ent] = op.res]
      /\ front' = [front EXCEPT ![d][d] = op.seq]
      /\ inbox' = [inbox EXCEPT ![d] = @ \cup {Len(log) + 1}]
      /\ outbox' = [outbox EXCEPT ![d] = Tail(@)]
  BY DEF Upload, Typed
<1>2. 1 \in DOMAIN outbox[d] /\ i = outbox[d][1] /\ i \in OutboxIntents
  BY <1>1
<1>3. Owner[i.ent] = d /\ i.val > 0
  BY <1>2 DEF QueueFits
<1> HIDE DEF i
<1>4. i.ent \in Entities /\ i.prev \in Nat /\ i.val \in Nat
  BY <1>2 DEF OutboxIntents
<1> DEFINE k == Known(st[d][i.ent], i.prev)
<1>5. k \in EntityStates /\ k.ver \in Nat
  <2>1. st[d][i.ent] \in EntityStates
    BY <1>4 DEF Typed, Stores
  <2>2. k \in EntityStates
    BY <1>4, <2>1, KnownType
  <2> HIDE DEF k
  <2> QED
    BY <2>2 DEF EntityStates
<1>6. front[d] \in Frontiers /\ front[d][d] \in Nat
  BY DEF Typed, Frontiers
<1>7. op = [dev |-> d, seq |-> front[d][d] + 1, ent |-> i.ent, pre |-> k,
            causal |-> front[d],
            res |-> [ver |-> k.ver + 1, val |-> i.val, last |-> <<d, front[d][d] + 1>>]]
  BY DEF PreparedOp, Live
<1> HIDE DEF k
<1>8. op.res \in EntityStates
  BY <1>4, <1>5, <1>6, <1>7 DEF EntityStates
<1>9. op \in Operations
  <2>1. op.res = [ver |-> k.ver + 1, val |-> i.val, last |-> <<d, front[d][d] + 1>>]
    BY <1>7
  <2> DEFINE r == op.res
             n == front[d][d] + 1
  <2>2. op = [dev |-> d, seq |-> n, ent |-> i.ent, pre |-> k, causal |-> front[d], res |-> r]
    BY <1>7, <2>1
  <2>3. r \in EntityStates /\ n \in Nat
    BY <1>6, <1>8
  <2> HIDE DEF r, n, op
  <2> QED
    BY <1>4, <1>5, <1>6, <2>2, <2>3 DEF Operations
<1>10. /\ op.dev = d /\ op.ent = i.ent /\ op.res.val = i.val
       /\ op.res.ver = k.ver + 1 /\ op.pre = k /\ op.seq = front[d][d] + 1
  BY <1>7
<1> HIDE DEF op
<1>11. /\ Owner[op.ent] = d /\ op.res.val > 0 /\ op.res.ver = op.pre.ver + 1
       /\ op.seq \in Nat
  BY <1>3, <1>6, <1>10
<1>12. op.pre = Known(st[d][op.ent], i.prev)
  BY <1>10 DEF k
<1>13. op = PreparedOp(d, Head(outbox[d]))
  BY DEF op, i
<1> QED
  BY <1>1, <1>2, <1>9, <1>10, <1>11, <1>12, <1>13

\* The current snapshot, when it is newer than that of a device.
LEMMA NewestIs ==
    ASSUME Typed, NEW d \in Devices, MeetsNewer(d)
    PROVE  /\ Current \in DOMAIN snaps /\ Current \in Nat /\ Current > 0
           /\ Last(snaps) = snaps[Current] /\ Last(snaps) \in SnapshotRecords
<1>1. Current > rev[d] /\ rev[d] \in Nat /\ Current = Len(snaps) /\ Len(snaps) \in Nat
  BY DEF MeetsNewer, Typed, Current
<1> QED
  BY <1>1 DEF Last, Typed

-----------------------------------------------------------------------------
(* Types.                                                                    *)

\* An edit, and the steps that exchange operations, keep the types.
LEMMA TypedOperations ==
    ASSUME Typed, LogFits, NEW d \in Devices, DeviceFits(d),
           \/ \E e \in Entities : Edit(d, e)
           \/ Upload(d) \/ Pull(d)
    PROVE  Typed'
<1> USE DEF service, metadata, stores, cycle
<1>1. CASE \E e \in Entities : Edit(d, e)
  <2>1. PICK e \in Entities : Edit(d, e)
    BY <1>1
  <2>2. table[d][e] \in Nat /\ table[d] \in [Entities -> Nat]
    BY DEF Typed
  <2>3. table' \in [Devices -> [Entities -> Nat]]
    BY <2>1, <2>2 DEF Edit, Typed
  <2>4. [ent |-> e, prev |-> table[d][e], val |-> table[d][e] + 1] \in OutboxIntents
    BY <2>2 DEF OutboxIntents
  <2>5. outbox' \in [Devices -> Seq(OutboxIntents)]
    <3> DEFINE i == [ent |-> e, prev |-> table[d][e], val |-> table[d][e] + 1]
    <3>1. outbox' = [outbox EXCEPT ![d] = Append(@, i)] \/ outbox' = outbox
      BY <2>1 DEF Edit
    <3> HIDE DEF i
    <3>2. i \in OutboxIntents
      BY <2>4 DEF i
    <3>3. outbox \in [Devices -> Seq(OutboxIntents)]
      BY DEF Typed
    <3>4. Append(outbox[d], i) \in Seq(OutboxIntents)
      BY <3>2, <3>3
    <3> QED
      BY <3>1, <3>3, <3>4
  <2>6. unaudited' \subseteq Devices \X Entities
    BY <2>1 DEF Edit, Typed
  <2> QED
    BY <2>1, <2>3, <2>5, <2>6 DEF Edit, Typed
<1>2. CASE Upload(d)
  <2> DEFINE op == PreparedOp(d, Head(outbox[d]))
  <2>1. /\ op \in Operations /\ op.seq \in Nat /\ outbox[d] # <<>>
        /\ log' = Append(log, op) /\ st' = [st EXCEPT ![d][op.ent] = op.res]
        /\ front' = [front EXCEPT ![d][d] = op.seq]
        /\ inbox' = [inbox EXCEPT ![d] = @ \cup {Len(log) + 1}]
        /\ outbox' = [outbox EXCEPT ![d] = Tail(@)]
    BY <1>2, Uploads DEF DeviceFits
  <2> HIDE DEF op
  <2>2. log' \in Seq(Operations)
    BY <2>1 DEF Typed
  <2>3. st' \in [Devices -> Stores]
    <3>1. op.ent \in Entities /\ op.res \in EntityStates /\ st[d] \in Stores
      BY <2>1 DEF Operations, Typed
    <3>2. [st[d] EXCEPT ![op.ent] = op.res] \in Stores
      BY <3>1 DEF Stores
    <3> QED
      BY <2>1, <3>2 DEF Typed
  <2>4. front' \in [Devices -> Frontiers]
    <3>1. [front[d] EXCEPT ![d] = op.seq] \in Frontiers
      BY <2>1 DEF Typed, Frontiers
    <3> QED
      BY <2>1, <3>1 DEF Typed
  <2>5. inbox' \in [Devices -> SUBSET Nat]
    BY SMTT(20), <2>1 DEF Typed
  <2>6. outbox' \in [Devices -> Seq(OutboxIntents)]
    <3>1. outbox[d] \in Seq(OutboxIntents)
      BY DEF Typed
    <3>2. Tail(outbox[d]) \in Seq(OutboxIntents)
      BY <2>1, <3>1
    <3> QED
      BY <2>1, <3>2 DEF Typed
  <2> QED
    BY <1>2, <2>2, <2>3, <2>4, <2>5, <2>6 DEF Upload, Typed
<1>3. CASE Pull(d)
  <2> DEFINE after == Applied(d)[Len(log)]
  <2>1. Complete(d)
    BY <1>3 DEF Pull, DeviceFits, PhaseFits
  <2>2. after \in StoreRecords
    BY <2>1, PullMerges DEF DeviceFits, Merged
  <2>3. /\ table' = [table EXCEPT ![d] = after.table]
        /\ st' = [st EXCEPT ![d] = after.st]
        /\ front' = [front EXCEPT ![d] = after.front]
        /\ conflict' = [conflict EXCEPT ![d] = after.conflict]
        /\ inbox' = [inbox EXCEPT ![d] = @ \cup Unread(d)]
        /\ cursor' = [cursor EXCEPT ![d] = Len(log)]
        /\ at' = [at EXCEPT ![d] = IF after.conflict THEN "idle" ELSE "snapshot"]
    BY <1>3 DEF Pull, Go
  <2> HIDE DEF after
  <2>4. /\ after.table \in [Entities -> Nat] /\ after.st \in Stores
        /\ after.front \in Frontiers /\ after.conflict \in BOOLEAN
    BY <2>2 DEF StoreRecords
  <2>5. Unread(d) \subseteq Nat /\ Len(log) \in Nat
    BY DEF Unread, Typed
  <2>6. at' \in [Devices -> Phases]
    BY <2>3 DEF Typed, Phases
  <2>7. inbox' \in [Devices -> SUBSET Nat] /\ cursor' \in [Devices -> Nat]
    BY <2>3, <2>5 DEF Typed
  <2>8. /\ table' \in [Devices -> [Entities -> Nat]] /\ st' \in [Devices -> Stores]
        /\ front' \in [Devices -> Frontiers] /\ conflict' \in [Devices -> BOOLEAN]
    BY <2>3, <2>4 DEF Typed
  <2> QED
    BY <1>3, <2>6, <2>7, <2>8 DEF Pull, Typed
<1> QED
  BY <1>1, <1>2, <1>3

\* So do the steps that concern snapshots.
LEMMA TypedSnapshots ==
    ASSUME Typed, NEW d \in Devices, DeviceFits(d),
           \/ Bootstrapped(d) \/ Accept(d) \/ Block(d)
           \/ Capture(d) \/ Send(d) \/ Store(d)
    PROVE  Typed'
<1> USE DEF service, metadata, stores, cycle
<1>1. CASE Bootstrapped(d)
  <2> DEFINE s == Last(snaps)
  <2>1. MeetsNewer(d)
    BY <1>1 DEF Bootstrapped
  <2>2. s \in SnapshotRecords /\ Current \in Nat
    BY <2>1, NewestIs
  <2>3. /\ table' = [table EXCEPT ![d] = s.data] /\ st' = [st EXCEPT ![d] = s.st]
        /\ front' = [front EXCEPT ![d] = Seeded(d, s)]
        /\ mode' = [mode EXCEPT ![d] = "complete"] /\ rev' = [rev EXCEPT ![d] = Current]
        /\ cursor' = [cursor EXCEPT ![d] = s.cursor] /\ owes' = [owes EXCEPT ![d] = 0]
        /\ unaudited' = unaudited \ ({d} \X Entities)
        /\ at' = [at EXCEPT ![d] = AfterSnapshot(d)]
    BY <1>1 DEF Bootstrapped, Go, BootCursor
  <2> HIDE DEF s
  <2>4. /\ s.data \in [Entities -> Nat] /\ s.st \in Stores /\ s.front \in Frontiers
        /\ s.cursor \in Nat
    BY <2>2 DEF SnapshotRecords
  <2>5. Seeded(d, s) \in Frontiers
    <3>1. \A x \in Devices :
             (IF front[d][x] = 0 THEN s.front[x] ELSE front[d][x]) \in Nat
      BY <2>4 DEF Frontiers, Typed
    <3> QED
      BY <3>1 DEF Seeded, Frontiers
  <2>6. AfterSnapshot(d) \in Phases /\ "complete" \in Modes
    BY DEF AfterSnapshot, Phases, Modes
  <2>7. /\ table' \in [Devices -> [Entities -> Nat]] /\ st' \in [Devices -> Stores]
        /\ front' \in [Devices -> Frontiers] /\ cursor' \in [Devices -> Nat]
        /\ rev' \in [Devices -> Nat] /\ owes' \in [Devices -> Nat]
    BY <2>2, <2>3, <2>4, <2>5 DEF Typed
  <2>8. /\ mode' \in [Devices -> Modes \cup {None}] /\ at' \in [Devices -> Phases]
        /\ unaudited' \subseteq Devices \X Entities
    BY <2>3, <2>6 DEF Typed
  <2> QED
    BY <1>1, <2>7, <2>8 DEF Bootstrapped, Typed
<1>2. CASE Accept(d)
  <2>1. MeetsNewer(d)
    BY <1>2 DEF Accept
  <2>2. Last(snaps) \in SnapshotRecords /\ Current \in Nat
    BY <2>1, NewestIs
  <2>3. Max({cursor[d], Last(snaps).cursor}) \in Nat
    <3> DEFINE a == cursor[d]
               b == Last(snaps).cursor
               S == {a, b}
    <3>0. a \in Nat /\ b \in Nat
      BY <2>2 DEF Typed, SnapshotRecords
    <3> HIDE DEF a, b
    <3>1. S \subseteq Nat /\ S # {} /\ a + b \in Nat
      BY <3>0
    <3>2. \A x \in S : x <= a + b
      BY <3>0
    <3> HIDE DEF S
    <3>3. Max(S) \in Nat
      BY <3>0, <3>1, <3>2, MaxIs
    <3> QED
      BY <3>3 DEF S, a, b
  <2>4. AfterSnapshot(d) \in Phases
    BY DEF AfterSnapshot, Phases
  <2>5. cursor' = [cursor EXCEPT ![d] = Max({cursor[d], Last(snaps).cursor})]
    BY <1>2 DEF Accept, Typed
  <2>6. cursor' \in [Devices -> Nat]
    BY <2>3, <2>5 DEF Typed
  <2>7. /\ rev' \in [Devices -> Nat] /\ owes' \in [Devices -> Nat]
        /\ at' \in [Devices -> Phases]
    BY <1>2, <2>2, <2>4 DEF Accept, Typed, Go
  <2> QED
    BY <1>2, <2>6, <2>7 DEF Accept, Typed
<1>3. CASE Block(d)
  <2>1. Verdict(d) \in Blocks
    BY <1>3 DEF Block
  <2>2. block' \in [Devices -> Blocks \cup {None}] /\ at' \in [Devices -> Phases]
    BY <1>3, <2>1 DEF Block, Typed, Go, Phases
  <2>3. conflict' \in [Devices -> BOOLEAN]
    BY <1>3 DEF Block, Typed
  <2> QED
    BY <1>3, <2>2, <2>3 DEF Block, Typed
<1>4. CASE Capture(d)
  <2> DEFINE s == [data |-> table[d], st |-> CapturedStates(d), front |-> front[d],
                   cursor |-> cursor[d], epoch |-> era[d], dev |-> d]
  <2>1. CapturedStates(d) \in Stores
    <3>1. \A e \in Entities : Known(st[d][e], table[d][e]) \in EntityStates
      BY KnownType DEF Typed, Stores
    <3> QED
      BY <3>1 DEF CapturedStates, Stores
  <2>2. s \in SnapshotRecords
    BY <2>1 DEF Typed, SnapshotRecords
  <2>3. /\ shot' = [shot EXCEPT ![d] = s] \/ shot' = shot
        /\ at' = [at EXCEPT ![d] = "send"] \/ at' = [at EXCEPT ![d] = "idle"]
    BY <1>4 DEF Capture, Go
  <2> HIDE DEF s
  <2>4. shot' \in [Devices -> SnapshotRecords \cup {None}]
    BY ZenonT(30), <2>2, <2>3 DEF Typed
  <2>5. at' \in [Devices -> Phases]
    BY <2>3 DEF Typed, Phases
  <2>6. unaudited' \subseteq Devices \X Entities
    BY <1>4 DEF Capture, Typed
  <2> QED
    BY <1>4, <2>4, <2>5, <2>6 DEF Capture, Typed
<1>5. CASE Send(d)
  <2>1. shot[d] \in SnapshotRecords
    BY <1>5 DEF Send, DeviceFits, ShotFits, Uploading
  <2>2. snaps' = Append(snaps, shot[d]) \/ snaps' = snaps
    BY <1>5 DEF Send
  <2>3. snaps' \in Seq(SnapshotRecords)
    <3>1. snaps \in Seq(SnapshotRecords)
      BY DEF Typed
    <3> QED
      BY <2>1, <2>2, <3>1
  <2>4. shot' \in [Devices -> SnapshotRecords \cup {None}]
    BY <1>5 DEF Send, Typed
  <2>5. at' \in [Devices -> Phases]
    <3>1. \E p \in {"store", "acknowledge", "idle"} : at' = [at EXCEPT ![d] = p]
      BY <1>5 DEF Send, Go
    <3>2. at \in [Devices -> Phases] /\ {"store", "acknowledge", "idle"} \subseteq Phases
      BY DEF Typed, Phases
    <3> QED
      BY <3>1, <3>2
  <2> QED
    BY <1>5, <2>3, <2>4, <2>5 DEF Send, Typed
<1>6. CASE Store(d)
  <2>1. shot[d] \in SnapshotRecords
    BY <1>6 DEF Store, DeviceFits, ShotFits, Uploading
  <2>2. shot[d].st \in Stores /\ shot[d].cursor \in Nat
    BY <2>1 DEF SnapshotRecords
  <2>3. AfterSnapshot(d) \in Phases /\ "complete" \in Modes
    BY DEF AfterSnapshot, Phases, Modes
  <2>4. st' \in [Devices -> Stores] /\ cursor' \in [Devices -> Nat]
    BY <1>6, <2>2 DEF Store, Typed
  <2>5. /\ mode' \in [Devices -> Modes \cup {None}] /\ rev' \in [Devices -> Nat]
        /\ owes' \in [Devices -> Nat] /\ at' \in [Devices -> Phases]
        /\ shot' \in [Devices -> SnapshotRecords \cup {None}]
    BY <1>6, <2>3 DEF Store, Typed, Go
  <2> QED
    BY <1>6, <2>4, <2>5 DEF Store, Typed
<1> QED
  BY <1>1, <1>2, <1>3, <1>4, <1>5, <1>6

\* The steps that move no data.
QuietStep(d) ==
    \/ \E a \in Devices : Approve(a, d)
    \/ Join(d) \/ Rotate(d) \/ Start(d) \/ OperationsFail(d)
    \/ Stop(d) \/ UpToDate(d) \/ Acknowledge(d) \/ Interrupt(d)

\* So do the steps that move no data.
LEMMA TypedQuiet ==
    ASSUME Typed, NEW d \in Devices, QuietStep(d)
    PROVE  Typed'
<1> USE DEF service, metadata, stores, cycle, Go, Phases
<1>0. Current \in Nat
  BY DEF Current, Typed
<1>1. CASE \E a \in Devices : Approve(a, d)
  <2>1. /\ mode' = [mode EXCEPT ![d] = "paired-download"]
        /\ pin' = [pin EXCEPT ![d] = Current] /\ era' = [era EXCEPT ![d] = epoch]
    BY <1>1 DEF Approve
  <2>2. /\ mode' \in [Devices -> Modes \cup {None}] /\ pin' \in [Devices -> Nat]
        /\ era' \in [Devices -> Nat]
    BY <1>0, <2>1 DEF Typed, Modes
  <2> QED
    BY <1>1, <2>2 DEF Approve, Typed
<1>2. CASE Join(d)
  BY <1>2 DEF Join, Typed
<1>3. CASE Rotate(d)
  BY SMTT(20), <1>3 DEF Rotate, Typed
<1>4. CASE Start(d)
  BY <1>4 DEF Start, Typed
<1>5. CASE OperationsFail(d)
  BY <1>5 DEF OperationsFail, Typed
<1>6. CASE Stop(d)
  BY <1>6 DEF Stop, Typed
<1>7. CASE UpToDate(d)
  BY <1>7 DEF UpToDate, Typed
<1>8. CASE Acknowledge(d)
  BY <1>0, <1>8 DEF Acknowledge, AckedNow, Typed
<1>9. CASE Interrupt(d)
  BY <1>9 DEF Interrupt, Typed
<1> QED
  BY <1>1, <1>2, <1>3, <1>4, <1>5, <1>6, <1>7, <1>8, <1>9 DEF QuietStep

\* What such a step of a device leaves as it is, and the phase it may enter.
Quiet(d) ==
    /\ log' = log /\ snaps' = snaps /\ rev' = rev /\ cursor' = cursor
    /\ table' = table /\ st' = st /\ inbox' = inbox /\ outbox' = outbox
    /\ conflict' = conflict /\ block' = block /\ unaudited' = unaudited
    /\ \A x \in Devices :
          /\ Complete(x)' <=> Complete(x)
          /\ mode'[x] = "creator-upload" => mode[x] = "creator-upload"
          /\ acked'[x] <= rev[x]
    /\ \A x \in Devices : x # d => at'[x] = at[x] /\ shot'[x] = shot[x]
    /\ \/ at'[d] = at[d] /\ shot'[d] = shot[d]
       \/ at'[d] = "idle"
       \/ at'[d] \in {"acknowledge", "operations"} /\ rev[d] > 0
       \/ at'[d] = "bootstrap" /\ rev[d] = 0 /\ block[d] = None

\* The steps that move no data are quiet.
LEMMA QuietSteps ==
    ASSUME Typed, \A x \in Devices : DeviceFits(x), NEW d \in Devices, QuietStep(d)
    PROVE  Quiet(d)
<1> USE DEF service, metadata, stores, cycle
<1>1. \A x \in Devices : acked[x] <= rev[x]
  BY DEF DeviceFits, CursorFits
<1>2. CASE \E a \in Devices : Approve(a, d)
  <2>1. /\ mode[d] = None /\ mode' = [mode EXCEPT ![d] = "paired-download"]
    BY <1>2 DEF Approve
  <2>2. None # "complete"
    BY DeviceSnapshotAssumption DEF DeviceSnapshotAssumption, Modes
  <2>3. \A x \in Devices : /\ Complete(x)' <=> Complete(x)
                           /\ mode'[x] = "creator-upload" => mode[x] = "creator-upload"
    BY <2>1, <2>2 DEF Typed, Complete
  <2> QED
    BY <1>1, <1>2, <2>3 DEF Approve, Quiet
<1>3. CASE Join(d)
  BY <1>1, <1>3 DEF Join, Quiet, Complete
<1>4. CASE Rotate(d)
  BY <1>1, <1>4 DEF Rotate, Quiet, Complete
<1>5. CASE Start(d)
  <2>1. at'[d] = IF rev[d] = 0 THEN "bootstrap" ELSE "operations"
    BY <1>5 DEF Start, Go, Typed
  <2>2. rev[d] = 0 => block[d] = None
    BY <1>5 DEF Start
  <2>3. \A x \in Devices : x # d => at'[x] = at[x]
    BY <1>5 DEF Start, Go, Typed
  <2>4. rev[d] \in Nat
    BY DEF Typed
  <2> QED
    BY <1>1, <1>5, <2>1, <2>2, <2>3, <2>4 DEF Start, Quiet, Complete
<1>6. CASE OperationsFail(d)
  BY <1>1, <1>6 DEF OperationsFail, Quiet, Complete, Go, Typed
<1>7. CASE Stop(d)
  BY <1>1, <1>7 DEF Stop, Quiet, Complete, Go, Typed
<1>8. CASE UpToDate(d)
  <2>1. at[d] = "snapshot" /\ at'[d] = "acknowledge"
    BY <1>8 DEF UpToDate, HoldsCurrent, Go, Typed
  <2>2. rev[d] > 0
    BY <2>1 DEF DeviceFits, PhaseFits
  <2> QED
    BY <1>1, <1>8, <2>1, <2>2 DEF UpToDate, Quiet, Complete, Go, Typed
<1>9. CASE Acknowledge(d)
  <2>1. \A x \in Devices : acked'[x] <= rev[x]
    <3>1. acked' = [acked EXCEPT ![d] = IF rev[d] = Current THEN Current ELSE acked[d]]
      BY <1>9 DEF Acknowledge, AckedNow
    <3>2. \A x \in Devices : rev[x] \in Nat
      BY DEF Typed
    <3> QED
      BY <1>1, <3>1, <3>2 DEF Typed
  <2> QED
    BY <1>9, <2>1 DEF Acknowledge, Quiet, Complete, Go, Typed
<1>10. CASE Interrupt(d)
  BY <1>1, <1>10 DEF Interrupt, Quiet, Complete, Go, Typed
<1> QED
  BY <1>2, <1>3, <1>4, <1>5, <1>6, <1>7, <1>8, <1>9, <1>10 DEF QuietStep

\* The log and the snapshots being the same, so is what they say.
LEMMA SaysSame ==
    ASSUME log' = log, snaps' = snaps, \A x \in Devices : Complete(x) => Complete(x)',
           NEW e \in Entities, NEW c
    PROVE  /\ Truth(e, c)' = Truth(e, c)
           /\ \A v : Follows(v, e, c) => Follows(v, e, c)'
           /\ CapturedEarly(e, c)' <=> CapturedEarly(e, c)
<1>1. Truth(e, c)' = Truth(e, c)
  BY TruthIs
<1>2. Owner[e] \in Devices
  BY DeviceSnapshotAssumption DEF DeviceSnapshotAssumption
<1>3. Complete(Owner[e]) => Complete(Owner[e])'
  BY <1>2
<1>4. \A v : Follows(v, e, c) => Follows(v, e, c)'
  <2> TAKE v
  <2> HAVE Follows(v, e, c)
  <2>1. v = Truth(e, c)' \/ (Truth(e, c)' = 0 /\ Complete(Owner[e])')
    BY <1>1, <1>3 DEF Follows
  <2> QED
    BY <2>1 DEF Follows
<1> QED
  BY <1>1, <1>4 DEF CapturedEarly

\* A quiet step keeps the invariant.
LEMMA QuietKeeps ==
    ASSUME IInv, NEW d \in Devices, Quiet(d), Typed'
    PROVE  IInv'
<1>1. /\ log' = log /\ snaps' = snaps /\ rev' = rev /\ cursor' = cursor
      /\ table' = table /\ st' = st /\ inbox' = inbox /\ outbox' = outbox
      /\ conflict' = conflict /\ block' = block /\ unaudited' = unaudited
  BY DEF Quiet
<1>2. \A x \in Devices : Complete(x)' <=> Complete(x)
  BY DEF Quiet
<1>3. ASSUME NEW e \in Entities, NEW c
      PROVE  /\ Truth(e, c)' = Truth(e, c)
             /\ \A v : Follows(v, e, c) => Follows(v, e, c)'
             /\ CapturedEarly(e, c)' <=> CapturedEarly(e, c)
  BY <1>1, <1>2, SaysSame
<1>4. LogFits'
  BY <1>1 DEF IInv, LogFits
<1>5. \A s : SnapshotFits(s) => SnapshotFits(s)'
  <2> TAKE s
  <2>1. \A e \in Entities : Follows(s.data[e], e, s.cursor) => Follows(s.data[e], e, s.cursor)'
    BY <1>3
  <2> QED
    BY <1>1, <2>1 DEF SnapshotFits
<1>6. SnapsFit'
  <2>1. \A r \in DOMAIN snaps : SnapshotFits(snaps[r])
    BY DEF IInv, SnapsFit
  <2>2. \A r \in DOMAIN snaps' : SnapshotFits(snaps[r])'
    BY <1>1, <1>5, <2>1
  <2> QED
    BY <1>1, <2>2 DEF IInv, SnapsFit
<1>7. ASSUME NEW x \in Devices
      PROVE  DeviceFits(x)'
  <2>1. DeviceFits(x)
    BY DEF IInv
  <2>2. /\ acked'[x] <= rev[x]
        /\ mode'[x] = "creator-upload" => mode[x] = "creator-upload"
    BY DEF Quiet
  <2>3. \/ at'[x] = at[x] /\ shot'[x] = shot[x]
        \/ at'[x] = "idle"
        \/ at'[x] \in {"acknowledge", "operations"} /\ rev[x] > 0
        \/ at'[x] = "bootstrap" /\ rev[x] = 0 /\ block[x] = None
    BY DEF Quiet
  <2>4. PhaseFits(x)'
    BY <1>1, <1>2, <2>1, <2>2, <2>3 DEF DeviceFits, PhaseFits
  <2>5. FreshFits(x)'
    BY <1>1, <2>1 DEF DeviceFits, FreshFits
  <2>6. CursorFits(x)'
    BY <1>1, <2>1, <2>2, <2>3 DEF DeviceFits, CursorFits, Uploading
  <2>7. CalmFits(x)'
    BY <1>1, <2>1, <2>3 DEF DeviceFits, CalmFits, FreshFits, Uploading, IInv, Typed
  <2>8. ShotFits(x)'
    <3> SUFFICES ASSUME Uploading(x)' PROVE ShotFits(x)'
      BY DEF ShotFits
    <3>1. at'[x] = at[x] /\ shot'[x] = shot[x] /\ Uploading(x)
      BY <2>3 DEF Uploading
    <3>2. ShotFits(x)
      BY <2>1 DEF DeviceFits
    <3>3. Complete(x) =>
             \A e \in Entities : Follows(shot[x].data[e], e, cursor[x])'
      <4>1. Complete(x) => \A e \in Entities : Follows(shot[x].data[e], e, cursor[x])
        BY <3>1, <3>2 DEF ShotFits
      <4> DEFINE v(e) == shot[x].data[e]
                 k == cursor[x]
      <4>2. \A e \in Entities : Follows(v(e), e, k) => Follows(v(e), e, k)'
        BY <1>1, <1>3, <3>1
      <4> QED
        BY <4>1, <4>2
    <3> QED
      BY <1>1, <1>2, <3>1, <3>2, <3>3 DEF ShotFits
  <2>9. HeldFits(x)'
    BY <1>1, <2>1 DEF DeviceFits, HeldFits
  <2>10. QueueFits(x)'
    BY <1>1, <2>1 DEF DeviceFits, QueueFits, Intents
  <2>11. OwnerFits(x)'
    <3>1. \A e \in Entities : EarlySnapshot(e) => EarlySnapshot(e)'
      BY <1>1, <1>3 DEF EarlySnapshot
    <3>2. \A e \in Entities : Base(x, e, Truth(e, Len(log))) => Base(x, e, Truth(e, Len(log)))'
      BY <1>1, <1>3 DEF Base, Intents
    <3> QED
      BY <1>1, <1>2, <1>3, <2>1, <3>1, <3>2 DEF DeviceFits, OwnerFits
  <2>12. TableFits(x)'
    BY <1>1, <1>2, <1>3, <2>1 DEF DeviceFits, TableFits
  <2> QED
    BY <2>4, <2>5, <2>6, <2>7, <2>8, <2>9, <2>10, <2>11, <2>12 DEF DeviceFits
<1> QED
  BY <1>4, <1>6, <1>7 DEF IInv

-----------------------------------------------------------------------------
(* What a step of one device means to the others.                            *)

\* The log and the snapshots only grow, and a new operation is of the device.
LEMMA Grows ==
    ASSUME IInv, NEW d \in Devices, StepOf(d)
    PROVE  /\ Len(log) \in Nat /\ Len(log') \in Nat /\ Len(log) <= Len(log')
           /\ \A c \in DOMAIN log : c \in DOMAIN log' /\ log'[c] = log[c]
           /\ \A c \in DOMAIN log' : c \notin DOMAIN log =>
                 /\ Upload(d) /\ c = Len(log) + 1
                 /\ log'[c] = PreparedOp(d, Head(outbox[d]))
                 /\ log'[c].dev = d /\ Owner[log'[c].ent] = d
           /\ DOMAIN log = 1..Len(log) /\ DOMAIN log' = 1..Len(log')
           /\ Len(snaps) \in Nat /\ Len(snaps') \in Nat /\ Len(snaps) <= Len(snaps')
           /\ DOMAIN snaps = 1..Len(snaps) /\ DOMAIN snaps' = 1..Len(snaps')
           /\ \A r \in DOMAIN snaps : r \in DOMAIN snaps' /\ snaps'[r] = snaps[r]
<1>0. Typed /\ DeviceFits(d)
  BY DEF IInv
<1>1. log \in Seq(Operations) /\ snaps \in Seq(SnapshotRecords)
  BY <1>0 DEF Typed
<1>2. /\ Len(log) \in Nat /\ Len(log') \in Nat /\ Len(log) <= Len(log')
      /\ \A c \in DOMAIN log : c \in DOMAIN log' /\ log'[c] = log[c]
      /\ \A c \in DOMAIN log' : c \notin DOMAIN log =>
            /\ Upload(d) /\ c = Len(log) + 1
            /\ log'[c] = PreparedOp(d, Head(outbox[d]))
            /\ log'[c].dev = d /\ Owner[log'[c].ent] = d
      /\ DOMAIN log = 1..Len(log) /\ DOMAIN log' = 1..Len(log')
  <2>1. CASE log' = log
    BY <1>1, <2>1
  <2>2. CASE Upload(d)
    <3> DEFINE op == PreparedOp(d, Head(outbox[d]))
    <3>1. /\ log' = Append(log, op) /\ op.dev = d /\ Owner[op.ent] = d
          /\ op \in Operations
      BY <1>0, <2>2, Uploads DEF DeviceFits
    <3> HIDE DEF op
    <3>2. /\ Len(log') = Len(log) + 1 /\ Len(log) \in Nat
          /\ \A c \in 1..Len(log) : log'[c] = log[c]
          /\ log'[Len(log) + 1] = op
          /\ DOMAIN log = 1..Len(log) /\ DOMAIN log' = 1..(Len(log) + 1)
      BY <1>1, <3>1
    <3> QED
      BY <2>2, <3>1, <3>2 DEF op
  <2> QED
    BY <1>0, <2>1, <2>2, Extends
<1>3. /\ Len(snaps) \in Nat /\ Len(snaps') \in Nat /\ Len(snaps) <= Len(snaps')
      /\ DOMAIN snaps = 1..Len(snaps) /\ DOMAIN snaps' = 1..Len(snaps')
      /\ \A r \in DOMAIN snaps : r \in DOMAIN snaps' /\ snaps'[r] = snaps[r]
  <2>1. snaps' = snaps \/ snaps' = Append(snaps, shot[d])
    BY <1>0, Extends
  <2>2. Len(snaps) \in Nat /\ DOMAIN snaps = 1..Len(snaps)
    BY <1>1
  <2>3. CASE snaps' = snaps
    BY <2>2, <2>3
  <2>4. CASE snaps' = Append(snaps, shot[d])
    <3>1. /\ Len(snaps') = Len(snaps) + 1
          /\ \A r \in 1..Len(snaps) : snaps'[r] = snaps[r]
      BY <1>1, <2>4
    <3>2. DOMAIN snaps' = 1..(Len(snaps) + 1)
      BY <1>1, <2>4
    <3> QED
      BY <2>2, <3>1, <3>2
  <2> QED
    BY <2>1, <2>3, <2>4
<1> QED
  BY <1>2, <1>3

\* What is said of a cursor stays said; only the owner's upload says more of an
\* entity.
LEMMA SaysStill ==
    ASSUME IInv, NEW d \in Devices, StepOf(d), snaps # <<>>, NEW e \in Entities
    PROVE  /\ \A c \in Nat : c <= Len(log) =>
                 /\ Truth(e, c)' = Truth(e, c)
                 /\ \A v : Follows(v, e, c) => Follows(v, e, c)'
                 /\ CapturedEarly(e, c) => CapturedEarly(e, c)'
           /\ Owner[e] # d \/ ~Upload(d) => Truth(e, Len(log))' = Truth(e, Len(log))
           /\ EarlySnapshot(e) => EarlySnapshot(e)'
<1>1. Typed /\ SnapsFit
  BY DEF IInv
<1>2. Len(snaps) \in Nat /\ 1 \in DOMAIN snaps
  BY <1>1 DEF Typed
<1>3. snaps'[1] = snaps[1] /\ snaps' # <<>>
  <2>1. 1 \in DOMAIN snaps' /\ snaps'[1] = snaps[1]
    BY <1>2, Grows
  <2> QED
    BY <2>1
<1>4. ASSUME NEW c \in Nat, c <= Len(log)
      PROVE  Truth(e, c)' = Truth(e, c)
  <2>1. \A k \in 1..c : log'[k] = log[k]
    BY <1>4, Grows
  <2>2. TruthOf(log, snaps, e, c) = TruthOf(log', snaps', e, c)
    <3>1. \A k \in (c + 1)..c : log'[k].ent # e
      OBVIOUS
    <3> QED
      BY <1>3, <2>1, <3>1, TruthOfSame
  <2> QED
    BY <2>2, TruthIs
<1>5. Owner[e] \in Devices
  BY DeviceSnapshotAssumption DEF DeviceSnapshotAssumption
<1>6. Complete(Owner[e]) => Complete(Owner[e])'
  BY <1>1, <1>5, Extends
<1>7. ASSUME NEW c \in Nat, c <= Len(log), NEW v, Follows(v, e, c)
      PROVE  Follows(v, e, c)'
  <2>1. v = Truth(e, c)' \/ (Truth(e, c)' = 0 /\ Complete(Owner[e])')
    BY <1>4, <1>6, <1>7 DEF Follows
  <2> QED
    BY <2>1 DEF Follows
<1>8. ASSUME NEW c \in Nat, c <= Len(log), CapturedEarly(e, c)
      PROVE  CapturedEarly(e, c)'
  BY <1>4, <1>8 DEF CapturedEarly
<1>9. ASSUME Owner[e] # d \/ ~Upload(d)
      PROVE  Truth(e, Len(log))' = Truth(e, Len(log))
  <2>1. \A k \in 1..Len(log) : log[k] = log'[k]
    BY Grows
  <2>2. \A k \in (Len(log) + 1)..Len(log') : log'[k].ent # e
    <3> TAKE k \in (Len(log) + 1)..Len(log')
    <3>1. k \in DOMAIN log' /\ k \notin DOMAIN log
      BY Grows
    <3> QED
      BY <1>9, <3>1, Grows
  <2>3. Len(log) \in Nat /\ Len(log') \in Nat /\ Len(log) <= Len(log')
    BY Grows
  <2>4. TruthOf(log, snaps, e, Len(log)) = TruthOf(log', snaps', e, Len(log'))
    <3> DEFINE n == Len(log)
               m == Len(log')
    <3>1. /\ \A k \in 1..n : log[k] = log'[k]
          /\ \A k \in (n + 1)..m : log'[k].ent # e
          /\ n \in Nat /\ m \in Nat /\ n <= m
      BY <2>1, <2>2, <2>3
    <3> HIDE DEF n, m
    <3>2. TruthOf(log, snaps, e, n) = TruthOf(log', snaps', e, m)
      BY <1>3, <3>1, TruthOfSame
    <3> QED
      BY <3>2 DEF n, m
  <2>5. Truth(e, Len(log))' = TruthOf(log', snaps', e, Len(log'))
    BY DEF Truth, TruthOf, OpsOn
  <2> QED
    BY <2>4, <2>5, TruthIs
<1>10. ASSUME EarlySnapshot(e)
       PROVE  EarlySnapshot(e)'
  <2>1. PICK r \in DOMAIN snaps : snaps[r].st[e] # Absent /\ CapturedEarly(e, snaps[r].cursor)
    BY <1>10 DEF EarlySnapshot
  <2> DEFINE c == snaps[r].cursor
  <2>2. c \in Nat /\ c <= Len(log)
    <3>1. snaps[r] \in SnapshotRecords
      BY <1>1, <2>1 DEF Typed
    <3>2. SnapshotFits(snaps[r])
      BY <1>1, <2>1 DEF SnapsFit
    <3> QED
      BY <3>1, <3>2 DEF SnapshotRecords, SnapshotFits
  <2>3. r \in DOMAIN snaps' /\ snaps'[r] = snaps[r]
    BY <2>1, Grows
  <2>4. Truth(e, c) = 0
    BY <2>1 DEF CapturedEarly
  <2>5. Truth(e, snaps[r].cursor)' = 0
    <3>1. TruthOf(log', snaps', e, c) = 0
      <4> HIDE DEF c
      <4> QED
        BY <1>4, <2>2, <2>4, TruthIs
    <3>2. Truth(e, snaps[r].cursor)' = TruthOf(log', snaps', e, snaps'[r].cursor)
      BY DEF Truth, TruthOf, OpsOn
    <3> QED
      BY <2>3, <3>1, <3>2
  <2>6. (snaps[r].st[e] # Absent /\ CapturedEarly(e, snaps[r].cursor))'
    BY <2>1, <2>3, <2>5 DEF CapturedEarly
  <2> QED
    BY <2>3, <2>6 DEF EarlySnapshot
<1> QED
  BY <1>4, <1>7, <1>8, <1>9, <1>10

\* Follows after a step, for a value and a cursor of the new state.
NowFollows(val, e, c) ==
    \/ val = TruthOf(log', snaps', e, c)
    \/ TruthOf(log', snaps', e, c) = 0 /\ mode'[Owner[e]] = "complete"

\* What a step of one device leaves of the others' part of the invariant: all.
LEMMA OthersKeep ==
    ASSUME IInv, NEW d \in Devices, StepOf(d), NEW x \in Devices, x # d
    PROVE  DeviceFits(x)'
<1>1. Rests(x)
  BY OthersRest DEF IInv
<1>2. /\ mode'[x] = mode[x] /\ rev'[x] = rev[x] /\ block'[x] = block[x]
      /\ cursor'[x] = cursor[x] /\ acked'[x] = acked[x]
      /\ table'[x] = table[x] /\ st'[x] = st[x] /\ inbox'[x] = inbox[x]
      /\ outbox'[x] = outbox[x] /\ conflict'[x] = conflict[x]
      /\ at'[x] = at[x] /\ shot'[x] = shot[x]
      /\ \A e \in Entities : <<x, e>> \in unaudited' <=> <<x, e>> \in unaudited
  BY <1>1 DEF Rests
<1>3. DeviceFits(x) /\ Typed
  BY DEF IInv
<1>4. Complete(x)' <=> Complete(x)
  BY <1>2 DEF Complete
<1>5. /\ Len(log) \in Nat /\ Len(log') \in Nat /\ Len(log) <= Len(log')
      /\ \A c \in DOMAIN log : c \in DOMAIN log' /\ log'[c] = log[c]
      /\ \A c \in DOMAIN log' : c \notin DOMAIN log => log'[c].dev = d
      /\ DOMAIN log = 1..Len(log) /\ DOMAIN log' = 1..Len(log')
      /\ Len(snaps) \in Nat /\ Len(snaps') \in Nat /\ Len(snaps) <= Len(snaps')
      /\ \A r \in 1..Len(snaps) : snaps'[r] = snaps[r]
  <2>1. DOMAIN snaps = 1..Len(snaps)
    BY Grows
  <2> QED
    BY <2>1, Grows
<1>6. /\ rev[x] \in Nat /\ cursor[x] \in Nat /\ rev[x] <= Len(snaps)
      /\ cursor[x] <= Len(log) /\ inbox[x] \subseteq DOMAIN log
  BY <1>3 DEF Typed, DeviceFits, CursorFits
<1>7. Complete(x) => snaps # <<>>
  <2>1. Complete(x) => rev[x] > 0
    BY <1>3 DEF DeviceFits, PhaseFits
  <2>2. snaps = <<>> => Len(snaps) = 0
    OBVIOUS
  <2> QED
    BY <1>6, <2>1, <2>2
<1>8. PhaseFits(x)'
  BY <1>2, <1>3, <1>4 DEF DeviceFits, PhaseFits
<1>9. FreshFits(x)'
  BY <1>2, <1>3 DEF DeviceFits, FreshFits
<1>10. CursorFits(x)'
  <2>1. cursor'[x] <= Len(log') /\ rev'[x] <= Len(snaps') /\ acked'[x] <= rev'[x]
    BY <1>2, <1>3, <1>5, <1>6 DEF DeviceFits, CursorFits
  <2>2. inbox'[x] \subseteq DOMAIN log'
    BY <1>2, <1>5, <1>6
  <2>3. \A c \in inbox'[x] : c > cursor'[x] => log'[c].dev = x
    BY <1>2, <1>3, <1>5, <1>6 DEF DeviceFits, CursorFits
  <2>4. at'[x] = "snapshot" \/ Uploading(x)' =>
           \A c \in DOMAIN log' : log'[c].dev = x => c <= cursor'[x]
    <3> SUFFICES ASSUME at[x] = "snapshot" \/ Uploading(x), NEW c \in DOMAIN log', log'[c].dev = x
                 PROVE  c <= cursor[x]
      BY <1>2 DEF Uploading
    <3>1. c \in DOMAIN log /\ log[c].dev = x
      BY <1>5
    <3> QED
      BY <1>3, <3>1 DEF DeviceFits, CursorFits
  <2> QED
    BY <2>1, <2>2, <2>3, <2>4 DEF CursorFits
<1>11. CalmFits(x)'
  BY <1>2, <1>3 DEF DeviceFits, CalmFits, Uploading
<1>12. \A e \in Entities : Complete(x) =>
          /\ TruthOf(log', snaps', e, cursor'[x]) = Truth(e, cursor[x])
          /\ Complete(Owner[e]) => Complete(Owner[e])'
          /\ Owner[e] = x => Truth(e, Len(log))' = Truth(e, Len(log))
          /\ EarlySnapshot(e) => EarlySnapshot(e)'
  <2> TAKE e \in Entities
  <2> HAVE Complete(x)
  <2>1. TruthOf(log', snaps', e, cursor'[x]) = Truth(e, cursor[x])
    <3> DEFINE c == cursor[x]
    <3>1. \A k \in Nat : k <= Len(log) => Truth(e, k)' = Truth(e, k)
      BY <1>7, SaysStill
    <3>2. TruthOf(log', snaps', e, c) = TruthOf(log, snaps, e, c)
      <4>1. c \in Nat /\ c <= Len(log)
        BY <1>6
      <4> HIDE DEF c
      <4> QED
        BY <3>1, <4>1, TruthIs
    <3> QED
      BY <1>2, <3>2, TruthIs
  <2>2. Complete(Owner[e]) => Complete(Owner[e])'
    <3>1. Owner[e] \in Devices
      BY DeviceSnapshotAssumption DEF DeviceSnapshotAssumption
    <3> QED
      BY <1>3, <3>1, Extends
  <2> QED
    BY <1>7, <2>1, <2>2, SaysStill
<1>13. ShotFits(x)'
  <2> SUFFICES ASSUME Uploading(x)' PROVE ShotFits(x)'
    BY DEF ShotFits
  <2>1. Uploading(x) /\ ShotFits(x)
    BY <1>2, <1>3 DEF Uploading, DeviceFits
  <2>2. Complete(x)' => \A e \in Entities : Follows(shot[x].data[e], e, cursor[x])'
    <3>1. Complete(x) => \A e \in Entities : Follows(shot[x].data[e], e, cursor[x])
      BY <2>1 DEF ShotFits
    <3>2. Complete(x) => \A e \in Entities : NowFollows(shot'[x].data[e], e, cursor'[x])
      BY <1>2, <1>12, <3>1 DEF Follows, NowFollows, Complete
    <3>3. (\A e \in Entities : NowFollows(shot'[x].data[e], e, cursor'[x]))
          => \A e \in Entities : Follows(shot[x].data[e], e, cursor[x])'
      BY DEF Follows, NowFollows, Truth, TruthOf, OpsOn, Complete
    <3> QED
      BY <1>4, <3>2, <3>3
  <2>3. at[x] = "store" => rev[x] < Len(snaps') /\ snaps'[rev[x] + 1] = shot[x]
    <3>1. at[x] = "store" => rev[x] < Len(snaps) /\ snaps[rev[x] + 1] = shot[x]
      BY <2>1 DEF ShotFits
    <3>2. rev[x] < Len(snaps) => rev[x] + 1 \in 1..Len(snaps)
      BY <1>5, <1>6
    <3> QED
      BY <1>5, <1>6, <3>1, <3>2
  <2> QED
    BY <1>2, <1>4, <2>1, <2>2, <2>3 DEF ShotFits
<1>14. HeldFits(x)'
  BY <1>2, <1>3, <1>5, <1>6 DEF DeviceFits, HeldFits
<1>15. QueueFits(x)'
  BY <1>2, <1>3 DEF DeviceFits, QueueFits, Intents
<1>16. OwnerFits(x)'
  <2> SUFFICES ASSUME Complete(x), NEW e \in Entities, Owner[e] = x
               PROVE  (/\ <<x, e>> \in unaudited \/ Base(x, e, Truth(e, Len(log)))
                       /\ CapturedEarly(e, Len(log)) \/ st[x][e].val = Truth(e, Len(log))
                       /\ CapturedEarly(e, Len(log)) /\ st[x][e] # Absent
                             => EarlySnapshot(e))'
    BY <1>4 DEF OwnerFits
  <2>1. /\ <<x, e>> \in unaudited \/ Base(x, e, Truth(e, Len(log)))
        /\ CapturedEarly(e, Len(log)) \/ st[x][e].val = Truth(e, Len(log))
        /\ CapturedEarly(e, Len(log)) /\ st[x][e] # Absent => EarlySnapshot(e)
    BY <1>3 DEF DeviceFits, OwnerFits
  <2>2. Truth(e, Len(log))' = Truth(e, Len(log)) /\ (EarlySnapshot(e) => EarlySnapshot(e)')
    BY <1>12
  <2>3. Base(x, e, Truth(e, Len(log))) => Base(x, e, Truth(e, Len(log)))'
    BY <1>2, <2>2 DEF Base, Intents
  <2> QED
    BY <1>2, <2>1, <2>2, <2>3 DEF CapturedEarly
<1>17. TableFits(x)'
  <2>1. Complete(x) /\ ~conflict[x] => \A e \in Entities : Owner[e] # x =>
           Follows(table[x][e], e, cursor[x])
    BY <1>3 DEF DeviceFits, TableFits
  <2>2. Complete(x) /\ ~conflict[x] => \A e \in Entities : Owner[e] # x =>
           NowFollows(table'[x][e], e, cursor'[x])
    BY <1>2, <1>12, <2>1 DEF Follows, NowFollows, Complete
  <2>3. (\A e \in Entities : Owner[e] # x => NowFollows(table'[x][e], e, cursor'[x]))
        => \A e \in Entities : Owner[e] # x => Follows(table[x][e], e, cursor[x])'
    BY DEF Follows, NowFollows, Truth, TruthOf, OpsOn, Complete
  <2> QED
    BY <1>2, <1>4, <2>2, <2>3 DEF TableFits
<1> QED
  BY <1>8, <1>9, <1>10, <1>11, <1>13, <1>14, <1>15, <1>16, <1>17 DEF DeviceFits

-----------------------------------------------------------------------------
(* The service: the log and the snapshots.                                   *)

\* Rows of an inbox are only added.
LEMMA InboxGrows ==
    ASSUME Typed, NEW d \in Devices, StepOf(d), NEW x \in Devices
    PROVE  inbox[x] \subseteq inbox'[x]
<1>1. CASE x # d
  BY <1>1, OthersRest DEF Rests
<1>2. CASE inbox' = inbox
  BY <1>2
<1>3. CASE Upload(d) \/ Pull(d)
  <2>1. \E new : inbox' = [inbox EXCEPT ![d] = @ \cup new]
    BY <1>3 DEF Upload, Pull
  <2>2. inbox \in [Devices -> SUBSET Nat]
    BY DEF Typed
  <2> QED
    BY <2>1, <2>2
<1>4. inbox' = inbox \/ Upload(d) \/ Pull(d)
  BY DEF StepOf, Edit, Approve, Join, Rotate, Start, OperationsFail, Bootstrapped, Accept,
         Block, Stop, UpToDate, Capture, Send, Store, Acknowledge, Interrupt, stores
<1> QED
  BY <1>1, <1>2, <1>3, <1>4

\* An accepted operation stays what it is, and one that joins it fits.
LEMMA LogKeeps ==
    ASSUME IInv, NEW d \in Devices, StepOf(d)
    PROVE  LogFits'
<1>0. Typed /\ LogFits /\ DeviceFits(d)
  BY DEF IInv
<1> SUFFICES ASSUME NEW c \in DOMAIN log'
             PROVE  /\ log'[c].dev = Owner[log'[c].ent] /\ c \in inbox'[log'[c].dev]
                    /\ log'[c].res.ver = log'[c].pre.ver + 1 /\ log'[c].res.val > 0
  BY DEF LogFits
<1>1. CASE c \in DOMAIN log
  <2>1. log'[c] = log[c]
    BY <1>1, Grows
  <2>2. /\ log[c].dev = Owner[log[c].ent] /\ c \in inbox[log[c].dev]
        /\ log[c].res.ver = log[c].pre.ver + 1 /\ log[c].res.val > 0
    BY <1>0, <1>1 DEF LogFits
  <2>3. log[c].dev \in Devices
    <3>1. log \in Seq(Operations)
      BY <1>0 DEF Typed
    <3>2. log[c] \in Operations
      BY <1>1, <3>1
    <3> QED
      BY <3>2 DEF Operations
  <2>4. c \in inbox'[log[c].dev]
    BY <1>0, <2>2, <2>3, InboxGrows
  <2> QED
    BY <2>1, <2>2, <2>4
<1>2. CASE c \notin DOMAIN log
  <2> DEFINE op == PreparedOp(d, Head(outbox[d]))
  <2>1. Upload(d) /\ c = Len(log) + 1 /\ log'[c] = op
    BY <1>2, Grows
  <2>2. /\ op.dev = d /\ Owner[op.ent] = d /\ op.res.val > 0
        /\ op.res.ver = op.pre.ver + 1
        /\ inbox' = [inbox EXCEPT ![d] = @ \cup {Len(log) + 1}]
    BY <1>0, <2>1, Uploads DEF DeviceFits
  <2> HIDE DEF op
  <2>3. c \in inbox'[d]
    BY <1>0, <2>1, <2>2 DEF Typed
  <2> QED
    BY <2>1, <2>2, <2>3
<1> QED
  BY <1>1, <1>2

\* What follows the log at a cursor still does after a step.
LEMMA FollowsStill ==
    ASSUME IInv, NEW d \in Devices, StepOf(d), snaps # <<>>, NEW e \in Entities,
           NEW c \in Nat, c <= Len(log), NEW v, Follows(v, e, c)
    PROVE  NowFollows(v, e, c)
<1>1. Truth(e, c)' = Truth(e, c)
  BY SaysStill
<1>2. TruthOf(log', snaps', e, c) = Truth(e, c)
  BY <1>1, TruthIs
<1>3. Owner[e] \in Devices
  BY DeviceSnapshotAssumption DEF DeviceSnapshotAssumption
<1>4. Complete(Owner[e]) => mode'[Owner[e]] = "complete"
  BY <1>3, Extends DEF IInv, Complete
<1> QED
  BY <1>2, <1>4 DEF Follows, NowFollows

\* Before there is a snapshot, no device has a revision, and none sent anything.
LEMMA NothingYet ==
    ASSUME IInv, snaps = <<>>
    PROVE  log = <<>> /\ Len(log) = 0 /\ \A x \in Devices : rev[x] = 0
<1>1. \A x \in Devices : rev[x] = 0
  <2> TAKE x \in Devices
  <2>1. rev[x] \in Nat /\ rev[x] <= Len(snaps) /\ Len(snaps) = 0
    BY DEF IInv, DeviceFits, CursorFits, Typed
  <2> QED
    BY <2>1
<1>2. ASSUME log # <<>> PROVE FALSE
  <2>1. 1 \in DOMAIN log /\ log[1] \in Operations
    BY <1>2 DEF IInv, Typed
  <2>2. log[1].dev \in Devices /\ 1 \in inbox[log[1].dev]
    BY <2>1 DEF IInv, LogFits, Operations
  <2>3. FreshFits(log[1].dev)
    BY <2>2 DEF IInv, DeviceFits
  <2>4. inbox[log[1].dev] = {}
    BY <1>1, <2>2, <2>3 DEF FreshFits
  <2> QED
    BY <2>2, <2>4
<1> QED
  BY <1>1, <1>2

\* A snapshot after a step, in terms of the new log.
NowFits(s) ==
    /\ s.cursor <= Len(log')
    /\ \A e \in Entities : s.st[e].val = s.data[e] /\ NowFollows(s.data[e], e, s.cursor)

\* A snapshot goes on following the log, and the one that is sent does.
LEMMA SnapsKeep ==
    ASSUME IInv, NEW d \in Devices, StepOf(d)
    PROVE  SnapsFit'
<1>0. Typed /\ SnapsFit /\ DeviceFits(d)
  BY DEF IInv
<1>1. ASSUME NEW r \in DOMAIN snaps
      PROVE  NowFits(snaps[r])
  <2>1. SnapshotFits(snaps[r]) /\ snaps[r] \in SnapshotRecords /\ snaps # <<>>
    BY <1>0 DEF SnapsFit, Typed
  <2> DEFINE s == snaps[r]
  <2>2. s.cursor \in Nat /\ s.cursor <= Len(log) /\ s.cursor <= Len(log')
    <3>1. s.cursor \in Nat /\ s.cursor <= Len(log)
      BY <2>1 DEF SnapshotRecords, SnapshotFits
    <3> QED
      BY <3>1, Grows
  <2>3. ASSUME NEW e \in Entities
        PROVE  s.st[e].val = s.data[e] /\ NowFollows(s.data[e], e, s.cursor)
    <3>1. s.st[e].val = s.data[e] /\ Follows(s.data[e], e, s.cursor)
      BY <2>1 DEF SnapshotFits
    <3> HIDE DEF s
    <3> QED
      BY <2>1, <2>2, <3>1, FollowsStill
  <2> QED
    BY <2>2, <2>3 DEF NowFits
<1>2. CASE snaps' = snaps
  <2>1. \A r \in DOMAIN snaps' : NowFits(snaps'[r])
    BY <1>1, <1>2
  <2>2. snaps' # <<>> => \E e \in Entities : snaps'[1].data[e] # 0
    BY <1>0, <1>2 DEF SnapsFit
  <2> QED
    BY <2>1, <2>2 DEF SnapsFit, SnapshotFits, NowFits, Follows, NowFollows, Truth, TruthOf,
                      OpsOn, Complete
<1>3. CASE Send(d) /\ UponCurrent(d) /\ snaps' = Append(snaps, shot[d])
  <2> DEFINE s == shot[d]
  <2>1. at[d] = "send" /\ rev[d] = Current /\ log' = log
    BY <1>3 DEF Send, UponCurrent
  <2>2. Uploading(d) /\ ShotFits(d)
    BY <1>0, <2>1 DEF Uploading, DeviceFits
  <2>3. /\ s \in SnapshotRecords /\ s.cursor = cursor[d]
        /\ \A e \in Entities : s.st[e].val = s.data[e]
    BY <2>2 DEF ShotFits
  <2>4. s.cursor \in Nat /\ s.cursor <= Len(log)
    BY <1>0, <2>3 DEF Typed, DeviceFits, CursorFits
  <2>5. /\ Len(snaps) \in Nat /\ DOMAIN snaps = 1..Len(snaps)
        /\ DOMAIN snaps' = 1..(Len(snaps) + 1) /\ snaps'[Len(snaps) + 1] = s
        /\ \A r \in DOMAIN snaps : snaps'[r] = snaps[r]
    <3>1. snaps \in Seq(SnapshotRecords)
      BY <1>0 DEF Typed
    <3> QED
      BY <1>3, <3>1
  <2>6. /\ NowFits(s)
        /\ \E e \in Entities : snaps'[1].data[e] # 0
    <3>1. CASE snaps = <<>>
      <4>1. /\ log = <<>> /\ Len(log) = 0 /\ rev[d] = 0
        BY <3>1, NothingYet
      <4>2. ~Complete(d)
        BY <1>0, <4>1 DEF DeviceFits, PhaseFits, Typed
      <4>3. \E e \in Entities : s.data[e] # 0
        BY <2>2, <4>2 DEF ShotFits
      <4>4. s.cursor = 0 /\ snaps'[1] = s
        BY <2>4, <2>5, <3>1, <4>1
      <4>5. \A e \in Entities : TruthOf(log', snaps', e, 0) = s.data[e]
        <5> TAKE e \in Entities
        <5>1. snaps' # <<>>
          BY <2>5
        <5>2. \A k \in 1..0 : log'[k].ent # e
          OBVIOUS
        <5>3. TruthOf(log', snaps', e, 0) = IF snaps' = <<>> THEN 0 ELSE snaps'[1].data[e]
          BY <5>2, TruthOfNone
        <5> QED
          BY <4>4, <5>1, <5>3
      <4> HIDE DEF s
      <4> QED
        BY <2>1, <2>3, <2>4, <4>3, <4>4, <4>5 DEF NowFits, NowFollows
    <3>2. CASE snaps # <<>>
      <4>1. rev[d] > 0 /\ Complete(d)
        <5>1. rev[d] > 0
          BY <2>1, <2>5, <3>2 DEF Current
        <5> QED
          BY <1>0, <5>1 DEF DeviceFits, PhaseFits
      <4>2. \A e \in Entities : Follows(s.data[e], e, s.cursor)
        BY <2>2, <2>3, <4>1 DEF ShotFits
      <4> HIDE DEF s
      <4>3. \A e \in Entities : NowFollows(s.data[e], e, s.cursor)
        BY <2>4, <3>2, <4>2, FollowsStill
      <4>4. snaps'[1] = snaps[1] /\ \E e \in Entities : snaps[1].data[e] # 0
        BY <1>0, <2>5, <3>2 DEF SnapsFit
      <4> QED
        BY <2>1, <2>3, <2>4, <4>3, <4>4 DEF NowFits
    <3> QED
      BY <3>1, <3>2
  <2> HIDE DEF s
  <2>7. \A r \in DOMAIN snaps' : NowFits(snaps'[r])
    <3> TAKE r \in DOMAIN snaps'
    <3>1. CASE r \in DOMAIN snaps
      BY <1>1, <2>5, <3>1
    <3>2. CASE r = Len(snaps) + 1
      BY <2>5, <2>6, <3>2
    <3> QED
      BY <2>5, <3>1, <3>2
  <2> QED
    BY <2>6, <2>7 DEF SnapsFit, SnapshotFits, NowFits, Follows, NowFollows, Truth, TruthOf,
                      OpsOn, Complete
<1> QED
  BY <1>0, <1>2, <1>3, Extends

-----------------------------------------------------------------------------
(* What a step of a device means to itself.                                  *)

\* The counters of a device, and the bounds they keep.
LEMMA Standing ==
    ASSUME IInv, NEW d \in Devices
    PROVE  /\ rev[d] \in Nat /\ cursor[d] \in Nat /\ acked[d] \in Nat
           /\ Len(log) \in Nat /\ Len(snaps) \in Nat
           /\ cursor[d] <= Len(log) /\ rev[d] <= Len(snaps) /\ acked[d] <= rev[d]
           /\ DOMAIN log = 1..Len(log) /\ DOMAIN snaps = 1..Len(snaps)
           /\ inbox[d] \subseteq DOMAIN log
           /\ Complete(d) <=> rev[d] > 0
           /\ rev[d] > 0 => snaps # <<>> /\ rev[d] \in DOMAIN snaps
<1>1. log \in Seq(Operations) /\ snaps \in Seq(SnapshotRecords)
  BY DEF IInv, Typed
<1>2. rev[d] \in Nat /\ cursor[d] \in Nat /\ acked[d] \in Nat
  BY DEF IInv, Typed
<1>3. DeviceFits(d)
  BY DEF IInv
<1>4. /\ cursor[d] <= Len(log) /\ rev[d] <= Len(snaps) /\ acked[d] <= rev[d]
      /\ inbox[d] \subseteq DOMAIN log
  BY <1>3 DEF DeviceFits, CursorFits
<1>5. Complete(d) <=> rev[d] > 0
  BY <1>3 DEF DeviceFits, PhaseFits
<1>6. /\ Len(log) \in Nat /\ Len(snaps) \in Nat
      /\ DOMAIN log = 1..Len(log) /\ DOMAIN snaps = 1..Len(snaps)
      /\ snaps = <<>> => Len(snaps) = 0
  BY <1>1
<1> QED
  BY <1>2, <1>4, <1>5, <1>6

\* A device without a revision sent nothing.
LEMMA NoneOfIts ==
    ASSUME IInv, NEW d \in Devices, rev[d] = 0
    PROVE  /\ \A c \in DOMAIN log : log[c].dev # d
           /\ \A e \in Entities : Owner[e] = d => \A c \in DOMAIN log : log[c].ent # e
<1>1. inbox[d] = {}
  BY DEF IInv, DeviceFits, FreshFits
<1> QED
  BY <1>1 DEF IInv, LogFits

\* The owner's part, when the step moves none of its data.
LEMMA OwnerStays ==
    ASSUME IInv, NEW d \in Devices, StepOf(d), Complete(d), ~Upload(d),
           table'[d] = table[d], st'[d] = st[d], outbox'[d] = outbox[d],
           \A e \in Entities : <<d, e>> \in unaudited => <<d, e>> \in unaudited'
    PROVE  OwnerFits(d)'
<1>1. snaps # <<>>
  BY Standing
<1> SUFFICES ASSUME NEW e \in Entities, Owner[e] = d
             PROVE  (/\ <<d, e>> \in unaudited \/ Base(d, e, Truth(e, Len(log)))
                     /\ CapturedEarly(e, Len(log)) \/ st[d][e].val = Truth(e, Len(log))
                     /\ CapturedEarly(e, Len(log)) /\ st[d][e] # Absent
                           => EarlySnapshot(e))'
  BY DEF OwnerFits
<1>2. /\ <<d, e>> \in unaudited \/ Base(d, e, Truth(e, Len(log)))
      /\ CapturedEarly(e, Len(log)) \/ st[d][e].val = Truth(e, Len(log))
      /\ CapturedEarly(e, Len(log)) /\ st[d][e] # Absent => EarlySnapshot(e)
  BY DEF IInv, DeviceFits, OwnerFits
<1>3. Truth(e, Len(log))' = Truth(e, Len(log)) /\ (EarlySnapshot(e) => EarlySnapshot(e)')
  BY <1>1, SaysStill
<1>4. Base(d, e, Truth(e, Len(log))) => Base(d, e, Truth(e, Len(log)))'
  BY <1>3 DEF Base, Intents
<1> QED
  BY <1>2, <1>3, <1>4 DEF CapturedEarly

\* The tables of the others' entities, when neither they nor the cursor move.
LEMMA TableStays ==
    ASSUME IInv, NEW d \in Devices, StepOf(d), Complete(d),
           cursor'[d] = cursor[d], ~conflict'[d] => ~conflict[d],
           \A e \in Entities : Owner[e] # d => table'[d][e] = table[d][e]
    PROVE  TableFits(d)'
<1>1. snaps # <<>> /\ cursor[d] \in Nat /\ cursor[d] <= Len(log)
  BY Standing
<1>2. TableFits(d)
  BY DEF IInv, DeviceFits
<1>3. ASSUME ~conflict'[d], NEW e \in Entities, Owner[e] # d
      PROVE  NowFollows(table'[d][e], e, cursor'[d])
  <2>1. Follows(table[d][e], e, cursor[d])
    BY <1>2, <1>3 DEF TableFits
  <2>2. NowFollows(table[d][e], e, cursor[d])
    BY <1>1, <2>1, FollowsStill
  <2> QED
    BY <1>3, <2>2
<1> QED
  BY <1>3 DEF TableFits, Follows, NowFollows, Truth, TruthOf, OpsOn, Complete

\* A conflict with a snapshot, or a fork, stops the device and moves nothing.
LEMMA BlockKeeps ==
    ASSUME IInv, NEW d \in Devices, Block(d)
    PROVE  DeviceFits(d)'
<1> USE DEF service, stores
<1>0. Typed /\ DeviceFits(d) /\ StepOf(d) /\ ~Upload(d)
  <2>1. at[d] # "operations"
    BY DEF Block, MeetsNewer
  <2> QED
    BY <2>1 DEF IInv, StepOf, Upload
<1>1. /\ log' = log /\ snaps' = snaps /\ acked' = acked /\ mode' = mode /\ rev' = rev
      /\ cursor' = cursor /\ table' = table /\ st' = st /\ inbox' = inbox
      /\ outbox' = outbox /\ shot' = shot /\ unaudited' = unaudited
  BY DEF Block
<1>2. at'[d] = "idle" /\ block'[d] # None
  <2>1. Verdict(d) \in Blocks /\ block' = [block EXCEPT ![d] = Verdict(d)]
    BY DEF Block
  <2>2. None \notin Blocks
    BY DeviceSnapshotAssumption DEF DeviceSnapshotAssumption
  <2>3. block'[d] # None
    BY <1>0, <2>1, <2>2 DEF Typed
  <2> QED
    BY <1>0, <2>3 DEF Block, Go, Typed
<1>3. ~conflict'[d] => ~conflict[d]
  BY <1>0 DEF Block, Typed
<1>4. ~Uploading(d)' /\ (Complete(d)' <=> Complete(d))
  BY <1>1, <1>2 DEF Uploading, Complete
<1>5. PhaseFits(d)' /\ FreshFits(d)' /\ CursorFits(d)'
  BY <1>0, <1>1, <1>2, <1>4 DEF DeviceFits, PhaseFits, FreshFits, CursorFits
<1>6. CalmFits(d)' /\ ShotFits(d)'
  BY <1>2, <1>4 DEF CalmFits, ShotFits
<1>7. HeldFits(d)' /\ QueueFits(d)'
  BY <1>0, <1>1 DEF DeviceFits, HeldFits, QueueFits, Intents
<1>8. OwnerFits(d)'
  <2>1. Complete(d) => OwnerFits(d)'
    BY <1>0, <1>1, OwnerStays
  <2> QED
    BY <1>4, <2>1 DEF OwnerFits
<1>9. TableFits(d)'
  <2>1. Complete(d) => TableFits(d)'
    BY <1>0, <1>1, <1>3, TableStays
  <2> QED
    BY <1>4, <2>1 DEF TableFits
<1> QED
  BY <1>5, <1>6, <1>7, <1>8, <1>9 DEF DeviceFits

\* A device accepts a snapshot only of what it holds, so never as its first.
LEMMA Accepts ==
    ASSUME IInv, NEW d \in Devices, Accept(d)
    PROVE  /\ rev[d] > 0 /\ at[d] = "snapshot"
           /\ Last(snaps).cursor \in Nat /\ Last(snaps).cursor <= cursor[d]
           /\ cursor'[d] = cursor[d]
           /\ \A e \in Entities : st[d][e].ver >= Last(snaps).st[e].ver
           /\ ~conflict[d]
<1> DEFINE s == Last(snaps)
<1>0. Typed /\ DeviceFits(d) /\ SnapsFit
  BY DEF IInv
<1>1. MeetsNewer(d) /\ Verdict(d) = "accept"
  BY DEF Accept
<1>2. Acceptable(d, s) /\ ~Pinned(d) /\ Current = rev[d] + 1
  BY <1>1 DEF Verdict
<1>3. CoversFrontier(d, s) /\ CoversStates(d, s) /\ ~conflict[d]
  BY <1>2 DEF Acceptable
<1>4. s \in SnapshotRecords /\ s = snaps[Current]
  BY <1>0, <1>1, NewestIs
<1>5. /\ s.cursor \in Nat /\ s.cursor <= cursor[d] /\ cursor[d] \in Nat
      /\ \A e \in Entities : s.st[e] \in EntityStates /\ st[d][e] \in EntityStates
  <2>1. s.cursor \in Nat /\ s.st \in Stores
    BY <1>4 DEF SnapshotRecords
  <2>2. st[d] \in Stores /\ cursor[d] \in Nat
    BY <1>0 DEF Typed
  <2> QED
    BY <1>3, <2>1, <2>2 DEF CoversFrontier, Stores
<1> HIDE DEF s
<1>6. ASSUME rev[d] = 0 PROVE FALSE
  <2>1. s = snaps[1] /\ snaps # <<>>
    <3>1. Current = 1
      BY <1>2, <1>6
    <3>2. snaps # <<>>
      BY <3>1 DEF Current
    <3> QED
      BY <1>4, <3>1, <3>2
  <2>2. PICK e \in Entities : s.data[e] # 0
    BY <1>0, <2>1 DEF SnapsFit
  <2>3. s.st[e].val = s.data[e]
    <3>1. 1 \in DOMAIN snaps
      BY <1>0, <2>1 DEF Typed
    <3> QED
      BY <1>0, <2>1, <3>1 DEF SnapsFit, SnapshotFits
  <2>4. s.st[e] # Absent
    BY <2>2, <2>3 DEF Absent, Live
  <2>5. st[d][e] = Absent
    BY <1>0, <1>6 DEF DeviceFits, FreshFits
  <2> QED
    BY <1>3, <2>4, <2>5 DEF CoversStates
<1>7. rev[d] > 0
  BY <1>6, Standing
<1>8. at[d] = "snapshot"
  <2>1. at[d] \in {"bootstrap", "snapshot"}
    BY <1>1 DEF MeetsNewer
  <2> QED
    BY <1>0, <1>7, <2>1 DEF DeviceFits, PhaseFits
<1>9. cursor'[d] = cursor[d]
  <2> DEFINE S == {cursor[d], s.cursor}
  <2>1. S \subseteq Nat /\ S # {} /\ \A x \in S : x <= cursor[d]
    BY <1>5
  <2>2. cursor[d] \in S
    OBVIOUS
  <2>3. Max(S) \in S /\ \A x \in S : x <= Max(S)
    <3> HIDE DEF S
    <3> QED
      BY <1>5, <2>1, MaxIs
  <2>4. Max(S) = cursor[d]
    <3> DEFINE m == Max(S)
    <3>1. m \in S /\ cursor[d] <= m /\ m <= cursor[d]
      BY <2>1, <2>2, <2>3
    <3>2. m \in Nat
      BY <2>1, <3>1
    <3> HIDE DEF m, S
    <3>3. m = cursor[d]
      BY <1>5, <3>1, <3>2
    <3> QED
      BY <3>3 DEF m
  <2>5. cursor' = [cursor EXCEPT ![d] = Max({cursor[d], s.cursor})]
    BY <1>0 DEF Accept, Typed, s
  <2>6. cursor'[d] = Max(S)
    BY <1>0, <2>5 DEF Typed
  <2> QED
    BY <2>4, <2>6
<1>10. \A e \in Entities : st[d][e].ver >= s.st[e].ver
  <2> TAKE e \in Entities
  <2>1. CASE s.st[e] = Absent
    BY <1>5, <2>1 DEF Absent, Live, EntityStates
  <2>2. CASE s.st[e] # Absent
    BY <1>3, <2>2 DEF CoversStates
  <2> QED
    BY <2>1, <2>2
<1> QED
  BY <1>3, <1>5, <1>7, <1>8, <1>9, <1>10 DEF s

\* Accepting a snapshot moves the revision to it.
LEMMA AcceptKeeps ==
    ASSUME IInv, NEW d \in Devices, Accept(d)
    PROVE  DeviceFits(d)'
<1> USE DEF service, stores
<1>0. Typed /\ DeviceFits(d) /\ StepOf(d) /\ ~Upload(d)
  <2>1. at[d] # "operations"
    BY DEF Accept, MeetsNewer
  <2> QED
    BY <2>1 DEF IInv, StepOf, Upload
<1>1. /\ log' = log /\ snaps' = snaps /\ acked' = acked /\ mode' = mode
      /\ table' = table /\ st' = st /\ inbox' = inbox /\ conflict' = conflict
      /\ outbox' = outbox /\ block' = block /\ shot' = shot /\ unaudited' = unaudited
  BY DEF Accept
<1>2. /\ rev[d] > 0 /\ at[d] = "snapshot" /\ cursor'[d] = cursor[d]
      /\ Last(snaps).cursor <= cursor[d]
      /\ \A e \in Entities : st[d][e].ver >= Last(snaps).st[e].ver
  BY Accepts
<1>3. /\ Current \in Nat /\ Current > 0 /\ Current = Len(snaps) /\ Current > rev[d]
      /\ Last(snaps) = snaps[Current]
  <2>1. MeetsNewer(d)
    BY DEF Accept
  <2> QED
    BY <1>0, <2>1, NewestIs DEF Current, MeetsNewer
<1>4. rev'[d] = Current
  BY <1>0 DEF Accept, Typed
<1>5. at'[d] = "acknowledge"
  <2>1. AfterSnapshot(d) = "acknowledge"
    BY <1>2 DEF AfterSnapshot
  <2> QED
    BY <1>0, <2>1 DEF Accept, Go, Typed
<1>6. Complete(d) /\ Complete(d)' /\ ~Uploading(d)'
  BY <1>0, <1>1, <1>2, <1>5 DEF Complete, DeviceFits, PhaseFits, Uploading
<1>7. PhaseFits(d)' /\ FreshFits(d)'
  BY <1>3, <1>4, <1>5, <1>6 DEF PhaseFits, FreshFits, Complete
<1>8. CursorFits(d)'
  <2>1. acked[d] <= rev'[d] /\ rev'[d] <= Len(snaps)
    BY <1>3, <1>4, Standing
  <2> QED
    BY <1>0, <1>1, <1>2, <1>5, <1>6, <2>1 DEF DeviceFits, CursorFits
<1>9. CalmFits(d)' /\ ShotFits(d)'
  BY <1>5, <1>6 DEF CalmFits, ShotFits
<1>10. HeldFits(d)'
  <2>1. /\ cursor'[d] >= snaps'[rev'[d]].cursor
        /\ \A e \in Entities : st'[d][e].ver >= snaps'[rev'[d]].st[e].ver
    BY <1>1, <1>2, <1>3, <1>4, Standing, Accepts
  <2> QED
    BY <2>1 DEF HeldFits
<1>11. QueueFits(d)'
  BY <1>0, <1>1 DEF DeviceFits, QueueFits, Intents
<1>12. OwnerFits(d)' /\ TableFits(d)'
  BY <1>0, <1>1, <1>2, <1>6, OwnerStays, TableStays
<1> QED
  BY <1>7, <1>8, <1>9, <1>10, <1>11, <1>12 DEF DeviceFits

\* An edit is the last of its entity in the outbox, and what the tables have.
LEMMA EditQueues ==
    ASSUME Typed, NEW d \in Devices, QueueFits(d), NEW e \in Entities, Owner[e] = d,
           NEW new \in OutboxIntents, new.ent = e, new.prev = table[d][e], new.val > 0,
           outbox'[d] = Append(outbox[d], new), table'[d][e] = new.val,
           \A k \in Entities : k # e => table'[d][k] = table[d][k]
    PROVE  /\ QueueFits(d)'
           /\ \A k \in Entities : \A v : Base(d, k, v) => Base(d, k, v)'
<1> DEFINE n == Len(outbox[d])
<1>1. /\ n \in Nat /\ DOMAIN outbox[d] = 1..n /\ DOMAIN outbox'[d] = 1..(n + 1)
      /\ \A i \in 1..n : outbox'[d][i] = outbox[d][i] /\ outbox[d][i].ent \in Entities
      /\ outbox'[d][n + 1] = new
  <2>1. outbox[d] \in Seq(OutboxIntents)
    BY DEF Typed
  <2>2. \A i \in 1..n : outbox[d][i] \in OutboxIntents
    BY <2>1
  <2>3. \A i \in 1..n : outbox[d][i].ent \in Entities
    BY <2>2 DEF OutboxIntents
  <2> QED
    BY <2>1, <2>3
<1> HIDE DEF n
<1> DEFINE I(k) == {i \in DOMAIN outbox[d] : outbox[d][i].ent = k}
           J(k) == {i \in DOMAIN outbox'[d] : outbox'[d][i].ent = k}
           ob == outbox[d]
           on == outbox'[d]
<1>2. /\ \A k : I(k) \subseteq 1..n
      /\ \A k : k # e => J(k) = I(k)
      /\ J(e) = I(e) \cup {n + 1}
  <2>1. \A k, i : i \in 1..n => (i \in J(k) <=> i \in I(k))
    BY <1>1
  <2>2. \A k : n + 1 \in J(k) <=> k = e
    BY <1>1
  <2>3. \A k : I(k) \subseteq 1..n /\ J(k) \subseteq 1..n \cup {n + 1}
    BY <1>1
  <2>4. \A k : (n + 1) \notin I(k)
    BY <1>1
  <2> HIDE DEF I, J
  <2>5. \A k : k # e => \A i : i \in J(k) <=> i \in I(k)
    BY <2>1, <2>2, <2>3
  <2>6. \A i : i \in J(e) <=> i \in I(e) \cup {n + 1}
    BY <2>1, <2>2, <2>3
  <2>7. ASSUME NEW k, k # e PROVE J(k) = I(k)
    <3>1. \A i : i \in J(k) <=> i \in I(k)
      BY <2>5, <2>7
    <3> QED
      BY <3>1
  <2>8. J(e) = I(e) \cup {n + 1}
    BY <2>6
  <2> QED
    BY <2>3, <2>7, <2>8
<1>3. ASSUME NEW i \in 1..(n + 1)
      PROVE  /\ Owner[on[i].ent] = d /\ on[i].val > 0
             /\ \A j \in J(on[i].ent) :
                   i < j /\ (\A k \in J(on[i].ent) : k <= i \/ j <= k)
                      => on[j].prev = on[i].val
             /\ (\A k \in J(on[i].ent) : k <= i) => on[i].val = table'[d][on[i].ent]
  <2>1. CASE i = n + 1
    <3>1. on[i] = new /\ i = n + 1
      BY <1>1, <2>1
    <3>2. \A j \in J(e) : ~(i < j)
      BY <1>1, <2>1
    <3>3. table'[d][e] = new.val
      OBVIOUS
    <3> HIDE DEF J, on
    <3> QED
      BY <3>1, <3>2, <3>3
  <2>2. CASE i \in 1..n
    <3> DEFINE x == ob[i].ent
    <3>1. /\ on[i] = ob[i] /\ x \in Entities /\ Owner[x] = d /\ ob[i].val > 0
          /\ \A j \in I(x) : i < j /\ (\A k \in I(x) : k <= i \/ j <= k)
                                 => ob[j].prev = ob[i].val
          /\ (\A k \in I(x) : k <= i) => ob[i].val = table[d][x]
      <4>1. Intents(d, x) = I(x) /\ i \in DOMAIN outbox[d]
        BY <1>1, <2>2 DEF Intents
      <4>2. on[i] = ob[i] /\ x \in Entities
        BY <1>1, <2>2
      <4>3. /\ Owner[ob[i].ent] = d /\ ob[i].val > 0
            /\ \A j \in I(x) : i < j /\ (\A k \in I(x) : k <= i \/ j <= k)
                                   => ob[j].prev = ob[i].val
            /\ (\A k \in I(x) : k <= i) => ob[i].val = table[d][x]
        BY <4>1 DEF QueueFits, Intents
      <4> HIDE DEF I, on, ob
      <4> QED
        BY <4>2, <4>3, Zenon
    <3>2. I(x) \subseteq 1..n /\ (x # e => J(x) = I(x)) /\ (x = e => J(x) = I(x) \cup {n + 1})
      <4> HIDE DEF I, J, ob
      <4> QED
        BY <1>2
    <3>3. i \in I(x)
      BY <1>1, <2>2
    <3>4. \A j \in 1..n : on[j] = ob[j]
      BY <1>1
    <3>5. on[n + 1].prev = table[d][e]
      BY <1>1
    <3> HIDE DEF on, ob, I, J, x
    <3>6. CASE x # e
      <4>1. table'[d][x] = table[d][x]
        BY <3>1, <3>6
      <4>2. on[i].ent = x
        BY <3>1 DEF x
      <4>3. J(x) = I(x)
        BY <3>2, <3>6
      <4>4. \A j \in I(x) : on[j] = ob[j]
        BY <3>2, <3>4
      <4> QED
        BY <3>1, <4>1, <4>2, <4>3, <4>4
    <3>7. CASE x = e
      <4>1. on[i].ent = x
        BY <3>1 DEF x
      <4>2. J(x) = I(x) \cup {n + 1} /\ n + 1 > i
        BY <1>1, <2>2, <3>2, <3>7
      <4>3. ASSUME NEW j \in J(x), i < j, \A k \in J(x) : k <= i \/ j <= k
            PROVE  on[j].prev = on[i].val
        <5>1. CASE j \in I(x)
          <6>1. on[j] = ob[j]
            BY <3>2, <3>4, <5>1
          <6> QED
            BY <3>1, <4>2, <4>3, <5>1, <6>1
        <5>2. CASE j = n + 1
          <6>1. \A k \in I(x) : k <= i
            <7> TAKE k \in I(x)
            <7>1. k \in 1..n /\ (k <= i \/ n + 1 <= k)
              BY <3>2, <4>2, <4>3, <5>2
            <7> QED
              BY <1>1, <7>1
          <6>2. ob[i].val = table[d][x]
            BY <3>1, <6>1
          <6> QED
            BY <3>1, <3>5, <3>7, <5>2, <6>2
        <5> QED
          BY <4>2, <4>3, <5>1, <5>2
      <4>4. ~(\A k \in J(x) : k <= i)
        BY <1>1, <4>2, <2>2
      <4> QED
        BY <3>1, <4>1, <4>3, <4>4
    <3> QED
      BY <3>6, <3>7, Zenon
  <2> HIDE DEF I, J, ob, on
  <2> QED
    BY <1>1, <2>1, <2>2
<1>4. QueueFits(d)'
  <2>1. DOMAIN outbox'[d] = 1..(n + 1)
    BY <1>1
  <2>2. \A i \in DOMAIN outbox'[d] :
             /\ Owner[on[i].ent] = d /\ on[i].val > 0
             /\ \A j \in J(on[i].ent) :
                   i < j /\ (\A k \in J(on[i].ent) : k <= i \/ j <= k)
                      => on[j].prev = on[i].val
             /\ (\A k \in J(on[i].ent) : k <= i) => on[i].val = table'[d][on[i].ent]
    <3> HIDE DEF I, J, on, ob
    <3> QED
      BY <1>3, <2>1
  <2> QED
    BY <2>2 DEF QueueFits, Intents
<1>5. ASSUME NEW k \in Entities, NEW v, Base(d, k, v)
      PROVE  Base(d, k, v)'
  <2> DEFINE BaseNow == IF J(k) = {} THEN v = table'[d][k]
                        ELSE \E i \in J(k) : /\ \A j \in J(k) : i <= j
                                             /\ v = on[i].prev
  <2>1. IF I(k) = {} THEN v = table[d][k]
        ELSE \E i \in I(k) : (\A j \in I(k) : i <= j) /\ v = ob[i].prev
    BY <1>1, <1>5 DEF Base, Intents
  <2>2. /\ \A i \in I(k) : on[i] = ob[i] /\ i \in 1..n
        /\ k # e => J(k) = I(k)
        /\ k = e => J(k) = I(k) \cup {n + 1}
        /\ on[n + 1].prev = table[d][e]
    BY <1>1, <1>2
  <2>3. BaseNow
    <3> HIDE DEF I, J, ob, on
    <3>1. CASE k # e
      BY <2>1, <2>2, <3>1
    <3>2. CASE k = e /\ I(k) = {}
      <4>1. J(k) = {n + 1} /\ v = on[n + 1].prev
        BY <2>1, <2>2, <3>2
      <4> QED
        BY <1>1, <4>1
    <3>3. CASE k = e /\ I(k) # {}
      <4>1. PICK i \in I(k) : (\A j \in I(k) : i <= j) /\ v = ob[i].prev
        BY <2>1, <3>3
      <4>2. i \in J(k) /\ (\A j \in J(k) : i <= j) /\ v = on[i].prev
        BY <1>1, <2>2, <3>3, <4>1
      <4> QED
        BY <4>2
    <3> QED
      BY <3>1, <3>2, <3>3
  <2> QED
    BY <1>1, <2>3 DEF Base, Intents
<1> QED
  BY <1>4, <1>5

\* An edit by the owner is queued, or never recorded.
LEMMA EditKeeps ==
    ASSUME IInv, NEW d \in Devices, NEW e \in Entities, Edit(d, e)
    PROVE  DeviceFits(d)'
<1> USE DEF service, metadata, cycle
<1>0. Typed /\ DeviceFits(d) /\ StepOf(d)
  BY DEF IInv, StepOf
<1>1. /\ log' = log /\ snaps' = snaps /\ acked' = acked /\ mode' = mode /\ rev' = rev
      /\ cursor' = cursor /\ st' = st /\ inbox' = inbox /\ conflict' = conflict
      /\ block' = block /\ shot' = shot /\ at' = at /\ Owner[e] = d
      /\ table' = [table EXCEPT ![d][e] = @ + 1]
  BY DEF Edit
<1>2. /\ table[d][e] \in Nat /\ table[d] \in [Entities -> Nat]
      /\ outbox[d] \in Seq(OutboxIntents)
  BY <1>0 DEF Typed
<1>3. /\ table'[d][e] = table[d][e] + 1
      /\ \A k \in Entities : k # e => table'[d][k] = table[d][k]
      /\ \A k \in Entities : table'[d][k] >= table[d][k]
  <2>1. /\ table'[d][e] = table[d][e] + 1
        /\ \A k \in Entities : k # e => table'[d][k] = table[d][k]
    BY <1>0, <1>1, <1>2 DEF Typed
  <2>2. \A k \in Entities : table[d][k] \in Nat
    BY <1>2
  <2> QED
    BY <1>2, <2>1, <2>2
<1>4. /\ Complete(d) => /\ unaudited' = unaudited
                        /\ outbox'[d] = Append(outbox[d], [ent |-> e, prev |-> table[d][e],
                                                           val |-> table[d][e] + 1])
      /\ ~Complete(d) => unaudited' = unaudited \cup {<<d, e>>} /\ outbox' = outbox
  BY <1>0 DEF Edit, Audited, Complete, Typed
<1>5. Complete(d)' <=> Complete(d)
  BY <1>1 DEF Complete
<1>6. Complete(d) <=> rev[d] > 0
  BY Standing
<1>7. PhaseFits(d)'
  <2>1. mode[d] = "creator-upload" => d = Creator /\ \A k \in Initially : table'[d][k] > 0
    <3>1. mode[d] = "creator-upload" => d = Creator /\ \A k \in Initially : table[d][k] > 0
      BY <1>0 DEF DeviceFits, PhaseFits
    <3>2. \A k \in Initially : k \in Entities
      BY DeviceSnapshotAssumption DEF DeviceSnapshotAssumption
    <3>3. \A k \in Initially : table[d][k] \in Nat /\ table'[d][k] \in Nat
      BY <1>2, <1>3, <3>2
    <3> QED
      BY <1>3, <3>1, <3>2, <3>3
  <2> QED
    BY <1>0, <1>1, <1>5, <2>1 DEF DeviceFits, PhaseFits
<1>8. FreshFits(d)'
  BY <1>0, <1>1, <1>4, <1>6, Standing DEF DeviceFits, FreshFits
<1>9. CursorFits(d)' /\ CalmFits(d)' /\ HeldFits(d)'
  BY <1>0, <1>1 DEF DeviceFits, CursorFits, CalmFits, HeldFits, Uploading
<1>10. ShotFits(d)'
  <2> SUFFICES ASSUME Uploading(d)' PROVE ShotFits(d)'
    BY DEF ShotFits
  <2>1. Uploading(d) /\ ShotFits(d)
    BY <1>0, <1>1 DEF Uploading, DeviceFits
  <2>2. Complete(d)' => \A k \in Entities : Follows(shot[d].data[k], k, cursor[d])'
    <3>1. Complete(d) => \A k \in Entities : Follows(shot[d].data[k], k, cursor[d])
      BY <2>1 DEF ShotFits
    <3>2. \A k \in Entities : /\ Owner[k] \in Devices
                              /\ Complete(Owner[k])' <=> Complete(Owner[k])
      BY <1>1, DeviceSnapshotAssumption DEF DeviceSnapshotAssumption, Complete
    <3>3. Complete(d) => \A k \in Entities : NowFollows(shot'[d].data[k], k, cursor'[d])
      BY <1>1, <3>1, <3>2, TruthIs DEF Follows, NowFollows, Complete
    <3>4. (\A k \in Entities : NowFollows(shot'[d].data[k], k, cursor'[d]))
          => \A k \in Entities : Follows(shot[d].data[k], k, cursor[d])'
      BY DEF Follows, NowFollows, Truth, TruthOf, OpsOn, Complete
    <3> QED
      BY <1>5, <3>3, <3>4
  <2>3. ~Complete(d) => \A k \in Entities :
           shot[d].data[k] = table'[d][k] \/ (Owner[k] = d /\ <<d, k>> \in unaudited')
    <3>1. ~Complete(d) => \A k \in Entities :
             shot[d].data[k] = table[d][k] \/ (Owner[k] = d /\ <<d, k>> \in unaudited)
      BY <2>1 DEF ShotFits
    <3> QED
      BY <1>1, <1>3, <1>4, <3>1
  <2> QED
    BY <1>1, <1>5, <2>1, <2>2, <2>3 DEF ShotFits
<1>11. /\ QueueFits(d)'
       /\ Complete(d) => \A k \in Entities : \A v : Base(d, k, v) => Base(d, k, v)'
  <2>1. CASE Complete(d)
    <3> DEFINE new == [ent |-> e, prev |-> table[d][e], val |-> table[d][e] + 1]
    <3>1. /\ new \in OutboxIntents /\ new.ent = e /\ new.prev = table[d][e] /\ new.val > 0
          /\ outbox'[d] = Append(outbox[d], new) /\ table'[d][e] = new.val
      BY <1>2, <1>3, <1>4, <2>1 DEF OutboxIntents
    <3> HIDE DEF new
    <3> QED
      BY <1>0, <1>1, <1>3, <3>1, EditQueues DEF DeviceFits
  <2>2. CASE ~Complete(d)
    <3>1. outbox'[d] = <<>>
      BY <1>0, <1>4, <1>6, <2>2, Standing DEF DeviceFits, FreshFits
    <3> QED
      BY <2>2, <3>1 DEF QueueFits
  <2> QED
    BY <2>1, <2>2
<1>12. OwnerFits(d)'
  <2> SUFFICES ASSUME Complete(d), NEW k \in Entities, Owner[k] = d
               PROVE  (/\ <<d, k>> \in unaudited \/ Base(d, k, Truth(k, Len(log)))
                       /\ CapturedEarly(k, Len(log)) \/ st[d][k].val = Truth(k, Len(log))
                       /\ CapturedEarly(k, Len(log)) /\ st[d][k] # Absent
                             => EarlySnapshot(k))'
    BY <1>5 DEF OwnerFits
  <2>1. /\ <<d, k>> \in unaudited \/ Base(d, k, Truth(k, Len(log)))
        /\ CapturedEarly(k, Len(log)) \/ st[d][k].val = Truth(k, Len(log))
        /\ CapturedEarly(k, Len(log)) /\ st[d][k] # Absent => EarlySnapshot(k)
    BY <1>0 DEF DeviceFits, OwnerFits
  <2>2. snaps # <<>>
    BY <1>6, Standing
  <2>3. ~Upload(d)
    BY <1>1, <1>0 DEF Upload, Typed
  <2>4. Truth(k, Len(log))' = Truth(k, Len(log)) /\ (EarlySnapshot(k) => EarlySnapshot(k)')
    BY <1>0, <2>2, <2>3, SaysStill
  <2>5. Base(d, k, Truth(k, Len(log))) => Base(d, k, Truth(k, Len(log)))'
    <3> DEFINE v == Truth(k, Len(log))
    <3>1. Base(d, k, v) => Base(d, k, v)'
      <4>1. \A w : Base(d, k, w) => Base(d, k, w)'
        BY <1>11
      <4> QED
        BY <2>4, <4>1 DEF Base, Intents
    <3> QED
      BY <3>1
  <2> QED
    BY <1>1, <1>4, <2>1, <2>4, <2>5 DEF CapturedEarly
<1>13. TableFits(d)'
  <2>1. \A k \in Entities : Owner[k] # d => table'[d][k] = table[d][k]
    BY <1>1, <1>3
  <2>2. Complete(d) => TableFits(d)'
    BY <1>0, <1>1, <2>1, TableStays
  <2> QED
    BY <1>5, <2>2 DEF TableFits
<1> QED
  BY <1>7, <1>8, <1>9, <1>10, <1>11, <1>12, <1>13 DEF DeviceFits

\* Without its first intent, the outbox goes on from the value that one had.
LEMMA UploadQueues ==
    ASSUME Typed, NEW d \in Devices, QueueFits(d), outbox[d] # <<>>,
           outbox'[d] = Tail(outbox[d]), table'[d] = table[d]
    PROVE  /\ QueueFits(d)'
           /\ \A k \in Entities : \A v : k # outbox[d][1].ent /\ Base(d, k, v) => Base(d, k, v)'
           /\ \A k, v : k = outbox[d][1].ent /\ v = outbox[d][1].val => Base(d, k, v)'
<1> DEFINE n == Len(outbox[d])
           I(k) == {i \in DOMAIN outbox[d] : outbox[d][i].ent = k}
           J(k) == {i \in DOMAIN outbox'[d] : outbox'[d][i].ent = k}
           ob == outbox[d]
           on == outbox'[d]
<1>1. /\ n \in Nat /\ n > 0 /\ DOMAIN ob = 1..n /\ DOMAIN on = 1..(n - 1)
      /\ \A i \in 1..(n - 1) : on[i] = ob[i + 1]
  <2>1. outbox[d] \in Seq(OutboxIntents)
    BY DEF Typed
  <2> QED
    BY <2>1
<1> HIDE DEF n
<1>2. /\ \A k : I(k) \subseteq 1..n /\ J(k) \subseteq 1..(n - 1)
      /\ \A k, i : i \in 1..(n - 1) => (i \in J(k) <=> i + 1 \in I(k))
      /\ \A i \in 1..n : i \in I(ob[i].ent)
      /\ \A k : 1 \in I(k) => k = ob[1].ent
  BY <1>1
<1>3. \A i \in 1..n :
         /\ Owner[ob[i].ent] = d /\ ob[i].val > 0
         /\ \A j \in I(ob[i].ent) :
               i < j /\ (\A k \in I(ob[i].ent) : k <= i \/ j <= k) => ob[j].prev = ob[i].val
         /\ (\A k \in I(ob[i].ent) : k <= i) => ob[i].val = table[d][ob[i].ent]
  <2>1. \A i \in DOMAIN outbox[d] :
           /\ Owner[ob[i].ent] = d /\ ob[i].val > 0
           /\ \A j \in I(ob[i].ent) :
                 i < j /\ (\A k \in I(ob[i].ent) : k <= i \/ j <= k) => ob[j].prev = ob[i].val
           /\ (\A k \in I(ob[i].ent) : k <= i) => ob[i].val = table[d][ob[i].ent]
    BY DEF QueueFits, Intents
  <2> QED
    BY <1>1, <2>1
<1>4. ASSUME NEW i \in 1..(n - 1)
      PROVE  /\ Owner[on[i].ent] = d /\ on[i].val > 0
             /\ \A j \in J(on[i].ent) :
                   i < j /\ (\A k \in J(on[i].ent) : k <= i \/ j <= k)
                      => on[j].prev = on[i].val
             /\ (\A k \in J(on[i].ent) : k <= i) => on[i].val = table[d][on[i].ent]
  <2> HIDE DEF I, J, ob, on
  <2>1. on[i] = ob[i + 1] /\ i + 1 \in 1..n
    BY <1>1
  <2> DEFINE x == ob[i + 1].ent
  <2>2. /\ Owner[x] = d /\ ob[i + 1].val > 0
        /\ \A j \in I(x) : i + 1 < j /\ (\A k \in I(x) : k <= i + 1 \/ j <= k)
                              => ob[j].prev = ob[i + 1].val
        /\ (\A k \in I(x) : k <= i + 1) => ob[i + 1].val = table[d][x]
    BY <1>3, <2>1
  <2> HIDE DEF x
  <2>3. ASSUME NEW j \in J(x), i < j, \A k \in J(x) : k <= i \/ j <= k
        PROVE  on[j].prev = on[i].val
    <3>1. j \in 1..(n - 1) /\ j + 1 \in I(x) /\ i + 1 < j + 1 /\ on[j] = ob[j + 1]
      BY <1>1, <1>2, <2>3
    <3>2. ASSUME NEW k \in I(x) PROVE k <= i + 1 \/ j + 1 <= k
      <4>1. k \in 1..n
        BY <1>2, <3>2
      <4>2. CASE k = 1
        BY <4>2
      <4>3. CASE k # 1
        <5>1. k - 1 \in 1..(n - 1) /\ (k - 1) + 1 = k
          BY <1>1, <4>1, <4>3
        <5>2. k - 1 \in J(x)
          BY <1>2, <3>2, <5>1
        <5>3. k - 1 <= i \/ j <= k - 1
          BY <2>3, <5>2
        <5> QED
          BY <3>1, <4>1, <5>3
      <4> QED
        BY <4>2, <4>3
    <3>3. ob[j + 1].prev = ob[i + 1].val
      BY <2>2, <3>1, <3>2
    <3> QED
      BY <2>1, <3>1, <3>3
  <2>4. ASSUME \A k \in J(x) : k <= i
        PROVE  on[i].val = table[d][x]
    <3>1. ASSUME NEW k \in I(x) PROVE k <= i + 1
      <4>1. k \in 1..n
        BY <1>2, <3>1
      <4>2. CASE k = 1
        BY <4>2
      <4>3. CASE k # 1
        <5>1. k - 1 \in 1..(n - 1) /\ (k - 1) + 1 = k
          BY <1>1, <4>1, <4>3
        <5>2. k - 1 \in J(x)
          BY <1>2, <3>1, <5>1
        <5>3. k - 1 <= i
          BY <2>4, <5>2
        <5> QED
          BY <4>1, <5>3
      <4> QED
        BY <4>2, <4>3
    <3> QED
      BY <2>1, <2>2, <3>1
  <2>5. on[i].ent = x
    BY <2>1 DEF x
  <2> QED
    BY <2>1, <2>2, <2>3, <2>4, <2>5
<1>5. QueueFits(d)'
  <2>1. \A i \in DOMAIN outbox'[d] :
             /\ Owner[on[i].ent] = d /\ on[i].val > 0
             /\ \A j \in J(on[i].ent) :
                   i < j /\ (\A k \in J(on[i].ent) : k <= i \/ j <= k)
                      => on[j].prev = on[i].val
             /\ (\A k \in J(on[i].ent) : k <= i) => on[i].val = table'[d][on[i].ent]
    <3>1. DOMAIN outbox'[d] = 1..(n - 1)
      BY <1>1
    <3> HIDE DEF I, J, ob, on
    <3> QED
      BY <1>4, <3>1
  <2> QED
    BY <2>1 DEF QueueFits, Intents
<1>6. ASSUME NEW k \in Entities, NEW v, k # ob[1].ent, Base(d, k, v)
      PROVE  Base(d, k, v)'
  <2>1. IF I(k) = {} THEN v = table[d][k]
        ELSE \E i \in I(k) : (\A j \in I(k) : i <= j) /\ v = ob[i].prev
    BY <1>6 DEF Base, Intents
  <2>2. IF J(k) = {} THEN v = table'[d][k]
        ELSE \E i \in J(k) : (\A j \in J(k) : i <= j) /\ v = on[i].prev
    <3>0. table'[d][k] = table[d][k]
      OBVIOUS
    <3> HIDE DEF I, J, ob, on
    <3>1. 1 \notin I(k)
      BY <1>2, <1>6
    <3>2. \A i \in I(k) : i - 1 \in J(k) /\ on[i - 1] = ob[i]
      <4> TAKE i \in I(k)
      <4>1. i \in 1..n /\ i # 1
        BY <1>2, <3>1
      <4>2. i - 1 \in 1..(n - 1) /\ (i - 1) + 1 = i
        BY <1>1, <4>1
      <4> QED
        BY <1>1, <1>2, <4>2
    <3>3. CASE I(k) = {}
      <4>1. J(k) = {}
        BY <1>2, <3>3
      <4> QED
        BY <2>1, <3>0, <3>3, <4>1
    <3>4. CASE I(k) # {}
      <4>1. PICK i \in I(k) : (\A j \in I(k) : i <= j) /\ v = ob[i].prev
        BY <2>1, <3>4
      <4>2. \A j \in J(k) : i - 1 <= j
        <5> TAKE j \in J(k)
        <5>1. j \in 1..(n - 1) /\ j + 1 \in I(k) /\ i \in 1..n
          BY <1>2
        <5>2. i <= j + 1
          BY <4>1, <5>1
        <5> QED
          BY <1>1, <5>1, <5>2
      <4>3. i - 1 \in J(k) /\ on[i - 1] = ob[i]
        BY <3>2
      <4> QED
        BY <4>1, <4>2, <4>3
    <3> QED
      BY <3>3, <3>4
  <2> QED
    BY <2>2 DEF Base, Intents
<1>7. ASSUME NEW x, NEW v, x = ob[1].ent, v = ob[1].val
      PROVE  Base(d, x, v)'
  <2>1. IF J(x) = {} THEN v = table'[d][x]
        ELSE \E i \in J(x) : (\A j \in J(x) : i <= j) /\ v = on[i].prev
    <3>0. table'[d][x] = table[d][x]
      OBVIOUS
    <3> HIDE DEF I, J, ob, on
    <3>1. /\ 1 \in 1..n
          /\ \A j \in I(x) : 1 < j /\ (\A k \in I(x) : k <= 1 \/ j <= k)
                                => ob[j].prev = ob[1].val
          /\ (\A k \in I(x) : k <= 1) => ob[1].val = table[d][x]
      BY <1>1, <1>3, <1>7
    <3>2. \A i \in I(x) : i # 1 => i - 1 \in J(x)
      <4> TAKE i \in I(x)
      <4> HAVE i # 1
      <4>1. i \in 1..n
        BY <1>2
      <4>2. i - 1 \in 1..(n - 1) /\ (i - 1) + 1 = i
        BY <1>1, <4>1
      <4> QED
        BY <1>2, <4>2
    <3>3. CASE J(x) = {}
      <4>1. \A k \in I(x) : k <= 1
        BY <3>2, <3>3
      <4> QED
        BY <1>7, <3>0, <3>1, <3>3, <4>1
    <3>4. CASE J(x) # {}
      <4>1. J(x) \subseteq Nat
        BY <1>1, <1>2
      <4>2. PICK m \in J(x) : \A j \in J(x) : m <= j
        BY <3>4, <4>1, SmallestIs
      <4>3. m \in 1..(n - 1) /\ m + 1 \in I(x) /\ on[m] = ob[m + 1] /\ 1 < m + 1
        BY <1>1, <1>2, <4>2
      <4>4. \A k \in I(x) : k <= 1 \/ m + 1 <= k
        <5> TAKE k \in I(x)
        <5>1. k \in 1..n
          BY <1>2
        <5>2. k # 1 => m <= k - 1
          BY <3>2, <4>2
        <5> QED
          BY <4>3, <5>1, <5>2
      <4>5. ob[m + 1].prev = ob[1].val
        BY <3>1, <4>3, <4>4
      <4> QED
        BY <1>7, <3>4, <4>2, <4>3, <4>5
    <3> QED
      BY <3>3, <3>4
  <2> QED
    BY <2>1 DEF Base, Intents
<1> QED
  BY <1>5, <1>6, <1>7

\* An upload moves the first intent of the outbox to the log.
LEMMA UploadKeeps ==
    ASSUME IInv, NEW d \in Devices, Upload(d)
    PROVE  DeviceFits(d)'
<1> USE DEF metadata, cycle
<1> DEFINE op == PreparedOp(d, Head(outbox[d]))
           n == Len(log)
<1>0. Typed /\ DeviceFits(d) /\ StepOf(d) /\ QueueFits(d)
  BY DEF IInv, StepOf, DeviceFits
<1>1. /\ snaps' = snaps /\ acked' = acked /\ mode' = mode /\ rev' = rev
      /\ cursor' = cursor /\ table' = table /\ conflict' = conflict
      /\ block' = block /\ shot' = shot /\ at' = at /\ unaudited' = unaudited
      /\ at[d] = "operations"
  BY DEF Upload
<1>2. /\ outbox[d] # <<>> /\ 1 \in DOMAIN outbox[d]
      /\ op \in Operations /\ op.dev = d /\ Owner[op.ent] = d
      /\ op.ent = outbox[d][1].ent /\ op.res.val = outbox[d][1].val
      /\ op.res.val > 0 /\ op.res.ver = op.pre.ver + 1
      /\ op.pre = Known(st[d][op.ent], outbox[d][1].prev)
      /\ log' = Append(log, op) /\ st' = [st EXCEPT ![d][op.ent] = op.res]
      /\ inbox' = [inbox EXCEPT ![d] = @ \cup {Len(log) + 1}]
      /\ outbox' = [outbox EXCEPT ![d] = Tail(@)]
  BY <1>0, Uploads
<1> HIDE DEF op
<1>3. /\ log \in Seq(Operations) /\ n \in Nat /\ DOMAIN log = 1..n
      /\ Len(log') = n + 1 /\ DOMAIN log' = 1..(n + 1) /\ log'[n + 1] = op
      /\ \A c \in 1..n : log'[c] = log[c]
  <2>1. log \in Seq(Operations)
    BY <1>0 DEF Typed
  <2> QED
    BY <1>2, <2>1
<1>4. /\ st'[d][op.ent] = op.res
      /\ \A e \in Entities : e # op.ent => st'[d][e] = st[d][e]
      /\ inbox'[d] = inbox[d] \cup {n + 1} /\ outbox'[d] = Tail(outbox[d])
      /\ op.ent \in Entities
  <2>1. op.ent \in Entities /\ st[d] \in Stores
    BY <1>0, <1>2 DEF Operations, Typed
  <2>2. /\ st \in [Devices -> Stores] /\ inbox \in [Devices -> SUBSET Nat]
        /\ outbox \in [Devices -> Seq(OutboxIntents)]
    BY <1>0 DEF Typed
  <2>3. /\ st'[d][op.ent] = op.res
        /\ \A e \in Entities : e # op.ent => st'[d][e] = st[d][e]
    BY <1>2, <2>1, <2>2 DEF Stores
  <2> QED
    BY <1>2, <2>1, <2>2, <2>3
<1> HIDE DEF n
<1>5. /\ rev[d] > 0 /\ Complete(d) /\ Complete(d)' /\ ~Uploading(d)' /\ snaps # <<>>
      /\ cursor[d] \in Nat /\ cursor[d] <= n
  <2>1. rev[d] > 0
    BY <1>0, <1>1 DEF DeviceFits, PhaseFits
  <2> QED
    BY <1>1, <2>1, Standing DEF Complete, Uploading, n
<1>6. PhaseFits(d)' /\ FreshFits(d)' /\ CalmFits(d)' /\ ShotFits(d)'
  <2>1. rev[d] # 0
    BY <1>5
  <2> QED
    BY <1>0, <1>1, <1>5, <2>1 DEF DeviceFits, PhaseFits, FreshFits, CalmFits, ShotFits
<1>7. CursorFits(d)'
  <2>1. cursor[d] <= n + 1
    BY <1>3, <1>5
  <2>2. inbox'[d] \subseteq DOMAIN log' /\ \A c \in inbox'[d] : c > cursor[d] => log'[c].dev = d
    <3>1. inbox[d] \subseteq 1..n /\ \A c \in inbox[d] : c > cursor[d] => log[c].dev = d
      BY <1>0, <1>3 DEF DeviceFits, CursorFits
    <3> QED
      BY <1>2, <1>3, <1>4, <3>1
  <2>3. rev[d] <= Len(snaps) /\ acked[d] <= rev[d]
    BY Standing
  <2> QED
    BY <1>1, <1>3, <1>5, <2>1, <2>2, <2>3 DEF CursorFits
<1>8. HeldFits(d)'
  <2>1. \A e \in Entities : st'[d][e].ver >= st[d][e].ver
    <3> TAKE e \in Entities
    <3>1. st[d][e] \in EntityStates /\ st[d][e].ver \in Nat
      BY <1>0 DEF Typed, Stores, EntityStates
    <3>2. CASE e = op.ent
      <4>1. outbox[d][1].prev \in Nat
        <5>1. outbox[d][1] \in OutboxIntents
          BY <1>0, <1>2 DEF Typed
        <5> QED
          BY <5>1 DEF OutboxIntents
      <4>2. op.pre.ver >= st[d][e].ver /\ op.pre \in EntityStates
        BY <1>2, <3>1, <3>2, <4>1, KnownType
      <4>3. op.pre.ver \in Nat
        BY <4>2 DEF EntityStates
      <4> QED
        BY SMTT(20), <1>2, <1>4, <3>1, <3>2, <4>2, <4>3
    <3>3. CASE e # op.ent
      BY <1>4, <3>1, <3>3
    <3> QED
      BY <3>2, <3>3
  <2>2. \A e \in Entities : /\ st'[d][e].ver \in Nat /\ st[d][e].ver \in Nat
                            /\ snaps[rev[d]].st[e].ver \in Nat
    <3>1. op.res \in EntityStates
      BY <1>2 DEF Operations
    <3>2. \A e \in Entities : st[d][e] \in EntityStates
      BY <1>0 DEF Typed, Stores
    <3>3. \A e \in Entities : st'[d][e] \in EntityStates
      BY <1>4, <3>1, <3>2
    <3>4. snaps[rev[d]] \in SnapshotRecords
      BY <1>0, <1>5, Standing DEF Typed
    <3>5. \A e \in Entities : snaps[rev[d]].st[e] \in EntityStates
      BY <3>4 DEF SnapshotRecords, Stores
    <3> QED
      BY <3>2, <3>3, <3>5 DEF EntityStates
  <2>3. /\ cursor[d] >= snaps[rev[d]].cursor
        /\ \A e \in Entities : st[d][e].ver >= snaps[rev[d]].st[e].ver
    BY <1>0, <1>5 DEF DeviceFits, HeldFits
  <2>4. \A e \in Entities : st'[d][e].ver >= snaps[rev[d]].st[e].ver
    <3> TAKE e \in Entities
    <3> DEFINE a == st'[d][e].ver
               b == st[d][e].ver
               c == snaps[rev[d]].st[e].ver
    <3>1. a \in Nat /\ b \in Nat /\ c \in Nat /\ a >= b /\ b >= c
      BY <2>1, <2>2, <2>3
    <3> HIDE DEF a, b, c
    <3>2. a >= c
      BY <3>1
    <3> QED
      BY <3>2 DEF a, c
  <2> QED
    BY <1>1, <2>3, <2>4 DEF HeldFits
<1>9. /\ QueueFits(d)'
      /\ \A k \in Entities : \A v : k # op.ent /\ Base(d, k, v) => Base(d, k, v)'
      /\ \A k, v : k = op.ent /\ v = op.res.val => Base(d, k, v)'
  BY <1>0, <1>1, <1>2, <1>4, UploadQueues
<1>10. OwnerFits(d)'
  <2> SUFFICES ASSUME NEW e \in Entities, Owner[e] = d
               PROVE  (/\ <<d, e>> \in unaudited \/ Base(d, e, Truth(e, Len(log)))
                       /\ CapturedEarly(e, Len(log)) \/ st[d][e].val = Truth(e, Len(log))
                       /\ CapturedEarly(e, Len(log)) /\ st[d][e] # Absent
                             => EarlySnapshot(e))'
    BY DEF OwnerFits
  <2>0. Truth(e, Len(log))' = TruthOf(log', snaps', e, Len(log'))
    BY DEF Truth, TruthOf, OpsOn
  <2>1. CASE e = op.ent
    <3>1. Truth(e, Len(log))' = op.res.val
      <4>1. \A j \in ((n + 1) + 1)..(n + 1) : log'[j].ent # e
        BY <1>3
      <4>2. n + 1 \in Nat /\ n + 1 \in 1..(n + 1) /\ log'[n + 1].ent = e
        BY <1>3, <2>1
      <4>3. TruthOf(log', snaps', e, n + 1) = log'[n + 1].res.val
        BY <4>1, <4>2, TruthOfLast
      <4> QED
        BY <1>3, <2>0, <4>3
    <3>2. ~CapturedEarly(e, Len(log))'
      BY <1>2, <3>1 DEF CapturedEarly
    <3>3. (st[d][e].val = Truth(e, Len(log)))'
      BY <1>4, <2>1, <3>1
    <3>4. Base(d, e, Truth(e, Len(log)))'
      <4>1. \A w : w = op.res.val => Base(d, e, w)'
        BY <1>9, <2>1
      <4> QED
        BY <3>1, <4>1 DEF Base, Intents
    <3> QED
      BY <3>2, <3>3, <3>4
  <2>2. CASE e # op.ent
    <3>1. Truth(e, Len(log))' = Truth(e, n)
      <4>1. \A k \in 1..n : log[k] = log'[k]
        BY <1>3
      <4>2. \A k \in (n + 1)..(n + 1) : log'[k].ent # e
        BY <1>3, <2>2
      <4>3. n \in Nat /\ n + 1 \in Nat /\ n <= n + 1
        BY <1>3
      <4>4. TruthOf(log, snaps, e, n) = TruthOf(log', snaps', e, n + 1)
        BY <1>1, <4>1, <4>2, <4>3, TruthOfSame
      <4> QED
        BY <1>3, <2>0, <4>4, TruthIs
    <3>2. /\ <<d, e>> \in unaudited \/ Base(d, e, Truth(e, n))
          /\ CapturedEarly(e, n) \/ st[d][e].val = Truth(e, n)
          /\ CapturedEarly(e, n) /\ st[d][e] # Absent => EarlySnapshot(e)
      BY <1>0, <1>5 DEF DeviceFits, OwnerFits, n
    <3>3. EarlySnapshot(e) => EarlySnapshot(e)'
      BY <1>0, <1>5, SaysStill
    <3>4. Base(d, e, Truth(e, n)) => Base(d, e, Truth(e, Len(log)))'
      <4>1. \A v : Base(d, e, v) => Base(d, e, v)'
        BY <1>9, <2>2
      <4> QED
        BY <3>1, <4>1 DEF Base, Intents
    <3> QED
      BY <1>1, <1>4, <2>2, <3>1, <3>2, <3>3, <3>4 DEF CapturedEarly
  <2> QED
    BY <2>1, <2>2
<1>11. TableFits(d)'
  BY <1>0, <1>1, <1>5, TableStays
<1> QED
  BY <1>6, <1>7, <1>8, <1>9, <1>10, <1>11 DEF DeviceFits

\* A pull leaves what the log says, or a conflict.
LEMMA PullKeeps ==
    ASSUME IInv, NEW d \in Devices, Pull(d)
    PROVE  DeviceFits(d)'
<1> USE DEF service
<1> DEFINE after == Applied(d)[Len(log)]
<1>0. Typed /\ LogFits /\ DeviceFits(d) /\ StepOf(d) /\ ~Upload(d)
  <2>1. outbox[d] = <<>>
    BY DEF Pull
  <2> QED
    BY <2>1 DEF IInv, StepOf, Upload
<1>1. /\ log' = log /\ snaps' = snaps /\ acked' = acked /\ mode' = mode /\ rev' = rev
      /\ block' = block /\ outbox' = outbox /\ shot' = shot /\ unaudited' = unaudited
      /\ at[d] = "operations" /\ outbox[d] = <<>>
  BY DEF Pull
<1>2. rev[d] > 0 /\ Complete(d) /\ Complete(d)' /\ snaps # <<>>
  <2>1. rev[d] > 0
    BY <1>0, <1>1 DEF DeviceFits, PhaseFits
  <2> QED
    BY <1>1, <2>1, Standing DEF Complete
<1>3. /\ table'[d] = after.table /\ st'[d] = after.st /\ conflict'[d] = after.conflict
      /\ inbox'[d] = inbox[d] \cup Unread(d) /\ cursor'[d] = Len(log)
      /\ at'[d] = IF after.conflict THEN "idle" ELSE "snapshot"
  BY <1>0 DEF Pull, Go, Typed
<1>4. Merged(after, d, Len(log))
  BY <1>0, <1>2, PullMerges DEF DeviceFits
<1>5. after \in StoreRecords
  BY <1>4 DEF Merged
<1> HIDE DEF after
<1>6. ~Uploading(d)' /\ (at'[d] = "snapshot" => ~conflict'[d]) /\ at'[d] # "bootstrap"
  <2>1. after.conflict \in BOOLEAN
    BY <1>5 DEF StoreRecords
  <2> QED
    BY <1>3, <2>1 DEF Uploading
<1>7. PhaseFits(d)' /\ FreshFits(d)' /\ CalmFits(d)' /\ ShotFits(d)'
  <2>1. rev'[d] # 0 /\ rev'[d] > 0
    BY <1>1, <1>2
  <2>2. mode'[d] # "creator-upload"
    BY <1>2 DEF Complete
  <2> QED
    BY <1>2, <1>6, <2>1, <2>2 DEF PhaseFits, FreshFits, CalmFits, ShotFits
<1>8. CursorFits(d)'
  <2>1. /\ rev[d] <= Len(snaps) /\ acked[d] <= rev[d] /\ Len(log) \in Nat
        /\ DOMAIN log = 1..Len(log) /\ inbox[d] \subseteq DOMAIN log
    BY Standing
  <2>2. inbox'[d] \subseteq DOMAIN log
    <3>1. Unread(d) \subseteq 1..Len(log)
      BY <2>1, Standing DEF Unread
    <3> QED
      BY <1>3, <2>1, <3>1
  <2>3. \A c \in DOMAIN log : c <= Len(log) /\ ~(c > Len(log))
    BY <2>1
  <2> QED
    BY <1>1, <1>3, <2>1, <2>2, <2>3 DEF CursorFits
<1>9. HeldFits(d)'
  <2>1. /\ cursor[d] >= snaps[rev[d]].cursor
        /\ \A e \in Entities : st[d][e].ver >= snaps[rev[d]].st[e].ver
    BY <1>0, <1>2 DEF DeviceFits, HeldFits
  <2>2. /\ snaps[rev[d]].cursor \in Nat
        /\ \A e \in Entities : /\ after.st[e].ver \in Nat /\ st[d][e].ver \in Nat
                               /\ snaps[rev[d]].st[e].ver \in Nat
    <3>1. snaps[rev[d]] \in SnapshotRecords
      BY <1>0, <1>2, Standing DEF Typed
    <3>2. /\ snaps[rev[d]].cursor \in Nat /\ snaps[rev[d]].st \in Stores
          /\ after.st \in Stores /\ st[d] \in Stores
      BY <1>0, <1>5, <3>1 DEF SnapshotRecords, StoreRecords, Typed
    <3> QED
      BY <3>2 DEF Stores, EntityStates
  <2>3. Len(log) >= snaps[rev[d]].cursor
    BY <2>1, <2>2, Standing
  <2>4. \A e \in Entities : after.st[e].ver >= snaps[rev[d]].st[e].ver
    <3> TAKE e \in Entities
    <3> DEFINE a == after.st[e].ver
               b == st[d][e].ver
               c == snaps[rev[d]].st[e].ver
    <3>1. a \in Nat /\ b \in Nat /\ c \in Nat /\ a >= b /\ b >= c
      BY <1>4, <2>1, <2>2 DEF Merged
    <3> HIDE DEF a, b, c
    <3>2. a >= c
      BY <3>1
    <3> QED
      BY <3>2 DEF a, c
  <2> QED
    BY <1>1, <1>3, <2>3, <2>4 DEF HeldFits
<1>10. QueueFits(d)'
  BY <1>1 DEF QueueFits
<1>11. OwnerFits(d)'
  <2> SUFFICES ASSUME NEW e \in Entities, Owner[e] = d
               PROVE  (/\ <<d, e>> \in unaudited \/ Base(d, e, Truth(e, Len(log)))
                       /\ CapturedEarly(e, Len(log)) \/ st[d][e].val = Truth(e, Len(log))
                       /\ CapturedEarly(e, Len(log)) /\ st[d][e] # Absent
                             => EarlySnapshot(e))'
    BY DEF OwnerFits
  <2>1. /\ <<d, e>> \in unaudited \/ Base(d, e, Truth(e, Len(log)))
        /\ CapturedEarly(e, Len(log)) \/ st[d][e].val = Truth(e, Len(log))
        /\ CapturedEarly(e, Len(log)) /\ st[d][e] # Absent => EarlySnapshot(e)
    BY <1>0, <1>2 DEF DeviceFits, OwnerFits
  <2>2. Truth(e, Len(log))' = Truth(e, Len(log)) /\ (EarlySnapshot(e) => EarlySnapshot(e)')
    BY <1>0, <1>2, SaysStill
  <2>3. table'[d][e] = table[d][e] /\ st'[d][e] = st[d][e]
    BY <1>3, <1>4 DEF Merged
  <2>4. Base(d, e, Truth(e, Len(log))) => Base(d, e, Truth(e, Len(log)))'
    BY <1>1, <2>2, <2>3 DEF Base, Intents
  <2> QED
    BY <1>1, <2>1, <2>2, <2>3, <2>4 DEF CapturedEarly
<1>12. TableFits(d)'
  <2>1. ASSUME ~conflict'[d], NEW e \in Entities, Owner[e] # d
        PROVE  NowFollows(table'[d][e], e, cursor'[d])
    <3>1. Follows(after.table[e], e, Len(log))
      BY <1>3, <1>4, <2>1 DEF Merged
    <3>2. Len(log) \in Nat /\ Len(log) <= Len(log)
      BY Standing
    <3>3. NowFollows(after.table[e], e, Len(log))
      BY <1>0, <1>2, <3>1, <3>2, FollowsStill
    <3> QED
      BY <1>3, <3>3
  <2> QED
    BY <2>1 DEF TableFits, Follows, NowFollows, Truth, TruthOf, OpsOn, Complete
<1> QED
  BY <1>7, <1>8, <1>9, <1>10, <1>11, <1>12 DEF DeviceFits

\* Of what no device sent, the log says at any cursor what the first snapshot says.
LEMMA TruthBefore ==
    ASSUME IInv, NEW e \in Entities, \A c \in DOMAIN log : log[c].ent # e,
           NEW c \in Nat, NEW b \in Nat, c <= Len(log), b <= Len(log)
    PROVE  Truth(e, c) = Truth(e, b)
<1>1. DOMAIN log = 1..Len(log) /\ Len(log) \in Nat
  BY DEF IInv, Typed
<1>2. (\A k \in 1..c : log[k].ent # e) /\ (\A k \in 1..b : log[k].ent # e)
  BY <1>1
<1> QED
  BY <1>2, TruthOfNone, TruthIs

\* A newcomer starts from a snapshot.
LEMMA BootstrapKeeps ==
    ASSUME IInv, NEW d \in Devices, Bootstrapped(d)
    PROVE  DeviceFits(d)'
<1> USE DEF service
<1> DEFINE s == Last(snaps)
<1>0. Typed /\ SnapsFit /\ DeviceFits(d) /\ StepOf(d) /\ MeetsNewer(d) /\ ~Upload(d)
  <2>1. MeetsNewer(d)
    BY DEF Bootstrapped
  <2>2. at[d] # "operations"
    BY <2>1 DEF MeetsNewer
  <2> QED
    BY <2>1, <2>2 DEF IInv, StepOf, Upload
<1>1. /\ log' = log /\ snaps' = snaps /\ acked' = acked /\ inbox' = inbox
      /\ outbox' = outbox /\ conflict' = conflict
  BY DEF Bootstrapped
<1>2. /\ table'[d] = s.data /\ st'[d] = s.st /\ mode'[d] = "complete"
      /\ rev'[d] = Current /\ cursor'[d] = s.cursor /\ at'[d] = AfterSnapshot(d)
  BY <1>0 DEF Bootstrapped, BootCursor, Go, Typed
<1>3. rev[d] = 0
  <2>1. Pinned(d)
    BY DEF Bootstrapped, Verdict
  <2> QED
    BY <2>1 DEF Pinned
<1>4. /\ Current \in DOMAIN snaps /\ Current \in Nat /\ Current > 0
      /\ s = snaps[Current] /\ s \in SnapshotRecords /\ Current = Len(snaps)
  BY <1>0, NewestIs DEF Current
<1>5. /\ s.cursor \in Nat /\ s.cursor <= Len(log)
      /\ \A e \in Entities : /\ s.st[e].val = s.data[e] /\ Follows(s.data[e], e, s.cursor)
                             /\ s.st[e].ver \in Nat /\ s.data[e] \in Nat
  <2>1. SnapshotFits(s)
    BY <1>0, <1>4 DEF SnapsFit
  <2>2. s.cursor \in Nat /\ s.data \in [Entities -> Nat] /\ s.st \in Stores
    BY <1>4 DEF SnapshotRecords
  <2>3. \A e \in Entities : s.st[e].ver \in Nat /\ s.data[e] \in Nat
    BY <2>2 DEF Stores, EntityStates
  <2> QED
    BY <2>1, <2>2, <2>3 DEF SnapshotFits
<1> HIDE DEF s
<1>6. /\ ~Complete(d) /\ Complete(d)' /\ ~Uploading(d)' /\ at'[d] = "operations"
      /\ inbox[d] = {} /\ outbox[d] = <<>> /\ snaps # <<>>
  <2>1. inbox[d] = {} /\ outbox[d] = <<>>
    BY <1>0, <1>3 DEF DeviceFits, FreshFits
  <2>2. at'[d] = "operations"
    BY <1>2, <1>3 DEF AfterSnapshot
  <2>3. ~Complete(d)
    BY <1>3, Standing
  <2>4. snaps # <<>>
    BY <1>4
  <2> QED
    BY <1>2, <2>1, <2>2, <2>3, <2>4 DEF Complete, Uploading
<1>7. PhaseFits(d)' /\ FreshFits(d)' /\ CalmFits(d)' /\ ShotFits(d)'
  <2>1. rev'[d] # 0 /\ rev'[d] > 0
    BY <1>2, <1>4
  <2> QED
    BY <1>2, <1>6, <2>1 DEF PhaseFits, FreshFits, CalmFits, ShotFits
<1>8. CursorFits(d)'
  <2>1. acked[d] <= rev'[d] /\ rev'[d] <= Len(snaps)
    BY <1>2, <1>3, <1>4, Standing
  <2> QED
    BY <1>1, <1>2, <1>5, <1>6, <2>1 DEF CursorFits
<1>9. HeldFits(d)'
  <2>1. /\ cursor'[d] >= snaps'[rev'[d]].cursor
        /\ \A e \in Entities : st'[d][e].ver >= snaps'[rev'[d]].st[e].ver
    BY <1>1, <1>2, <1>4, <1>5
  <2> QED
    BY <2>1 DEF HeldFits
<1>10. QueueFits(d)'
  BY <1>1, <1>6 DEF QueueFits
<1>11. OwnerFits(d)'
  <2> SUFFICES ASSUME NEW e \in Entities, Owner[e] = d
               PROVE  (/\ <<d, e>> \in unaudited \/ Base(d, e, Truth(e, Len(log)))
                       /\ CapturedEarly(e, Len(log)) \/ st[d][e].val = Truth(e, Len(log))
                       /\ CapturedEarly(e, Len(log)) /\ st[d][e] # Absent
                             => EarlySnapshot(e))'
    BY DEF OwnerFits
  <2>1. Truth(e, s.cursor) = Truth(e, Len(log))
    <3>1. \A c \in DOMAIN log : log[c].ent # e
      BY <1>3, NoneOfIts
    <3>2. Len(log) \in Nat /\ Len(log) <= Len(log)
      BY Standing
    <3> QED
      BY <1>5, <3>1, <3>2, TruthBefore
  <2>2. s.data[e] = Truth(e, Len(log))
    BY <1>5, <1>6, <2>1 DEF Follows
  <2>3. Truth(e, Len(log))' = Truth(e, Len(log)) /\ (EarlySnapshot(e) => EarlySnapshot(e)')
    BY <1>0, <1>6, SaysStill
  <2>4. Base(d, e, Truth(e, Len(log)))'
    <3>1. table'[d][e] = Truth(e, Len(log))' /\ outbox'[d] = <<>>
      BY <1>1, <1>2, <1>6, <2>2, <2>3
    <3> QED
      BY <3>1 DEF Base, Intents
  <2>5. st'[d][e].val = Truth(e, Len(log))'
    BY <1>2, <1>5, <2>2, <2>3
  <2>6. CapturedEarly(e, Len(log))' /\ st'[d][e] # Absent => EarlySnapshot(e)'
    <3>1. CapturedEarly(e, Len(log)) /\ s.st[e] # Absent => EarlySnapshot(e)
      BY <1>4, <2>1 DEF CapturedEarly, EarlySnapshot
    <3> QED
      BY <1>2, <2>3, <3>1 DEF CapturedEarly
  <2> QED
    BY <2>4, <2>5, <2>6
<1>12. TableFits(d)'
  <2>1. ASSUME NEW e \in Entities
        PROVE  NowFollows(table'[d][e], e, cursor'[d])
    <3>1. NowFollows(s.data[e], e, s.cursor)
      BY <1>0, <1>5, <1>6, FollowsStill
    <3> QED
      BY <1>2, <3>1
  <2> QED
    BY <2>1 DEF TableFits, Follows, NowFollows, Truth, TruthOf, OpsOn, Complete
<1> QED
  BY <1>7, <1>8, <1>9, <1>10, <1>11, <1>12 DEF DeviceFits

\* What a complete device reads for a snapshot follows the log up to its cursor.
LEMMA CaptureFollows ==
    ASSUME IInv, NEW d \in Devices, Complete(d), at[d] = "snapshot", Coherent(d),
           NEW e \in Entities
    PROVE  Follows(table[d][e], e, cursor[d])
<1>0. Typed /\ DeviceFits(d)
  BY DEF IInv
<1>1. CASE Owner[e] # d
  <2>1. ~conflict[d]
    BY <1>0 DEF DeviceFits, CalmFits
  <2> QED
    BY <1>0, <1>1, <2>1 DEF DeviceFits, TableFits
<1>2. CASE Owner[e] = d
  <2>1. Truth(e, cursor[d]) = Truth(e, Len(log))
    <3>1. \A c \in DOMAIN log : log[c].dev = d => c <= cursor[d]
      BY <1>0 DEF DeviceFits, CursorFits
    <3>2. /\ cursor[d] \in Nat /\ Len(log) \in Nat /\ cursor[d] <= Len(log)
          /\ DOMAIN log = 1..Len(log)
      BY Standing
    <3>3. \A k \in (cursor[d] + 1)..Len(log) : log[k].ent # e
      <4> TAKE k \in (cursor[d] + 1)..Len(log)
      <4>1. k \in DOMAIN log /\ ~(k <= cursor[d])
        BY <3>2
      <4>2. log[k].dev # d
        BY <3>1, <4>1
      <4> QED
        BY <1>2, <4>1, <4>2 DEF IInv, LogFits
    <3> QED
      BY <3>2, <3>3, TruthSettled
  <2>2. CapturedEarly(e, Len(log)) \/ st[d][e].val = Truth(e, Len(log))
    BY <1>0, <1>2 DEF DeviceFits, OwnerFits
  <2>3. CASE Truth(e, Len(log)) = 0
    BY <1>2, <2>1, <2>3 DEF Follows
  <2>4. CASE Truth(e, Len(log)) # 0
    <3>1. st[d][e].val = Truth(e, Len(log))
      BY <2>2, <2>4 DEF CapturedEarly
    <3>2. st[d][e] # Absent
      BY <2>4, <3>1 DEF Absent, Live
    <3>3. Known(st[d][e], table[d][e]).val = table[d][e]
      BY DEF Coherent, CapturedStates
    <3>4. table[d][e] = st[d][e].val
      BY <3>2, <3>3 DEF Known
    <3> QED
      BY <2>1, <3>1, <3>4 DEF Follows
  <2> QED
    BY <2>3, <2>4
<1> QED
  BY <1>1, <1>2

\* A snapshot is made of what the device has.
LEMMA CaptureKeeps ==
    ASSUME IInv, NEW d \in Devices, Capture(d)
    PROVE  DeviceFits(d)'
<1> USE DEF service, metadata, stores
<1>0. Typed /\ DeviceFits(d) /\ StepOf(d) /\ ~Upload(d)
  <2>1. at[d] # "operations"
    BY DEF Capture, MakesFirst, HoldsCurrent
  <2> QED
    BY <2>1 DEF IInv, StepOf, Upload
<1>1. /\ log' = log /\ snaps' = snaps /\ acked' = acked /\ mode' = mode /\ rev' = rev
      /\ cursor' = cursor /\ table' = table /\ st' = st /\ inbox' = inbox
      /\ outbox' = outbox /\ conflict' = conflict /\ block' = block
  BY DEF Capture
<1>2. \/ MakesFirst(d) /\ rev[d] = 0 /\ ~Complete(d)
      \/ at[d] = "snapshot" /\ rev[d] > 0 /\ Complete(d)
  <2>1. CASE MakesFirst(d)
    <3>1. at[d] = "bootstrap"
      BY <2>1 DEF MakesFirst
    <3>2. rev[d] = 0
      BY <1>0, <3>1 DEF DeviceFits, PhaseFits
    <3> QED
      BY <2>1, <3>2, Standing
  <2>2. CASE HoldsCurrent(d)
    <3>1. at[d] = "snapshot"
      BY <2>2 DEF HoldsCurrent
    <3>2. rev[d] > 0
      BY <1>0, <3>1 DEF DeviceFits, PhaseFits
    <3> QED
      BY <3>1, <3>2, Standing
  <2> QED
    BY <2>1, <2>2 DEF Capture
<1>3. at[d] \in {"bootstrap", "snapshot"} /\ ~conflict[d]
  <2>1. at[d] \in {"bootstrap", "snapshot"}
    BY <1>2 DEF MakesFirst
  <2> QED
    BY <1>0, <2>1 DEF DeviceFits, CalmFits
<1>4. at'[d] \in {"send", "idle"} /\ (Complete(d)' <=> Complete(d))
  BY <1>0, <1>1 DEF Capture, Go, Typed, Complete
<1>5. PhaseFits(d)' /\ FreshFits(d)' /\ CalmFits(d)'
  BY <1>0, <1>1, <1>3, <1>4 DEF DeviceFits, PhaseFits, FreshFits, CalmFits
<1>6. CursorFits(d)'
  <2>1. \A c \in DOMAIN log : log[c].dev = d => c <= cursor[d]
    <3>1. CASE rev[d] = 0
      BY <3>1, NoneOfIts
    <3>2. CASE at[d] = "snapshot"
      BY <1>0, <3>2 DEF DeviceFits, CursorFits
    <3> QED
      BY <1>2, <3>1, <3>2
  <2> QED
    BY <1>0, <1>1, <2>1 DEF DeviceFits, CursorFits
<1>7. ShotFits(d)'
  <2> SUFFICES ASSUME Uploading(d)' PROVE ShotFits(d)'
    BY DEF ShotFits
  <2> DEFINE s == [data |-> table[d], st |-> CapturedStates(d), front |-> front[d],
                   cursor |-> cursor[d], epoch |-> era[d], dev |-> d]
  <2>1. Coherent(d) /\ at'[d] = "send" /\ shot'[d] = s
    <3>1. Coherent(d)
      BY <1>0 DEF Capture, Go, Uploading, Typed
    <3> QED
      BY <1>0, <3>1 DEF Capture, Go, Typed
  <2>2. \A e \in Entities : /\ s.st[e] = Known(st[d][e], s.data[e])
                            /\ s.st[e].val = s.data[e]
    BY <2>1 DEF CapturedStates, Coherent
  <2>3. s \in SnapshotRecords
    <3>1. \A e \in Entities : Known(st[d][e], table[d][e]) \in EntityStates
      BY <1>0, KnownType DEF Typed, Stores
    <3>2. CapturedStates(d) \in Stores
      BY <3>1 DEF CapturedStates, Stores
    <3> QED
      BY <1>0, <3>2 DEF Typed, SnapshotRecords
  <2>4. s.data = table[d] /\ s.cursor = cursor[d]
    OBVIOUS
  <2> HIDE DEF s
  <2>5. Complete(d)' => \A e \in Entities : Follows(shot[d].data[e], e, cursor[d])'
    <3>1. Complete(d) => at[d] = "snapshot" /\ snaps # <<>>
      BY <1>2, Standing
    <3>2. Complete(d) => \A e \in Entities : Follows(table[d][e], e, cursor[d])
      BY <2>1, <3>1, CaptureFollows
    <3>3. cursor[d] \in Nat /\ cursor[d] <= Len(log)
      BY Standing
    <3>4. Complete(d) => \A e \in Entities : NowFollows(table[d][e], e, cursor[d])
      BY <1>0, <3>1, <3>2, <3>3, FollowsStill
    <3>5. Complete(d) => \A e \in Entities : NowFollows(shot'[d].data[e], e, cursor'[d])
      BY <1>1, <2>1, <2>4, <3>4
    <3>6. (\A e \in Entities : NowFollows(shot'[d].data[e], e, cursor'[d]))
          => \A e \in Entities : Follows(shot[d].data[e], e, cursor[d])'
      BY DEF Follows, NowFollows, Truth, TruthOf, OpsOn, Complete
    <3> QED
      BY <1>4, <3>5, <3>6
  <2>6. ~Complete(d) => \E e \in Entities : s.data[e] # 0
    <3>1. ~Complete(d) => mode[d] = "creator-upload"
      BY <1>2 DEF MakesFirst
    <3>2. mode[d] = "creator-upload" => \A e \in Initially : table[d][e] > 0
      BY <1>0 DEF DeviceFits, PhaseFits
    <3>3. PICK e \in Initially : e \in Entities
      BY DeviceSnapshotAssumption DEF DeviceSnapshotAssumption
    <3> QED
      BY <2>4, <3>1, <3>2, <3>3
  <2> QED
    BY <1>1, <1>4, <2>1, <2>2, <2>3, <2>4, <2>5, <2>6 DEF ShotFits
<1>8. HeldFits(d)' /\ QueueFits(d)'
  BY <1>0, <1>1 DEF DeviceFits, HeldFits, QueueFits, Intents
<1>9. OwnerFits(d)'
  <2>1. Complete(d) => unaudited' = unaudited
    BY DEF Capture, Audited, Complete
  <2>2. Complete(d) => OwnerFits(d)'
    BY <1>0, <1>1, <2>1, OwnerStays
  <2> QED
    BY <1>4, <2>2 DEF OwnerFits
<1>10. TableFits(d)'
  <2>1. Complete(d) => TableFits(d)'
    BY <1>0, <1>1, TableStays
  <2> QED
    BY <1>4, <2>1 DEF TableFits
<1> QED
  BY <1>5, <1>6, <1>7, <1>8, <1>9, <1>10 DEF DeviceFits

\* A snapshot is committed, or refused.
LEMMA SendKeeps ==
    ASSUME IInv, NEW d \in Devices, Send(d)
    PROVE  DeviceFits(d)'
<1> USE DEF metadata, stores
<1>0. Typed /\ DeviceFits(d) /\ StepOf(d) /\ ~Upload(d) /\ at[d] = "send" /\ Uploading(d)
  BY DEF IInv, StepOf, Upload, Send, Uploading
<1>1. /\ log' = log /\ acked' = acked /\ mode' = mode /\ rev' = rev
      /\ cursor' = cursor /\ table' = table /\ st' = st /\ inbox' = inbox
      /\ outbox' = outbox /\ conflict' = conflict /\ block' = block
      /\ unaudited' = unaudited
  BY DEF Send
<1>2. \/ /\ UponCurrent(d) /\ at'[d] = "store" /\ shot'[d] = shot[d]
         /\ snaps' = Append(snaps, shot[d])
      \/ at'[d] = "idle"
      \/ UponCurrent(d) /\ ~AllAcked /\ at'[d] = "acknowledge"
  BY <1>0 DEF Send, Go, Typed
<1>3. at'[d] = "acknowledge" => rev[d] > 0
  <2>1. at'[d] = "acknowledge" => rev[d] = Current /\ Current # 0
    BY <1>2 DEF UponCurrent, AllAcked
  <2> QED
    BY <2>1, Standing
<1>4. Complete(d)' <=> Complete(d)
  BY <1>1 DEF Complete
<1>5. /\ Len(snaps') \in Nat /\ Len(snaps) <= Len(snaps')
      /\ \A r \in DOMAIN snaps : snaps'[r] = snaps[r]
  BY <1>0, Grows
<1>6. PhaseFits(d)' /\ FreshFits(d)' /\ CalmFits(d)'
  BY <1>0, <1>1, <1>2, <1>3, <1>4 DEF DeviceFits, PhaseFits, FreshFits, CalmFits, Uploading
<1>7. CursorFits(d)'
  <2>1. \A c \in DOMAIN log : log[c].dev = d => c <= cursor[d]
    BY <1>0 DEF DeviceFits, CursorFits
  <2>2. rev[d] <= Len(snaps')
    BY <1>5, Standing
  <2> QED
    BY <1>0, <1>1, <2>1, <2>2 DEF DeviceFits, CursorFits
<1>8. ShotFits(d)'
  <2> SUFFICES ASSUME Uploading(d)' PROVE ShotFits(d)'
    BY DEF ShotFits
  <2>1. /\ UponCurrent(d) /\ at'[d] = "store" /\ shot'[d] = shot[d]
        /\ snaps' = Append(snaps, shot[d])
    BY <1>2 DEF Uploading
  <2>2. ShotFits(d)
    BY <1>0 DEF DeviceFits
  <2>3. rev[d] < Len(snaps') /\ snaps'[rev[d] + 1] = shot[d]
    <3>1. snaps \in Seq(SnapshotRecords) /\ rev[d] = Len(snaps)
      BY <1>0, <2>1 DEF Typed, UponCurrent, Current
    <3> QED
      BY <2>1, <3>1
  <2>4. Complete(d)' => \A e \in Entities : Follows(shot[d].data[e], e, cursor[d])'
    <3>1. Complete(d) => \A e \in Entities : Follows(shot[d].data[e], e, cursor[d])
      BY <1>0, <2>2 DEF ShotFits
    <3>2. Complete(d) => snaps # <<>>
      BY Standing
    <3>3. cursor[d] \in Nat /\ cursor[d] <= Len(log)
      BY Standing
    <3>4. Complete(d) => \A e \in Entities : NowFollows(shot[d].data[e], e, cursor[d])
      BY <1>0, <3>1, <3>2, <3>3, FollowsStill
    <3>5. Complete(d) => \A e \in Entities : NowFollows(shot'[d].data[e], e, cursor'[d])
      BY <1>1, <2>1, <3>4
    <3>6. (\A e \in Entities : NowFollows(shot'[d].data[e], e, cursor'[d]))
          => \A e \in Entities : Follows(shot[d].data[e], e, cursor[d])'
      BY DEF Follows, NowFollows, Truth, TruthOf, OpsOn, Complete
    <3> QED
      BY <1>4, <3>5, <3>6
  <2>5. /\ shot[d] \in SnapshotRecords /\ shot[d].cursor = cursor[d]
        /\ \A e \in Entities : /\ shot[d].st[e] = Known(st[d][e], shot[d].data[e])
                               /\ shot[d].st[e].val = shot[d].data[e]
        /\ ~Complete(d) =>
              /\ \E e \in Entities : shot[d].data[e] # 0
              /\ \A e \in Entities : \/ shot[d].data[e] = table[d][e]
                                     \/ Owner[e] = d /\ <<d, e>> \in unaudited
    BY <1>0, <2>2 DEF ShotFits
  <2> QED
    BY <1>1, <1>4, <2>1, <2>3, <2>4, <2>5 DEF ShotFits
<1>9. HeldFits(d)'
  <2>1. rev[d] > 0 => snaps'[rev[d]] = snaps[rev[d]]
    BY <1>5, Standing
  <2> QED
    BY <1>0, <1>1, <2>1 DEF DeviceFits, HeldFits
<1>10. QueueFits(d)'
  BY <1>0, <1>1 DEF DeviceFits, QueueFits, Intents
<1>11. OwnerFits(d)' /\ TableFits(d)'
  <2>1. Complete(d) => OwnerFits(d)' /\ TableFits(d)'
    BY <1>0, <1>1, OwnerStays, TableStays
  <2> QED
    BY <1>4, <2>1 DEF OwnerFits, TableFits
<1> QED
  BY <1>6, <1>7, <1>8, <1>9, <1>10, <1>11 DEF DeviceFits

\* When its answer arrives, the snapshot is the revision of the device that made it.
LEMMA StoreKeeps ==
    ASSUME IInv, NEW d \in Devices, Store(d)
    PROVE  DeviceFits(d)'
<1> USE DEF service
<1> DEFINE s == shot[d]
           r == rev[d] + 1
<1>0. Typed /\ DeviceFits(d) /\ StepOf(d) /\ ~Upload(d) /\ at[d] = "store" /\ Uploading(d)
  BY DEF IInv, StepOf, Upload, Store, Uploading
<1>1. /\ log' = log /\ snaps' = snaps /\ acked' = acked /\ table' = table
      /\ inbox' = inbox /\ outbox' = outbox /\ conflict' = conflict
      /\ unaudited' = unaudited
  BY DEF Store
<1>2. /\ st'[d] = s.st /\ mode'[d] = "complete" /\ rev'[d] = r /\ cursor'[d] = s.cursor
      /\ at'[d] = AfterSnapshot(d)
  BY <1>0 DEF Store, Go, Typed
<1>3. /\ s \in SnapshotRecords /\ s.cursor = cursor[d]
      /\ \A e \in Entities : /\ s.st[e] = Known(st[d][e], s.data[e])
                             /\ s.st[e].val = s.data[e]
      /\ rev[d] < Len(snaps) /\ snaps[r] = s
      /\ ~Complete(d) => \A e \in Entities : \/ s.data[e] = table[d][e]
                                             \/ Owner[e] = d /\ <<d, e>> \in unaudited
  BY <1>0 DEF DeviceFits, ShotFits
<1> HIDE DEF s
<1>4. /\ r \in DOMAIN snaps /\ r > 0 /\ r <= Len(snaps) /\ acked[d] <= r /\ snaps # <<>>
      /\ rev[d] = 0 => r = 1
      /\ cursor[d] \in Nat /\ cursor[d] <= Len(log) /\ Len(log) \in Nat
  <2>1. /\ rev[d] \in Nat /\ Len(snaps) \in Nat /\ acked[d] \in Nat /\ acked[d] <= rev[d]
        /\ DOMAIN snaps = 1..Len(snaps)
        /\ cursor[d] \in Nat /\ cursor[d] <= Len(log) /\ Len(log) \in Nat
    BY Standing
  <2>2. snaps # <<>>
    BY <1>3, <2>1
  <2> QED
    BY <1>3, <2>1, <2>2
<1> HIDE DEF r
<1>5. /\ Complete(d)' /\ ~Uploading(d)'
      /\ at'[d] \in {"operations", "acknowledge"}
  <2>1. at'[d] \in {"operations", "acknowledge"}
    BY <1>2 DEF AfterSnapshot
  <2> QED
    BY <1>2, <2>1 DEF Complete, Uploading
<1>6. PhaseFits(d)' /\ FreshFits(d)' /\ CalmFits(d)' /\ ShotFits(d)'
  <2>1. rev'[d] # 0 /\ rev'[d] > 0
    BY <1>2, <1>4
  <2> QED
    BY <1>2, <1>5, <2>1 DEF PhaseFits, FreshFits, CalmFits, ShotFits
<1>7. CursorFits(d)'
  BY <1>0, <1>1, <1>2, <1>3, <1>4, <1>5 DEF DeviceFits, CursorFits
<1>8. HeldFits(d)'
  <2>1. \A e \in Entities : s.st[e].ver \in Nat
    BY <1>3 DEF SnapshotRecords, Stores, EntityStates
  <2>2. /\ cursor'[d] >= snaps'[rev'[d]].cursor
        /\ \A e \in Entities : st'[d][e].ver >= snaps'[rev'[d]].st[e].ver
    BY <1>1, <1>2, <1>3, <1>4, <2>1
  <2> QED
    BY <2>2 DEF HeldFits
<1>9. QueueFits(d)'
  BY <1>0, <1>1 DEF DeviceFits, QueueFits, Intents
<1>10. ASSUME NEW e \in Entities, Owner[e] = d
       PROVE  Truth(e, cursor[d]) = Truth(e, Len(log))
  <2>1. \A c \in DOMAIN log : log[c].dev = d => c <= cursor[d]
    BY <1>0 DEF DeviceFits, CursorFits
  <2>2. \A k \in (cursor[d] + 1)..Len(log) : log[k].ent # e
    <3> TAKE k \in (cursor[d] + 1)..Len(log)
    <3>1. k \in DOMAIN log /\ ~(k <= cursor[d])
      BY <1>4, Standing
    <3>2. log[k].dev # d
      BY <2>1, <3>1
    <3> QED
      BY <1>10, <3>1, <3>2 DEF IInv, LogFits
  <2> QED
    BY <1>4, <2>2, TruthSettled
<1>11. OwnerFits(d)'
  <2> SUFFICES ASSUME NEW e \in Entities, Owner[e] = d
               PROVE  (/\ <<d, e>> \in unaudited \/ Base(d, e, Truth(e, Len(log)))
                       /\ CapturedEarly(e, Len(log)) \/ st[d][e].val = Truth(e, Len(log))
                       /\ CapturedEarly(e, Len(log)) /\ st[d][e] # Absent
                             => EarlySnapshot(e))'
    BY DEF OwnerFits
  <2>1. Truth(e, Len(log))' = Truth(e, Len(log)) /\ (EarlySnapshot(e) => EarlySnapshot(e)')
    BY <1>0, <1>4, SaysStill
  <2>2. CapturedEarly(e, Len(log)) /\ s.st[e] # Absent => EarlySnapshot(e)
    BY <1>3, <1>4, <1>10 DEF CapturedEarly, EarlySnapshot
  <2>3. CapturedEarly(e, Len(log))' /\ st'[d][e] # Absent => EarlySnapshot(e)'
    BY <1>2, <2>1, <2>2 DEF CapturedEarly
  <2>4. <<d, e>> \in unaudited \/ Base(d, e, Truth(e, Len(log)))
    <3>1. CASE Complete(d)
      BY <1>0, <3>1 DEF DeviceFits, OwnerFits
    <3>2. CASE ~Complete(d)
      <4>1. rev[d] = 0
        BY <3>2, Standing
      <4>2. outbox[d] = <<>>
        BY <1>0, <4>1 DEF DeviceFits, FreshFits
      <4>3. Truth(e, Len(log)) = s.data[e]
        <5>1. \A k \in 1..Len(log) : log[k].ent # e
          BY <4>1, NoneOfIts, Standing
        <5>2. TruthOf(log, snaps, e, Len(log)) = IF snaps = <<>> THEN 0 ELSE snaps[1].data[e]
          BY <1>4, <5>1, TruthOfNone
        <5> QED
          BY <1>3, <1>4, <4>1, <5>2, TruthIs
      <4>4. s.data[e] = table[d][e] \/ <<d, e>> \in unaudited
        BY <1>3, <3>2
      <4> QED
        BY <4>2, <4>3, <4>4 DEF Base, Intents
    <3> QED
      BY <3>1, <3>2
  <2>5. Base(d, e, Truth(e, Len(log))) => Base(d, e, Truth(e, Len(log)))'
    BY <1>1, <2>1 DEF Base, Intents
  <2>6. CapturedEarly(e, Len(log))' \/ st'[d][e].val = Truth(e, Len(log))'
    <3>1. CASE Complete(d)
      <4>1. CapturedEarly(e, Len(log)) \/ st[d][e].val = Truth(e, Len(log))
        BY <1>0, <3>1 DEF DeviceFits, OwnerFits
      <4>2. CASE CapturedEarly(e, Len(log))
        BY <2>1, <4>2 DEF CapturedEarly
      <4>3. CASE Truth(e, Len(log)) # 0 /\ st[d][e].val = Truth(e, Len(log))
        <5>1. st[d][e] # Absent
          BY <4>3 DEF Absent, Live
        <5>2. s.st[e] = st[d][e]
          BY <1>3, <5>1 DEF Known
        <5> QED
          BY <1>2, <2>1, <4>3, <5>2
      <4> QED
        BY <4>1, <4>2, <4>3 DEF CapturedEarly
    <3>2. CASE ~Complete(d)
      <4>1. rev[d] = 0
        BY <3>2, Standing
      <4>2. Truth(e, Len(log)) = s.data[e]
        <5>1. \A k \in 1..Len(log) : log[k].ent # e
          BY <4>1, NoneOfIts, Standing
        <5>2. TruthOf(log, snaps, e, Len(log)) = IF snaps = <<>> THEN 0 ELSE snaps[1].data[e]
          BY <1>4, <5>1, TruthOfNone
        <5> QED
          BY <1>3, <1>4, <4>1, <5>2, TruthIs
      <4> QED
        BY <1>2, <1>3, <2>1, <4>2
    <3> QED
      BY <3>1, <3>2
  <2> QED
    BY <1>1, <2>3, <2>4, <2>5, <2>6
<1>12. TableFits(d)'
  <2>1. CASE Complete(d)
    BY <1>0, <1>1, <1>2, <1>3, <2>1, TableStays
  <2>2. CASE ~Complete(d)
    <3>1. rev[d] = 0 /\ cursor[d] = 0
      BY <1>0, <2>2, Standing DEF DeviceFits, FreshFits
    <3>2. ASSUME NEW e \in Entities, Owner[e] # d
          PROVE  NowFollows(table'[d][e], e, cursor'[d])
      <4>1. \A k \in 1..0 : log[k].ent # e
        OBVIOUS
      <4>2. TruthOf(log, snaps, e, 0) = IF snaps = <<>> THEN 0 ELSE snaps[1].data[e]
        BY <4>1, TruthOfNone
      <4>3. TruthOf(log', snaps', e, cursor'[d]) = s.data[e]
        BY <1>1, <1>2, <1>3, <1>4, <3>1, <4>2
      <4>4. s.data[e] = table[d][e]
        BY <1>3, <2>2, <3>2
      <4> QED
        BY <1>1, <4>3, <4>4 DEF NowFollows
    <3> QED
      BY <3>2 DEF TableFits, Follows, NowFollows, Truth, TruthOf, OpsOn, Complete
  <2> QED
    BY <2>1, <2>2
<1> QED
  BY <1>6, <1>7, <1>8, <1>9, <1>11, <1>12 DEF DeviceFits

-----------------------------------------------------------------------------
(* The invariant, and what it says.                                          *)

\* The creator begins with tables and no sync state, the others with nothing.
LEMMA InitIInv ==
    Init => IInv
<1> SUFFICES ASSUME Init PROVE IInv
  OBVIOUS
<1> USE DEF Init
<1>0. /\ None \notin Modes \cup Blocks /\ Creator \in Devices /\ Initially \subseteq Entities
      /\ Owner \in [Entities -> Devices]
  BY DeviceSnapshotAssumption DEF DeviceSnapshotAssumption
<1>1. [e \in Entities |-> Absent] \in Stores
  BY DEF Stores, EntityStates, Absent, Live
<1>2. Typed
  <2>1. log \in Seq(Operations) /\ snaps \in Seq(SnapshotRecords)
    OBVIOUS
  <2>2. mode \in [Devices -> Modes \cup {None}] /\ block \in [Devices -> Blocks \cup {None}]
    BY DEF Modes
  <2>3. at \in [Devices -> Phases]
    BY DEF Phases
  <2>4. st \in [Devices -> Stores] /\ front \in [Devices -> Frontiers]
    BY <1>1 DEF Frontiers
  <2>5. table \in [Devices -> [Entities -> Nat]]
    OBVIOUS
  <2>6. /\ acked \in [Devices -> Nat] /\ rev \in [Devices -> Nat] /\ pin \in [Devices -> Nat]
        /\ cursor \in [Devices -> Nat] /\ owes \in [Devices -> Nat] /\ era \in [Devices -> Nat]
        /\ epoch \in Nat
    OBVIOUS
  <2>7. /\ inbox \in [Devices -> SUBSET Nat] /\ outbox \in [Devices -> Seq(OutboxIntents)]
        /\ conflict \in [Devices -> BOOLEAN]
        /\ shot \in [Devices -> SnapshotRecords \cup {None}]
        /\ unaudited \subseteq Devices \X Entities /\ active \subseteq Devices
    BY <1>0
  <2> QED
    BY <2>1, <2>2, <2>3, <2>4, <2>5, <2>6, <2>7 DEF Typed
<1>3. LogFits /\ SnapsFit
  BY DEF LogFits, SnapsFit
<1>4. ASSUME NEW d \in Devices
      PROVE  DeviceFits(d)
  <2>1. /\ at[d] = "idle" /\ rev[d] = 0 /\ cursor[d] = 0 /\ acked[d] = 0 /\ inbox[d] = {}
        /\ outbox[d] = <<>> /\ st[d] = [e \in Entities |-> Absent] /\ ~conflict[d]
        /\ Len(log) = 0 /\ Len(snaps) = 0
    OBVIOUS
  <2>2. ~Complete(d) /\ ~Uploading(d)
    BY <1>0, <2>1 DEF Complete, Uploading, Modes
  <2>3. mode[d] = "creator-upload" => d = Creator /\ \A e \in Initially : table[d][e] > 0
    BY <1>0 DEF Modes
  <2>4. PhaseFits(d)
    BY <2>1, <2>2, <2>3 DEF PhaseFits
  <2>5. FreshFits(d) /\ CursorFits(d) /\ CalmFits(d) /\ ShotFits(d)
    BY <2>1, <2>2 DEF FreshFits, CursorFits, CalmFits, ShotFits
  <2>6. HeldFits(d) /\ QueueFits(d) /\ OwnerFits(d) /\ TableFits(d)
    BY <2>1, <2>2 DEF HeldFits, QueueFits, OwnerFits, TableFits
  <2> QED
    BY <2>4, <2>5, <2>6 DEF DeviceFits
<1> QED
  BY <1>2, <1>3, <1>4 DEF IInv

\* Every step of every device, and every stutter, keeps the invariant.
LEMMA NextIInv ==
    IInv /\ [Next]_vars => IInv'
<1> SUFFICES ASSUME IInv, [Next]_vars PROVE IInv'
  OBVIOUS
<1>1. ASSUME NEW d \in Devices, StepOf(d)
      PROVE  IInv'
  <2>0. Typed /\ LogFits /\ DeviceFits(d) /\ \A x \in Devices : DeviceFits(x)
    BY DEF IInv
  <2>1. CASE QuietStep(d)
    BY <2>0, <2>1, QuietKeeps, QuietSteps, TypedQuiet
  <2>2. CASE ~QuietStep(d)
    <3>1. \/ \E e \in Entities : Edit(d, e)
          \/ Upload(d) \/ Pull(d) \/ Bootstrapped(d) \/ Accept(d) \/ Block(d)
          \/ Capture(d) \/ Send(d) \/ Store(d)
      BY <1>1, <2>2 DEF StepOf, QuietStep
    <3>2. DeviceFits(d)'
      BY <3>1, EditKeeps, UploadKeeps, PullKeeps, BootstrapKeeps, AcceptKeeps, BlockKeeps,
         CaptureKeeps, SendKeeps, StoreKeeps
    <3>3. Typed'
      BY <2>0, <3>1, TypedOperations, TypedSnapshots
    <3>4. \A x \in Devices : DeviceFits(x)'
      BY <1>1, <3>2, OthersKeep
    <3> QED
      BY <1>1, <3>3, <3>4, LogKeeps, SnapsKeep DEF IInv
  <2> QED
    BY <2>1, <2>2
<1>2. CASE Next
  <2>1. \E d \in Devices : StepOf(d)
    BY <1>2 DEF Next, StepOf
  <2> QED
    BY <1>1, <2>1
<1>3. CASE UNCHANGED vars
  <2> USE DEF vars, service, metadata, stores, cycle
  <2>1. Typed'
    <3>1. Typed
      BY DEF IInv
    <3>2. /\ log' = log /\ snaps' = snaps /\ acked' = acked /\ active' = active
          /\ epoch' = epoch /\ mode' = mode /\ rev' = rev /\ pin' = pin /\ block' = block
          /\ cursor' = cursor /\ owes' = owes /\ era' = era /\ table' = table /\ st' = st
          /\ front' = front /\ inbox' = inbox /\ outbox' = outbox
          /\ conflict' = conflict /\ at' = at /\ shot' = shot /\ unaudited' = unaudited
      BY <1>3
    <3> QED
      BY <3>1, <3>2 DEF Typed
  <2>2. Quiet(Creator)
    <3>1. \A x \in Devices : acked[x] <= rev[x]
      BY DEF IInv, DeviceFits, CursorFits
    <3> QED
      BY <1>3, <3>1 DEF Quiet, Complete
  <2>3. Creator \in Devices
    BY DeviceSnapshotAssumption DEF DeviceSnapshotAssumption
  <2> QED
    BY <2>1, <2>2, <2>3, QuietKeeps
<1> QED
  BY <1>2, <1>3

\* The inductive invariant holds in every reachable state.
THEOREM DeviceSnapshotInvariant ==
    Spec => []IInv
<1>1. Init => IInv
  BY InitIInv
<1>2. IInv /\ [Next]_vars => IInv'
  BY NextIInv
<1> QED
  BY <1>1, <1>2, PTL DEF Spec

\* A snapshot says what the first one and the operations up to its cursor say,
\* but for an entity whose creation its owner has not sent
\* (collectSnapshotEntityStates, prepareSnapshot).
THEOREM SnapshotsFollowTheLog ==
    Spec => []SnapshotsFollowLog
<1>1. IInv => SnapshotsFollowLog
  BY DEF IInv, SnapsFit, SnapshotFits, Follows, SnapshotsFollowLog, CapturedEarly
<1> QED
  BY <1>1, DeviceSnapshotInvariant, PTL

\* The finance tables of a device are the log up to its cursor, and for its
\* own entities also what it has not sent (the transaction of a command and its
\* intent, applyRemoteGroup, applyRemoteSnapshot).
THEOREM TablesAreExplained ==
    Spec => []TablesExplained
<1>1. IInv => TablesExplained
  <2> SUFFICES ASSUME IInv, NEW d \in active, NEW e \in Entities,
                      mode[d] = "complete", ~conflict[d]
               PROVE  IF Owner[e] = d
                      THEN \/ <<d, e>> \in unaudited
                           \/ table[d][e] = IF Intents(d, e) # {}
                                            THEN outbox[d][Max(Intents(d, e))].val
                                            ELSE Truth(e, Len(log))
                      ELSE \/ table[d][e] = Truth(e, cursor[d])
                           \/ CapturedEarly(e, cursor[d])
    BY DEF TablesExplained
  <2>1. d \in Devices /\ Complete(d)
    BY DEF IInv, Typed, Complete
  <2>2. DeviceFits(d) /\ outbox[d] \in Seq(OutboxIntents)
    BY <2>1 DEF IInv, Typed
  <2>3. CASE Owner[e] # d
    <3>1. Follows(table[d][e], e, cursor[d])
      BY <2>1, <2>2, <2>3 DEF DeviceFits, TableFits
    <3> QED
      BY <2>3, <3>1 DEF Follows, CapturedEarly
  <2>4. CASE Owner[e] = d
    <3>1. <<d, e>> \in unaudited \/ Base(d, e, Truth(e, Len(log)))
      BY <2>1, <2>2, <2>4 DEF DeviceFits, OwnerFits
    <3>2. CASE Intents(d, e) = {}
      BY <2>4, <3>1, <3>2 DEF Base
    <3>3. CASE Intents(d, e) # {}
      <4>1. /\ Intents(d, e) \subseteq Nat /\ Len(outbox[d]) \in Nat
            /\ \A i \in Intents(d, e) : i <= Len(outbox[d])
        BY <2>2 DEF Intents
      <4>2. /\ Max(Intents(d, e)) \in Intents(d, e)
            /\ \A k \in Intents(d, e) : k <= Max(Intents(d, e))
        BY <3>3, <4>1, MaxIs
      <4> DEFINE m == Max(Intents(d, e))
      <4> HIDE DEF m
      <4>3. m \in DOMAIN outbox[d] /\ outbox[d][m].ent = e /\ \A k \in Intents(d, e) : k <= m
        BY <4>2 DEF Intents, m
      <4>4. outbox[d][m].val = table[d][e]
        BY <2>2, <4>3 DEF DeviceFits, QueueFits
      <4> QED
        BY <2>4, <3>3, <4>4 DEF m
    <3> QED
      BY <3>2, <3>3
  <2> QED
    BY <2>3, <2>4
<1> QED
  BY <1>1, DeviceSnapshotInvariant, PTL

\* A device holds what the revision it took over or acknowledged stands for
\* (acceptCompactionSnapshot, applyRemoteSnapshot, commitLocalSnapshot).
THEOREM PinnedStaysHeld ==
    Spec => []PinnedIsHeld
<1>1. IInv => PinnedIsHeld
  <2> SUFFICES ASSUME IInv, NEW d \in Devices
               PROVE  /\ rev[d] >= acked[d]
                      /\ rev[d] > 0 =>
                            /\ cursor[d] >= snaps[rev[d]].cursor
                            /\ \A e \in Entities : st[d][e].ver >= snaps[rev[d]].st[e].ver
    BY DEF PinnedIsHeld
  <2>1. HeldFits(d)
    BY DEF IInv, DeviceFits
  <2>2. rev[d] >= acked[d]
    BY Standing
  <2> QED
    BY <2>1, <2>2 DEF HeldFits
<1> QED
  BY <1>1, DeviceSnapshotInvariant, PTL

\* An intent can be prepared when its turn comes, but for the two races of
\* entities a snapshot overtook (prepareNextGroup, loadAuditContext).
THEOREM OutboxIsNeverStuck ==
    Spec => []OutboxNeverStuck
<1>1. IInv => OutboxNeverStuck
  <2> SUFFICES ASSUME IInv, NEW d \in active, outbox[d] # <<>>
               PROVE  \/ Preparable(d, Head(outbox[d]))
                      \/ <<d, Head(outbox[d]).ent>> \in unaudited
                      \/ EarlySnapshot(Head(outbox[d]).ent)
    BY DEF OutboxNeverStuck, EarlySnapshot
  <2> DEFINE i == Head(outbox[d])
             e == i.ent
  <2>1. d \in Devices /\ DeviceFits(d) /\ outbox[d] \in Seq(OutboxIntents)
    BY DEF IInv, Typed
  <2>2. 1 \in DOMAIN outbox[d] /\ i = outbox[d][1] /\ i \in OutboxIntents
    BY <2>1
  <2>3. Complete(d)
    <3>1. rev[d] # 0
      BY <2>1 DEF DeviceFits, FreshFits
    <3> QED
      BY <2>1, <3>1, Standing
  <2>4. Owner[e] = d /\ 1 \in Intents(d, e) /\ e \in Entities
    BY <2>1, <2>2 DEF DeviceFits, QueueFits, Intents, OutboxIntents
  <2> HIDE DEF i
  <2>5. /\ <<d, e>> \in unaudited \/ Base(d, e, Truth(e, Len(log)))
        /\ CapturedEarly(e, Len(log)) \/ st[d][e].val = Truth(e, Len(log))
        /\ CapturedEarly(e, Len(log)) /\ st[d][e] # Absent => EarlySnapshot(e)
    BY <2>1, <2>3, <2>4 DEF DeviceFits, OwnerFits
  <2>6. <<d, e>> \in unaudited \/ i.prev = Truth(e, Len(log))
    <3> SUFFICES ASSUME Base(d, e, Truth(e, Len(log)))
                 PROVE  i.prev = Truth(e, Len(log))
      BY <2>5
    <3>1. PICK k \in Intents(d, e) : /\ \A j \in Intents(d, e) : k <= j
                                     /\ Truth(e, Len(log)) = outbox[d][k].prev
      BY <2>4 DEF Base
    <3>2. k \in 1..Len(outbox[d]) /\ k <= 1
      BY <2>1, <2>4, <3>1 DEF Intents
    <3>3. k = 1
      BY <2>1, <3>2
    <3> QED
      BY <2>2, <3>1, <3>3
  <2>7. CASE i.prev = Truth(e, Len(log)) /\ Truth(e, Len(log)) = 0
    <3>1. st[d][e] = Absent => Preparable(d, i)
      BY <2>7 DEF Preparable, Known
    <3>2. st[d][e] # Absent => EarlySnapshot(e)
      BY <2>5, <2>7 DEF CapturedEarly
    <3> QED
      BY <3>1, <3>2 DEF i
  <2>8. CASE i.prev = Truth(e, Len(log)) /\ Truth(e, Len(log)) # 0
    <3>1. st[d][e].val = Truth(e, Len(log))
      BY <2>5, <2>8 DEF CapturedEarly
    <3>2. st[d][e] # Absent
      BY <2>8, <3>1 DEF Absent, Live
    <3>3. Preparable(d, i)
      BY <2>8, <3>1, <3>2 DEF Preparable, Known
    <3> QED
      BY <3>3 DEF i
  <2> QED
    BY <2>6, <2>7, <2>8 DEF i
<1> QED
  BY <1>1, DeviceSnapshotInvariant, PTL
=============================================================================
