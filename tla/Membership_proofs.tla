------------------------- MODULE Membership_proofs -------------------------
(* Proofs about Membership, for every set of devices and every bound: its  *)
(* type invariant and the five safety invariants of its run.               *)
EXTENDS Membership, FiniteSetTheorems, SequenceTheorems, TLAPS

-----------------------------------------------------------------------------
(* The strengthened invariant: what the manifests say.                     *)

Members(k) == chain[k].active

\* Epochs never go back, a rotation begins the next one, the first manifest
\* creates the vault and no other does.
EpochsGrow ==
    \A i, j \in 1..Version : i <= j => chain[i].epoch <= chain[j].epoch
KindsFit ==
    /\ chain # <<>> => chain[1].kind = "create"
    /\ \A k \in 2..Version :
        /\ chain[k].kind # "create"
        /\ chain[k].kind \in {"revoke", "recover"} => chain[k].epoch = chain[k - 1].epoch + 1

\* A device is a member of consecutive manifests only.
Contiguous ==
    \A i, j, k \in 1..Version :
        i <= j /\ j <= k => Members(i) \cap Members(k) \subseteq Members(j)

\* A device that has never had a row was never a member.
RowsFit ==
    \A k \in 1..Version : \A d \in Members(k) : row[d] # "none"

-----------------------------------------------------------------------------
(* What each device, request and envelope owes to the manifests.           *)

\* A device that joined with the manifest after this one.
JoinedAfter(d, k) ==
    /\ k \in 1..Version /\ k + 1 \in 1..Version
    /\ d \in Members(k + 1)
    /\ \A j \in 1..k : d \notin Members(j)

PairingFits(d) ==
    LET p == pairing[d] IN
    /\ p.state \in {"pending", "approved"} => row[d] = "none"
    /\ p.state = "approved" => p.base \in 1..Version /\ p.by \in Members(p.base)
    /\ p.state = "finalized" =>
         JoinedAfter(d, p.base) /\ chain[p.base + 1].epoch = chain[p.base].epoch

FlowFits(d) ==
    LET f == memory[d] IN
    /\ f.pc = "registering" =>
         pairing[d] = NoPairing /\ (chain # <<>> => d \in Members(1))
    /\ f.pc = "approving" => f.base \in 1..Version /\ d \in Members(f.base)
    /\ f.pc = "renewing" => f.base \in 1..Version /\ f.x \in Members(f.base)
    /\ f.pc = "renewed" =>
         /\ f.base \in 1..Version /\ f.base + 1 \in 1..Version
         /\ Members(f.base + 1) = Members(f.base)
         /\ chain[f.base + 1].epoch = chain[f.base].epoch
         /\ chain[f.base + 1].kind = "renew"
    /\ f.pc = "revoking" => f.base \in 1..Version /\ f.x \in Members(f.base) \ {d}
    /\ f.pc = "revoked" =>
         /\ f.base \in 1..Version /\ f.base + 1 \in 1..Version
         /\ d \in Members(f.base + 1) /\ chain[f.base + 1].kind = "revoke"
    /\ f.pc = "recovering" =>
         /\ f.base \in 1..Version /\ pairing[d] = NoPairing
         /\ row[d] = "none" \/ JoinedAfter(d, f.base)

SetupFits(d) ==
    HasSetup(d) => setup[d].version \in 1..Version /\ d \in Members(setup[d].version)

DevicesFit ==
    \A d \in Devices : PairingFits(d) /\ FlowFits(d) /\ SetupFits(d)

\* One device creates the vault.
OneFounder ==
    \A d, e \in Devices : At(d, "registering") /\ At(e, "registering") => d = e

\* Every rotation sealed its key for each device that stayed, and no envelope
\* of an epoch comes from anyone but its author.
EnvelopesFit ==
    /\ \A k \in envelope : k.epoch <= Epoch
    /\ \A k \in 2..Version : chain[k].kind = "revoke" =>
        /\ \A d \in Members(k) :
              [epoch |-> chain[k].epoch, to |-> d, from |-> chain[k].by] \in envelope
        /\ \A e \in envelope : e.epoch = chain[k].epoch => e.from = chain[k].by

\* The recovery record is bound to a manifest of the chain.
RecoveryFits ==
    IF chain = <<>> THEN recovery.code = None ELSE recovery.version \in 1..Version

\* A device that renews an authorization remembers what it owes.
RenewalsRemember ==
    \A a \in Devices :
        memory[a].pc \in {"renewing", "renewed"} /\ cloud \notin {0, Epoch} =>
            \A k \in 1..Version :
                /\ k <= memory[a].base /\ chain[k].kind = "revoke"
                /\ chain[k].by = a /\ chain[k].epoch = Epoch
                => memory[a].pending = Epoch

IInv ==
    /\ TypeOK /\ EpochsGrow /\ KindsFit /\ Contiguous /\ RowsFit
    /\ DevicesFit /\ OneFounder /\ EnvelopesFit /\ RecoveryFits
    /\ RenewalsRemember
    /\ ChainAuthorized /\ TablesAgree /\ KeysStayInside
    /\ RevokerOwesSnapshot

-----------------------------------------------------------------------------
(* Operators.                                                              *)

\* A set of devices is finite, so its size is a number.
LEMMA DeviceSetsFinite ==
    ASSUME NEW S, S \subseteq Devices
    PROVE  IsFiniteSet(S) /\ Cardinality(S) \in Nat
BY MembershipAssumption, FS_Subset, FS_CardinalityType DEF MembershipAssumption

\* The manifests are records, numbered from one.
LEMMA ChainType ==
    ASSUME TypeOK
    PROVE  /\ Version \in Nat /\ DOMAIN chain = 1..Version
           /\ chain = <<>> <=> Version = 0
           /\ \A k \in 1..Version :
                /\ chain[k] \in Manifests
                /\ chain[k].epoch \in Nat /\ chain[k].by \in Devices \cup {None}
                /\ Members(k) \subseteq Devices
<1>1. chain \in Seq(Manifests) /\ Len(chain) \in Nat
  BY DEF TypeOK
<1>2. Version \in Nat /\ DOMAIN chain = 1..Version /\ (chain = <<>> <=> Version = 0)
  BY <1>1 DEF Version
<1>3. \A k \in 1..Version : chain[k] \in Manifests
  BY <1>1 DEF Version
<1>4. \A k \in 1..Version :
        chain[k].epoch \in Nat /\ chain[k].by \in Devices \cup {None} /\ Members(k) \subseteq Devices
  BY <1>3 DEF Manifests, Members
<1> QED
  BY <1>2, <1>3, <1>4

\* The members and the epoch of a started vault are those of its last manifest.
LEMMA LastManifest ==
    ASSUME TypeOK
    PROVE  /\ chain # <<>> => /\ Version \in 1..Version
                              /\ Active = Members(Version) /\ Epoch = chain[Version].epoch
           /\ chain = <<>> => Active = {} /\ Epoch = 0
           /\ Active \subseteq Devices /\ Epoch \in Nat
BY ChainType DEF Active, Epoch, Current, Members

\* A manifest that is stored comes after the others.
Stores(m) ==
    /\ Version' = Version + 1
    /\ \A k \in 1..Version : chain'[k] = chain[k]
    /\ chain'[Version + 1] = m

\* Appending to the chain stores a manifest.
LEMMA Appended ==
    ASSUME TypeOK, NEW m \in Manifests, chain' = Append(chain, m)
    PROVE  Stores(m) /\ chain' \in Seq(Manifests)
BY DEF TypeOK, Stores, Version

\* A stored manifest is the current one.
LEMMA StoredIsCurrent ==
    ASSUME TypeOK, NEW m, Stores(m)
    PROVE  chain' # <<>> /\ Active' = m.active /\ Epoch' = m.epoch
<1>1. Version \in Nat /\ Version' = Version + 1 /\ chain'[Version'] = m
  BY ChainType DEF Stores
<1>2. chain' # <<>>
  BY <1>1 DEF Version
<1> QED
  BY <1>1, <1>2 DEF Active, Epoch, Current

-----------------------------------------------------------------------------
(* Types.                                                                  *)

SetupRecords == [version : Nat, keys : SUBSET Nat, pending : Nat]
FlowRecords == [pc : Pcs, x : Devices \cup {None}, base : Nat, pending : Nat]
PairingRecords == [state : {"none", "pending", "approved", "finalized", "ended"},
                   by : Devices \cup {None}, base : Nat]

\* A flow keeps its type through the ways it moves on.
LEMMA FlowMoves ==
    ASSUME TypeOK, NEW d \in Devices
    PROVE  /\ \A pc \in Pcs : Goto(d, pc) => memory' \in [Devices -> FlowRecords]
           /\ \A pc \in Pcs, x \in Devices \cup {None} :
                Begin(d, pc, x) => memory' \in [Devices -> FlowRecords]
           /\ Leave(d) => memory' \in [Devices -> FlowRecords]
<1>1. memory \in [Devices -> FlowRecords] /\ Idle \in FlowRecords
  BY DEF TypeOK, FlowRecords, Idle, Pcs
<1>2. ASSUME NEW pc \in Pcs, Goto(d, pc)
      PROVE  memory' \in [Devices -> FlowRecords]
  BY <1>1, <1>2 DEF Goto, FlowRecords
<1>3. ASSUME NEW pc \in Pcs, NEW x \in Devices \cup {None}, Begin(d, pc, x)
      PROVE  memory' \in [Devices -> FlowRecords]
  <2>1. Version \in Nat
    BY ChainType
  <2>2. [Idle EXCEPT !.pc = pc, !.x = x, !.base = Version] \in FlowRecords
    BY <2>1 DEF Idle, FlowRecords
  <2> QED
    BY <1>1, <1>3, <2>2 DEF Begin
<1>4. ASSUME Leave(d)
      PROVE  memory' \in [Devices -> FlowRecords]
  BY <1>1, <1>4 DEF Leave
<1> QED
  BY <1>2, <1>3, <1>4

\* A set-up made for a manifest of the chain has the type.
LEMMA NewSetupType ==
    ASSUME TypeOK, NEW k \in 1..Version
    PROVE  NewSetup(k) \in SetupRecords
BY ChainType DEF NewSetup, SetupRecords

\* What a device fetches begins with the manifest after the one it has pinned.
LEMMA NextManifest ==
    ASSUME TypeOK, NEW d \in Devices, ChangesAfter(d) # <<>>
    PROVE  /\ setup[d].version + 1 \in 1..Version
           /\ Head(ChangesAfter(d)) = chain[setup[d].version + 1]
<1>1. setup[d].version \in Nat /\ chain \in Seq(Manifests) /\ Version \in Nat
  BY ChainType DEF TypeOK
<1>2. setup[d].version + 1 <= Version
  BY <1>1 DEF ChangesAfter, Version
<1>3. Len(ChangesAfter(d)) = Version - setup[d].version
  BY <1>1, <1>2 DEF ChangesAfter, Version
<1>4. ChangesAfter(d)[1] = chain[setup[d].version + 1]
  BY <1>1, <1>2 DEF ChangesAfter, Version
<1>5. Head(ChangesAfter(d)) = ChangesAfter(d)[1]
  BY <1>1, <1>3 DEF ChangesAfter
<1> QED
  BY <1>1, <1>2, <1>4, <1>5

\* Pinning the next manifest keeps the type.
LEMMA PinNextType ==
    ASSUME TypeOK, NEW d \in Devices, NEW keys \in SUBSET Nat, NEW pending \in Nat,
           PinNext(d, keys, pending)
    PROVE  setup' \in [Devices -> SetupRecords]
<1>1. setup \in [Devices -> SetupRecords] /\ setup[d] \in SetupRecords
  BY DEF TypeOK, SetupRecords
<1>2. setup[d].version \in Nat /\ setup[d].keys \subseteq Nat
  BY <1>1 DEF SetupRecords
<1>3. [version |-> setup[d].version + 1, keys |-> setup[d].keys \cup keys,
       pending |-> pending] \in SetupRecords
  <2>1. setup[d].version + 1 \in Nat
    BY <1>2
  <2>2. setup[d].keys \cup keys \subseteq Nat
    BY <1>2
  <2> QED
    BY <2>1, <2>2 DEF SetupRecords
<1> QED
  BY <1>1, <1>3 DEF PinNext

\* Ending requests leaves no more of them approved.
LEMMA FewerApproved ==
    ASSUME TypeOK,
           \A d \in Devices : pairing'[d].state = "approved" => pairing[d].state = "approved"
    PROVE  Cardinality(Approved') <= MaxApproved
<1>1. Approved' \subseteq Approved /\ Approved \subseteq Devices
  BY DEF Approved
<1>2. /\ IsFiniteSet(Approved)
      /\ Cardinality(Approved) \in Nat /\ Cardinality(Approved') \in Nat
  BY <1>1, DeviceSetsFinite
<1>3. Cardinality(Approved') <= Cardinality(Approved)
  BY <1>1, <1>2, FS_Subset
<1> QED
  BY <1>2, <1>3, MembershipAssumption DEF TypeOK, MembershipAssumption

\* One more request is approved only if there is room.
LEMMA OneMoreApproved ==
    ASSUME TypeOK, NEW d \in Devices, HasRoom, Approved' = Approved \cup {d}
    PROVE  Cardinality(Approved') <= MaxApproved
<1>1. IsFiniteSet(Approved) /\ Cardinality(Approved) \in Nat
  BY DeviceSetsFinite DEF Approved
<1>2. Cardinality(Approved') <= Cardinality(Approved) + 1 /\ Cardinality(Approved') \in Nat
  <2>1. Cardinality(Approved') = IF d \in Approved THEN Cardinality(Approved)
                                                   ELSE Cardinality(Approved) + 1
    BY <1>1, FS_AddElement
  <2> QED
    BY <1>1, <2>1
<1> QED
  BY <1>1, <1>2, MembershipAssumption DEF HasRoom, MembershipAssumption

\* Cancelling the requests of a vault keeps their type and approves none.
LEMMA CancelledType ==
    ASSUME TypeOK, pairing' = PairingsCancelled
    PROVE  pairing' \in [Devices -> PairingRecords] /\ Cardinality(Approved') <= MaxApproved
<1>1. pairing' \in [Devices -> PairingRecords]
  <2>1. \A d \in Devices : pairing[d] \in PairingRecords
    BY DEF TypeOK, PairingRecords
  <2>2. \A p \in PairingRecords : [p EXCEPT !.state = "ended"] \in PairingRecords
    BY DEF PairingRecords
  <2> QED
    BY <2>1, <2>2 DEF PairingsCancelled
<1>2. \A d \in Devices : pairing'[d].state # "approved"
  BY DEF TypeOK, PairingsCancelled
<1> QED
  BY <1>1, <1>2, FewerApproved

\* Changing the state of a request to one that is not "approved" is harmless.
LEMMA PairingMoves ==
    ASSUME TypeOK, NEW d \in Devices, NEW state \in {"pending", "finalized", "ended"},
           pairing' = [pairing EXCEPT ![d].state = state]
    PROVE  pairing' \in [Devices -> PairingRecords] /\ Cardinality(Approved') <= MaxApproved
<1>0. pairing \in [Devices -> PairingRecords]
  BY DEF TypeOK, PairingRecords
<1>1. pairing' \in [Devices -> PairingRecords]
  BY <1>0 DEF PairingRecords
<1>2. ASSUME NEW e \in Devices, pairing'[e].state = "approved"
      PROVE  pairing[e].state = "approved"
  <2>1. CASE e = d
    BY <1>0, <1>2, <2>1 DEF PairingRecords
  <2>2. CASE e # d
    BY <1>0, <1>2, <2>2
  <2> QED
    BY <2>1, <2>2
<1> QED
  BY <1>1, <1>2, FewerApproved

\* A step of a flow keeps the types.
LEMMA FlowStepType ==
    ASSUME TypeOK, DevicesFit, NEW d \in Devices, FlowStep(d)
    PROVE  TypeOK'
<1> USE DEF tables, local, At
<1>0. /\ pairing \in [Devices -> PairingRecords] /\ memory \in [Devices -> FlowRecords]
      /\ setup \in [Devices -> SetupRecords]
      /\ memory[d] \in FlowRecords /\ pairing[d] \in PairingRecords
  BY DEF TypeOK, PairingRecords, FlowRecords, SetupRecords
<1>a. FlowFits(d) /\ PairingFits(d) /\ SetupFits(d)
  BY DEF DevicesFit
<1>b. Version \in Nat /\ None \in Devices \cup {None}
  BY ChainType
<1>c. ASSUME UNCHANGED <<tables, local>>, memory' \in [Devices -> FlowRecords]
      PROVE  TypeOK'
  BY <1>c DEF TypeOK, FlowRecords, Approved
<1>1. CASE EnableBegin(d) \/ ResumeFinalization(d)
  <2>1. memory' \in [Devices -> FlowRecords]
    BY <1>1, FlowMoves DEF EnableBegin, ResumeFinalization, Pcs
  <2> QED
    BY <1>1, <1>c, <2>1 DEF EnableBegin, ResumeFinalization
<1>2. CASE CreateVault(d)
  <2>1. Manifest("create", d, 1, {d}) \in Manifests
    BY DEF Manifest, Manifests
  <2>2. chain' \in Seq(Manifests)
    BY <1>2, <2>1 DEF CreateVault
  <2> QED
    BY <1>2, <2>2 DEF CreateVault, TypeOK, Approved
<1>3. CASE EnableWrite(d)
  <2>1. chain # <<>> /\ setup' = [setup EXCEPT ![d] = NewSetup(1)] /\ Leave(d)
    BY <1>3 DEF EnableWrite
  <2>2. NewSetup(1) \in SetupRecords
    BY <2>1, <1>b, ChainType, NewSetupType
  <2>3. setup' \in [Devices -> SetupRecords] /\ memory' \in [Devices -> FlowRecords]
    BY <1>0, <2>1, <2>2, FlowMoves
  <2> QED
    BY <1>3, <2>3 DEF EnableWrite, TypeOK, SetupRecords, FlowRecords, Approved
<1>4. CASE PairStart(d)
  <2>1. pairing' \in [Devices -> PairingRecords] /\ Cardinality(Approved') <= MaxApproved
    BY <1>4, PairingMoves DEF PairStart, CreatePairing
  <2>2. memory' \in [Devices -> FlowRecords]
    BY <1>4, FlowMoves DEF PairStart, Pcs
  <2> QED
    BY <1>4, <2>1, <2>2 DEF PairStart, TypeOK, PairingRecords, FlowRecords
<1>5. CASE CancelPairing(d)
  <2>1. pairing' \in [Devices -> PairingRecords] /\ Cardinality(Approved') <= MaxApproved
    <3>1. CASE Cancel(d)
      BY <3>1, PairingMoves DEF Cancel
    <3>2. CASE UNCHANGED pairing
      BY <3>2, <1>0 DEF TypeOK, Approved
    <3> QED
      BY <1>5, <3>1, <3>2 DEF CancelPairing
  <2>2. memory' \in [Devices -> FlowRecords]
    BY <1>5, FlowMoves DEF CancelPairing
  <2> QED
    BY <1>5, <2>1, <2>2 DEF CancelPairing, TypeOK, PairingRecords, FlowRecords
<1>6. CASE ConfirmSas(d)
  <2>1. memory' \in [Devices -> FlowRecords]
    BY <1>6, FlowMoves DEF ConfirmSas, Pcs
  <2> QED
    BY <1>6, <2>1 DEF ConfirmSas, Stage, TypeOK, FlowRecords, Approved
<1>7. CASE FinalizePairing(d)
  <2>1. /\ pairing[d].base \in 1..Version /\ pairing[d].by \in Members(pairing[d].base)
        /\ pairing' = [pairing EXCEPT ![d].state = "finalized"]
        /\ chain' = Append(chain, Added(d))
    BY <1>7, <1>a DEF FinalizePairing, PairingFits
  <2>2. Added(d) \in Manifests
    BY <2>1, <1>0, ChainType DEF Added, Manifest, Manifests, Members
  <2>3. chain' \in Seq(Manifests)
    BY <2>1, <2>2, Appended
  <2>4. pairing' \in [Devices -> PairingRecords] /\ Cardinality(Approved') <= MaxApproved
    BY <2>1, PairingMoves
  <2> QED
    BY <1>7, <2>3, <2>4 DEF FinalizePairing, TypeOK, PairingRecords
<1>8. CASE Promote(d)
  <2>1. pairing[d].base \in 1..Version
    BY <1>8, <1>a DEF Promote, Promotable, FinalizedOnce, PairingFits, JoinedAfter
  <2>2. NewSetup(pairing[d].base) \in SetupRecords
    BY <2>1, NewSetupType
  <2>3. setup' \in [Devices -> SetupRecords]
    BY <1>8, <1>0, <2>2 DEF Promote, Promoted, SetupRecords
  <2>4. memory' \in [Devices -> FlowRecords]
    BY <1>8, FlowMoves DEF Promote
  <2> QED
    BY <1>8, <2>3, <2>4 DEF Promote, TypeOK, SetupRecords, FlowRecords, Approved
<1>9. CASE CommitApproval(d)
  <2> DEFINE x == memory[d].x
             new == [state |-> "approved", by |-> d, base |-> memory[d].base]
  <2>1. memory' \in [Devices -> FlowRecords]
    BY <1>9, FlowMoves DEF CommitApproval
  <2>2. pairing' \in [Devices -> PairingRecords] /\ Cardinality(Approved') <= MaxApproved
    <3>1. CASE UNCHANGED pairing
      BY <3>1, <1>0 DEF TypeOK, Approved
    <3>2. CASE pairing' = [pairing EXCEPT ![x] = new] /\ HasRoom /\ x \in Devices
      <4>1. new \in PairingRecords
        BY <1>0 DEF PairingRecords, FlowRecords
      <4>2. Approved' = Approved \cup {x}
        BY <3>2, <1>0 DEF Approved
      <4> QED
        BY <3>2, <1>0, <4>1, <4>2, OneMoreApproved
    <3>3. CASE x \notin Devices
      <4>1. x = None
        BY <3>3, <1>0 DEF FlowRecords
      <4>2. pairing' = pairing
        BY <1>9, <3>3, <1>0 DEF CommitApproval
      <4> QED
        BY <4>2, <3>1
    <3> QED
      BY <1>9, <3>1, <3>2, <3>3 DEF CommitApproval
  <2> QED
    BY <1>9, <2>1, <2>2 DEF CommitApproval, TypeOK, PairingRecords, FlowRecords
<1>10. CASE RenewDevice(d)
  <2>1. memory[d].base \in 1..Version /\ memory[d].x \in Members(memory[d].base)
    BY <1>10, <1>a DEF RenewDevice, FlowFits
  <2>2. Renewed(d) \in Manifests
    BY <2>1, ChainType DEF Renewed, Manifest, Manifests, Members
  <2>3. chain' \in Seq(Manifests)
    BY <1>10, <2>2, Appended DEF RenewDevice
  <2>4. memory' \in [Devices -> FlowRecords]
    BY <1>10, FlowMoves DEF RenewDevice, Pcs
  <2>5. grant' \in [Devices -> {"none", "valid", "expired"}]
    BY <1>10 DEF RenewDevice, TypeOK
  <2> QED
    BY <1>10, <2>3, <2>4, <2>5 DEF RenewDevice, TypeOK, FlowRecords, Approved
<1>11. CASE WriteRenewed(d)
  <2>1. memory' \in [Devices -> FlowRecords]
    BY <1>11, FlowMoves DEF WriteRenewed
  <2>2. memory[d].pending \in Nat
    BY <1>0 DEF FlowRecords
  <2>3. setup' \in [Devices -> SetupRecords]
    BY <1>11, <1>0, <2>2, PinNextType DEF WriteRenewed
  <2> QED
    BY <1>11, <2>1, <2>3 DEF WriteRenewed, TypeOK, FlowRecords, SetupRecords, Approved
<1>12. CASE RevokeDevice(d)
  <2>1. memory[d].base \in 1..Version /\ memory[d].x \in Devices
    BY <1>12, <1>a, ChainType DEF RevokeDevice, FlowFits
  <2>2. Revoked(d) \in Manifests /\ Revoked(d).epoch \in Nat
    BY <2>1, ChainType DEF Revoked, Manifest, Manifests, Members
  <2>3. chain' \in Seq(Manifests)
    BY <1>12, <2>2, Appended DEF RevokeDevice
  <2>4. memory' \in [Devices -> FlowRecords]
    BY <1>12, FlowMoves DEF RevokeDevice, Pcs
  <2>5. /\ row' \in [Devices -> {"none", "active", "revoked"}]
        /\ grant' \in [Devices -> {"none", "valid", "expired"}]
    BY <1>12, <2>1 DEF RevokeDevice, TypeOK
  <2>6. pairing' \in [Devices -> PairingRecords] /\ Cardinality(Approved') <= MaxApproved
    BY <1>12, CancelledType DEF RevokeDevice
  <2>7. recovery' \in [code : Devices \cup {None}, epoch : Nat, version : Nat]
    <3>1. recovery \in [code : Devices \cup {None}, epoch : Nat, version : Nat]
      BY DEF TypeOK
    <3>2. memory[d].base + 1 \in Nat /\ recovery' = RecoveryAfter(d)
      BY <1>12, <2>1 DEF RevokeDevice
    <3> QED
      BY <3>1, <3>2, <2>2 DEF RecoveryAfter
  <2>8. envelope' \subseteq [epoch : Nat, to : Devices, from : Devices]
    <3>1. KeyEnvelopes(d, memory[d].x) \subseteq [epoch : Nat, to : Devices, from : Devices]
      BY LastManifest DEF KeyEnvelopes
    <3> QED
      BY <1>12, <3>1 DEF RevokeDevice, TypeOK
  <2> QED
    BY <1>12, <2>3, <2>4, <2>5, <2>6, <2>7, <2>8
    DEF RevokeDevice, TypeOK, FlowRecords, PairingRecords
<1>13. CASE WriteRevoked(d)
  <2>1. memory[d].base + 1 \in 1..Version
    BY <1>13, <1>a DEF WriteRevoked, FlowFits
  <2>2. chain[memory[d].base + 1].epoch \in Nat
    BY <2>1, ChainType
  <2>3. memory' \in [Devices -> FlowRecords]
    BY <1>13, FlowMoves DEF WriteRevoked
  <2>4. setup' \in [Devices -> SetupRecords]
    BY <1>13, <1>0, <2>2, PinNextType DEF WriteRevoked
  <2> QED
    BY <1>13, <2>3, <2>4 DEF WriteRevoked, TypeOK, FlowRecords, SetupRecords, Approved
<1>14. CASE RecoverBegin(d)
  <2>1. memory' \in [Devices -> FlowRecords]
    BY <1>14, FlowMoves DEF RecoverBegin, TypeOK, Pcs
  <2> QED
    BY <1>14, <1>c, <2>1 DEF RecoverBegin
<1>15. CASE CompleteRecovery(d)
  <2>1. memory[d].base \in 1..Version
    BY <1>15, <1>a DEF CompleteRecovery, FlowFits
  <2>2. Recovered(d) \in Manifests
    BY <2>1, ChainType DEF Recovered, Manifest, Manifests
  <2>3. chain' \in Seq(Manifests)
    BY <1>15, <2>2, Appended DEF CompleteRecovery
  <2>4. /\ row' \in [Devices -> {"none", "active", "revoked"}]
        /\ grant' \in [Devices -> {"none", "valid", "expired"}]
    BY <1>15 DEF CompleteRecovery, GrantsAfterRecovery, TypeOK
  <2>5. pairing' \in [Devices -> PairingRecords] /\ Cardinality(Approved') <= MaxApproved
    BY <1>15, CancelledType DEF CompleteRecovery
  <2>6. recovery' \in [code : Devices \cup {None}, epoch : Nat, version : Nat]
    BY <1>15, <1>b, LastManifest DEF CompleteRecovery
  <2> QED
    BY <1>15, <2>3, <2>4, <2>5, <2>6 DEF CompleteRecovery, TypeOK, PairingRecords
<1>16. CASE WriteRecovered(d)
  <2>1. memory[d].base + 1 \in 1..Version
    BY <1>16, <1>a DEF WriteRecovered, Answered, FlowFits, JoinedAfter
  <2>2. NewSetup(memory[d].base + 1) \in SetupRecords
    BY <2>1, NewSetupType
  <2>3. memory' \in [Devices -> FlowRecords] /\ setup' \in [Devices -> SetupRecords]
    BY <1>16, <1>0, <2>2, FlowMoves DEF WriteRecovered
  <2> QED
    BY <1>16, <2>3 DEF WriteRecovered, TypeOK, FlowRecords, SetupRecords, Approved
<1>17. CASE PrepareApproval(d) \/ PrepareRevocation(d)
  <2>1. Active \subseteq Devices
    BY LastManifest
  <2>2. memory' \in [Devices -> FlowRecords]
    BY <1>17, <2>1, FlowMoves DEF PrepareApproval, PrepareRevocation, Pcs
  <2> QED
    BY <1>17, <1>c, <2>2 DEF PrepareApproval, PrepareRevocation
<1>18. CASE PrepareRenewal(d)
  <2>1. PICK x \in Active :
          memory' = [memory EXCEPT ![d] = [Idle EXCEPT !.pc = "renewing", !.x = x,
                              !.base = Version, !.pending = setup[d].pending]]
    BY <1>18 DEF PrepareRenewal
  <2>2. x \in Devices /\ setup[d].pending \in Nat
    BY <1>0, LastManifest DEF SetupRecords
  <2>3. [Idle EXCEPT !.pc = "renewing", !.x = x, !.base = Version, !.pending = setup[d].pending]
          \in FlowRecords
    BY <1>b, <2>2 DEF Idle, FlowRecords, Pcs
  <2>4. memory' \in [Devices -> FlowRecords]
    BY <1>0, <2>1, <2>3
  <2> QED
    BY <1>18, <1>c, <2>4 DEF PrepareRenewal
<1> QED
  BY <1>1, <1>2, <1>3, <1>4, <1>5, <1>6, <1>7, <1>8, <1>9, <1>10, <1>11, <1>12, <1>13, <1>14,
     <1>15, <1>16, <1>17, <1>18
  DEF FlowStep

\* What the other steps write has the type too.
LEMMA NextType ==
    ASSUME TypeOK, DevicesFit, [Next]_vars
    PROVE  TypeOK'
<1> USE DEF tables, local
<1>0. /\ pairing \in [Devices -> PairingRecords] /\ memory \in [Devices -> FlowRecords]
      /\ setup \in [Devices -> SetupRecords]
  BY DEF TypeOK, PairingRecords, FlowRecords, SetupRecords
<1>1. CASE UNCHANGED vars
  BY <1>1 DEF vars, TypeOK, Approved
<1>2. ASSUME NEW d \in Devices, FlowStep(d)
      PROVE  TypeOK'
  BY <1>2, FlowStepType
<1>3. ASSUME NEW d \in Devices, Reconcile(d) \/ ReconcileManifest(d)
      PROVE  TypeOK'
  <2>1. setup[d] \in SetupRecords /\ setup[d].pending \in Nat /\ setup[d].version \in Nat
    BY <1>0 DEF SetupRecords
  <2>2. ASSUME PinNext(d, {}, setup[d].pending)
        PROVE  setup' \in [Devices -> SetupRecords]
    BY <2>1, <2>2, PinNextType
  <2>3. ASSUME AdoptNextEpoch(d), HasSetup(d), ChangesAfter(d) # <<>>
        PROVE  setup' \in [Devices -> SetupRecords]
    <3> DEFINE next == Head(ChangesAfter(d))
    <3>1. setup[d].version + 1 \in 1..Version /\ next = chain[setup[d].version + 1]
      BY <2>1, <2>3, NextManifest
    <3>2. PICK k \in KeyEnvelope(d, next.epoch) :
                  PinNext(d, {next.epoch}, Owes(d, k.from, next.epoch))
      BY <2>3 DEF AdoptNextEpoch
    <3>3. next.epoch \in Nat
      BY <3>1, ChainType
    <3>4. Owes(d, k.from, next.epoch) \in Nat
      BY <2>1, <3>3 DEF Owes
    <3> QED
      BY <3>2, <3>3, <3>4, PinNextType
  <2>4. setup' \in [Devices -> SetupRecords]
    BY <1>3, <2>2, <2>3 DEF Reconcile, ReconcileManifest, AdoptSameEpoch
  <2> QED
    BY <1>3, <2>4 DEF Reconcile, ReconcileManifest, TypeOK, SetupRecords, Approved
<1>4. ASSUME NEW d \in Devices, UploadSnapshot(d)
      PROVE  TypeOK'
  <2>1. setup' \in [Devices -> SetupRecords]
    BY <1>0, <1>4 DEF UploadSnapshot, SetupRecords
  <2>2. cloud' \in Nat
    BY <1>4, LastManifest DEF UploadSnapshot
  <2> QED
    BY <1>4, <2>1, <2>2 DEF UploadSnapshot, TypeOK, SetupRecords, Approved
<1>5. ASSUME NEW d \in Devices, EndPairing(d)
      PROVE  TypeOK'
  <2>1. pairing' \in [Devices -> PairingRecords] /\ Cardinality(Approved') <= MaxApproved
    BY <1>5, PairingMoves DEF EndPairing
  <2> QED
    BY <1>5, <2>1 DEF EndPairing, TypeOK, PairingRecords
<1>6. ASSUME NEW d \in Devices, ExpireGrant(d)
      PROVE  TypeOK'
  BY <1>6 DEF ExpireGrant, TypeOK, Approved
<1>7. ASSUME NEW d \in Devices, Crash(d) \/ Forget(d)
      PROVE  TypeOK'
  <2>1. memory' \in [Devices -> FlowRecords]
    BY <1>7, FlowMoves DEF Crash, Forget
  <2>2. setup' \in [Devices -> SetupRecords]
    BY <1>0, <1>7 DEF Crash, Forget, NoSetup, SetupRecords
  <2>3. checkpoint' \subseteq Devices
    BY <1>7 DEF Crash, Forget, TypeOK
  <2>4. UNCHANGED tables
    BY <1>7 DEF Crash, Forget
  <2> QED
    BY <2>1, <2>2, <2>3, <2>4 DEF TypeOK, FlowRecords, SetupRecords, Approved
<1> QED
  BY <1>1, <1>2, <1>3, <1>4, <1>5, <1>6, <1>7 DEF Next

-----------------------------------------------------------------------------
(* A manifest that is stored follows the current one.                      *)

Follows(m) ==
    /\ m \in Manifests
    /\ IF chain = <<>> THEN m.kind = "create"
       ELSE \/ /\ m.kind = "add" /\ m.by \in Active /\ m.epoch = Epoch
               /\ \E d \in Devices : row[d] = "none" /\ m.active = Active \cup {d}
            \/ m.kind = "renew" /\ m.by \in Active /\ m.epoch = Epoch /\ m.active = Active
            \/ /\ m.kind = "revoke" /\ m.by \in Active /\ m.epoch = Epoch + 1
               /\ \E d \in Devices : m.active = Active \ {d}
            \/ /\ m.kind = "recover" /\ m.epoch = Epoch + 1
               /\ \E d \in Devices : row[d] = "none" /\ m.active = {d}

\* The actions that store a manifest.
Extends(d) ==
    \/ CreateVault(d) \/ FinalizePairing(d) \/ RenewDevice(d) \/ RevokeDevice(d)
    \/ CompleteRecovery(d)

\* The first manifest.
LEMMA CreateEffect ==
    ASSUME TypeOK, DevicesFit, NEW d \in Devices, CreateVault(d)
    PROVE  /\ chain = <<>> /\ pairing[d] = NoPairing
           /\ \E m : Stores(m) /\ Follows(m) /\ m = Manifest("create", d, 1, {d})
<1> DEFINE m == Manifest("create", d, 1, {d})
<1>1. m \in Manifests /\ m.kind = "create"
  BY DEF Manifest, Manifests
<1>2. chain' = Append(chain, m) /\ chain = <<>>
  BY DEF CreateVault
<1>3. pairing[d] = NoPairing
  BY DEF CreateVault, At, DevicesFit, FlowFits
<1> QED
  BY <1>1, <1>2, <1>3, Appended DEF Follows

\* A device is added while it has no row yet.
LEMMA FinalizeEffect ==
    ASSUME TypeOK, DevicesFit, NEW d \in Devices, FinalizePairing(d)
    PROVE  /\ row[d] = "none" /\ pairing[d].state = "approved" /\ pairing[d].base = Version
           /\ Version \in 1..Version /\ chain # <<>>
           /\ \E m : /\ Stores(m) /\ Follows(m) /\ m.kind = "add" /\ m.epoch = Epoch
                     /\ m.active = Active \cup {d}
<1> DEFINE m == Added(d)
<1>1. PairingFits(d)
  BY DEF DevicesFit
<1>2. /\ pairing[d].base \in 1..Version /\ pairing[d].by \in Members(pairing[d].base)
      /\ row[d] = "none" /\ pairing[d].base = Version /\ chain' = Append(chain, m)
      /\ pairing[d].state = "approved"
  BY <1>1 DEF FinalizePairing, PairingFits, Continues
<1>3. chain # <<>> /\ Active = Members(Version) /\ Epoch = chain[Version].epoch
  BY <1>2, ChainType, LastManifest
<1>4. /\ m.kind = "add" /\ m.by \in Active /\ m.epoch = Epoch /\ m.active = Active \cup {d}
  BY <1>2, <1>3 DEF Added, Manifest, Members
<1>5. m \in Manifests
  BY <1>4, LastManifest DEF Added, Manifest, Manifests
<1> QED
  BY <1>2, <1>3, <1>4, <1>5, Appended DEF Follows

\* A renewal changes no member; it is by one and for one.
LEMMA RenewEffect ==
    ASSUME TypeOK, DevicesFit, NEW d \in Devices, RenewDevice(d)
    PROVE  /\ memory[d].base = Version /\ Version \in 1..Version /\ chain # <<>>
           /\ memory[d].x \in Active
           /\ \E m : /\ Stores(m) /\ Follows(m) /\ m.kind = "renew" /\ m.epoch = Epoch
                     /\ m.active = Active
<1> DEFINE m == Renewed(d)
<1>0. FlowFits(d)
  BY DEF DevicesFit
<1>1. /\ memory[d].base = Version /\ memory[d].base \in 1..Version /\ d \in Active
      /\ chain' = Append(chain, m) /\ memory[d].x \in Members(Version)
  BY <1>0 DEF RenewDevice, At, Continues, FlowFits, Authenticated, SessionOpens,
              ChallengeHolds, IsMember
<1>2. chain # <<>> /\ Active = Members(Version) /\ Epoch = chain[Version].epoch
  BY <1>1, ChainType, LastManifest
<1>3. /\ m.kind = "renew" /\ m.by \in Active /\ m.epoch = Epoch /\ m.active = Active
  BY <1>1, <1>2 DEF Renewed, Manifest, Members
<1>4. m \in Manifests
  BY <1>3, LastManifest DEF Renewed, Manifest, Manifests
<1> QED
  BY <1>1, <1>2, <1>3, <1>4, Appended DEF Follows

\* A revocation removes another member and begins an epoch.
LEMMA RevokeEffect ==
    ASSUME TypeOK, DevicesFit, NEW d \in Devices, RevokeDevice(d)
    PROVE  /\ memory[d].base = Version /\ Version \in 1..Version /\ chain # <<>>
           /\ memory[d].x \in Active /\ memory[d].x # d /\ d \in Active
           /\ recovery'.epoch = Epoch + 1 /\ recovery'.version = Version + 1
           /\ \E m : /\ Stores(m) /\ Follows(m) /\ m.kind = "revoke" /\ m.epoch = Epoch + 1
                     /\ m.active = Active \ {memory[d].x} /\ m.by = d
<1> DEFINE m == Revoked(d)
<1>0. FlowFits(d)
  BY DEF DevicesFit
<1>1. /\ memory[d].base = Version /\ memory[d].base \in 1..Version /\ d \in Active
      /\ chain' = Append(chain, m) /\ memory[d].x \in Members(Version) /\ memory[d].x # d
  BY <1>0 DEF RevokeDevice, At, Revocable, Continues, FlowFits, Authenticated, SessionOpens,
              ChallengeHolds, IsMember
<1>2. /\ chain # <<>> /\ Active = Members(Version) /\ Epoch = chain[Version].epoch
      /\ Active \subseteq Devices /\ Epoch + 1 \in Nat
  BY <1>1, ChainType, LastManifest
<1>3. /\ m.kind = "revoke" /\ m.by = d /\ m.epoch = Epoch + 1
      /\ m.active = Active \ {memory[d].x}
  BY <1>1, <1>2 DEF Revoked, Manifest, Members
<1>4. m \in Manifests
  BY <1>1, <1>2, <1>3 DEF Revoked, Manifest, Manifests
<1>5. recovery'.epoch = Epoch + 1 /\ recovery'.version = Version + 1
  BY <1>1, <1>3 DEF RevokeDevice, RecoveryAfter, TypeOK
<1> QED
  BY <1>1, <1>2, <1>3, <1>4, <1>5, Appended, LastManifest DEF Follows

\* A recovery leaves the new device alone in the vault and begins an epoch.
LEMMA RecoverEffect ==
    ASSUME TypeOK, DevicesFit, NEW d \in Devices, CompleteRecovery(d)
    PROVE  /\ memory[d].base = Version /\ Version \in 1..Version /\ chain # <<>>
           /\ row[d] = "none" /\ pairing[d] = NoPairing
           /\ \E m : /\ Stores(m) /\ Follows(m) /\ m.kind = "recover" /\ m.epoch = Epoch + 1
                     /\ m.active = {d}
<1> DEFINE m == Recovered(d)
<1>0. FlowFits(d) /\ Version \in Nat
  BY ChainType DEF DevicesFit
<1>1. /\ memory[d].base = Version /\ memory[d].base \in 1..Version /\ row[d] = "none"
      /\ chain' = Append(chain, m) /\ pairing[d] = NoPairing
  BY <1>0 DEF CompleteRecovery, At, Completes, Continues, FlowFits, JoinedAfter
<1>2. /\ chain # <<>> /\ Epoch = chain[Version].epoch /\ Epoch + 1 \in Nat
  BY <1>1, ChainType, LastManifest
<1>3. m.kind = "recover" /\ m.epoch = Epoch + 1 /\ m.active = {d}
  BY <1>1, <1>2 DEF Recovered, Manifest
<1>4. m \in Manifests
  BY <1>2, <1>3 DEF Recovered, Manifest, Manifests
<1> QED
  BY <1>1, <1>2, <1>3, <1>4, Appended DEF Follows

\* Each of them stores a manifest that follows.
LEMMA ExtendsFollows ==
    ASSUME TypeOK, DevicesFit, NEW d \in Devices, Extends(d)
    PROVE  \E m : Stores(m) /\ Follows(m)
BY CreateEffect, FinalizeEffect, RenewEffect, RevokeEffect, RecoverEffect DEF Extends

\* What a manifest changes of the members and the epoch.
LEMMA FollowsMembers ==
    ASSUME TypeOK, RowsFit, KindsFit, NEW m, Follows(m), chain # <<>>
    PROVE  /\ Version \in 1..Version /\ Version \in Nat
           /\ m.epoch \in Nat /\ Epoch \in Nat
           /\ Epoch = chain[Version].epoch /\ Active = Members(Version)
           /\ m.kind \in {"add", "renew", "revoke", "recover"}
           /\ m.epoch = IF m.kind \in {"revoke", "recover"} THEN Epoch + 1 ELSE Epoch
           /\ m.kind # "recover" => m.by \in Active
           /\ m.kind = "add" => Active \subseteq m.active
           /\ m.kind = "renew" => m.active = Active
           /\ m.kind = "revoke" => m.active \subseteq Active
           /\ m.kind = "recover" => m.active \cap Active = {}
           /\ \A k \in 1..Version : Members(k) \cap m.active \subseteq Active
           /\ Cardinality(m.active \ Active) = IF m.kind \in {"add", "recover"} THEN 1 ELSE 0
<1>1. /\ Version \in 1..Version /\ Version \in Nat
      /\ Epoch \in Nat /\ Epoch = chain[Version].epoch /\ Active = Members(Version)
  BY ChainType, LastManifest
<1>2. \A k \in 1..Version : \A d \in Members(k) : row[d] # "none"
  BY DEF RowsFit
<1>3. CASE m.kind = "add"
  <2>1. PICK d \in Devices : row[d] = "none" /\ m.active = Active \cup {d}
    BY <1>3 DEF Follows
  <2>2. \A k \in 1..Version : d \notin Members(k)
    BY <2>1, <1>2
  <2>3. m.active \ Active = {d}
    BY <1>1, <2>1, <2>2
  <2>4. Cardinality(m.active \ Active) = 1
    BY <2>3, FS_Singleton
  <2>5. \A k \in 1..Version : Members(k) \cap m.active \subseteq Active
    BY <2>1, <2>2
  <2>6. m.by \in Active /\ m.epoch = Epoch
    BY <1>3 DEF Follows
  <2> QED
    BY <1>1, <1>3, <2>1, <2>4, <2>5, <2>6
<1>4. CASE m.kind = "renew"
  <2>1. m.by \in Active /\ m.epoch = Epoch /\ m.active = Active
    BY <1>4 DEF Follows
  <2>2. m.active \ Active = {}
    BY <2>1
  <2> QED
    BY <1>1, <1>4, <2>1, <2>2, FS_EmptySet
<1>5. CASE m.kind = "revoke"
  <2>1. /\ m.by \in Active /\ m.epoch = Epoch + 1
        /\ m.active \subseteq Active
    BY <1>5 DEF Follows
  <2>2. m.active \ Active = {}
    BY <2>1
  <2>3. Cardinality(m.active \ Active) = 0
    BY <2>2, FS_EmptySet
  <2>4. m.epoch \in Nat
    BY <1>1, <2>1
  <2> QED
    BY <1>1, <1>5, <2>1, <2>3, <2>4
<1>6. CASE m.kind = "recover"
  <2>1. PICK d \in Devices : row[d] = "none" /\ m.active = {d}
    BY <1>6 DEF Follows
  <2>2. \A k \in 1..Version : d \notin Members(k)
    BY <2>1, <1>2
  <2>3. m.active \ Active = {d} /\ m.active \cap Active = {}
    BY <1>1, <2>1, <2>2
  <2>4. Cardinality(m.active \ Active) = 1
    BY <2>3, FS_Singleton
  <2>5. \A k \in 1..Version : Members(k) \cap m.active \subseteq Active
    BY <2>1, <2>2
  <2>6. m.epoch = Epoch + 1 /\ m.epoch \in Nat
    BY <1>1, <1>6 DEF Follows
  <2> QED
    BY <1>1, <1>6, <2>3, <2>4, <2>5, <2>6
<1> QED
  BY <1>3, <1>4, <1>5, <1>6 DEF Follows

\* Epochs grow and the kinds fit after a manifest is stored.
LEMMA EpochsGrowStep ==
    ASSUME TypeOK, RowsFit, KindsFit, EpochsGrow, NEW m, Stores(m), Follows(m)
    PROVE  EpochsGrow' /\ KindsFit'
<1>0. /\ Version \in Nat /\ Version' = Version + 1
      /\ \A k \in 1..Version : chain'[k] = chain[k]
      /\ chain'[Version + 1] = m
      /\ chain = <<>> <=> Version = 0
      /\ \A k \in 1..Version : chain[k].epoch \in Nat
  BY ChainType DEF Stores
<1>1. CASE chain = <<>>
  <2>1. m.kind = "create" /\ m.epoch \in Nat /\ Version' = 1 /\ chain'[1] = m
    BY <1>0, <1>1 DEF Follows, Manifests
  <2> QED
    BY <2>1 DEF EpochsGrow, KindsFit
<1>2. CASE chain # <<>>
  <2>0. /\ m.epoch \in Nat /\ Epoch \in Nat /\ Epoch = chain[Version].epoch
        /\ m.kind \in {"add", "renew", "revoke", "recover"} /\ Version \in 1..Version
        /\ m.epoch = IF m.kind \in {"revoke", "recover"} THEN Epoch + 1 ELSE Epoch
    BY <1>2, FollowsMembers
  <2>1. /\ m.epoch \in Nat /\ m.epoch >= Epoch /\ Epoch = chain[Version].epoch
        /\ m.kind # "create" /\ Version \in 1..Version
        /\ m.kind \in {"revoke", "recover"} => m.epoch = chain[Version].epoch + 1
    BY <2>0
  <2>2. \A k \in 1..Version : chain[k].epoch <= m.epoch
    <3>1. \A k \in 1..Version : chain[k].epoch <= chain[Version].epoch
      BY <2>1 DEF EpochsGrow
    <3> QED
      BY <1>0, <2>1, <3>1
  <2>3. EpochsGrow'
    <3> SUFFICES ASSUME NEW i \in 1..Version', NEW j \in 1..Version', i <= j
                 PROVE  chain'[i].epoch <= chain'[j].epoch
      BY DEF EpochsGrow
    <3>1. CASE j \in 1..Version
      BY <3>1, <1>0 DEF EpochsGrow
    <3>2. CASE j = Version + 1 /\ i \in 1..Version
      BY <3>2, <1>0, <2>2
    <3>3. CASE j = Version + 1 /\ i = Version + 1
      BY <3>3, <1>0, <2>1
    <3> QED
      BY <1>0, <3>1, <3>2, <3>3
  <2>4. KindsFit'
    <3>1. chain'[1] = chain[1]
      BY <1>0, <2>1
    <3>2. ASSUME NEW k \in 2..Version'
          PROVE  /\ chain'[k].kind # "create"
                 /\ chain'[k].kind \in {"revoke", "recover"} =>
                      chain'[k].epoch = chain'[k - 1].epoch + 1
      <4>1. CASE k \in 2..Version
        BY <4>1, <1>0 DEF KindsFit
      <4>2. CASE k = Version + 1
        BY <4>2, <1>0, <2>1
      <4> QED
        BY <1>0, <4>1, <4>2
    <3> QED
      BY <1>2, <3>1, <3>2 DEF KindsFit
  <2> QED
    BY <2>3, <2>4
<1> QED
  BY <1>1, <1>2

\* A device that joins was in no manifest, so members stay contiguous.
LEMMA ContiguousStep ==
    ASSUME TypeOK, RowsFit, KindsFit, Contiguous, NEW m, Stores(m), Follows(m)
    PROVE  Contiguous'
<1>0. /\ Version \in Nat /\ Version' = Version + 1
      /\ \A k \in 1..Version : chain'[k].active = Members(k)
      /\ chain'[Version + 1].active = m.active
      /\ chain = <<>> <=> Version = 0
  BY ChainType DEF Stores, Members
<1> USE DEF Members
<1> SUFFICES ASSUME NEW i \in 1..Version', NEW j \in 1..Version', NEW k \in 1..Version',
                    i <= j, j <= k
             PROVE  chain'[i].active \cap chain'[k].active \subseteq chain'[j].active
  BY DEF Contiguous
<1>1. CASE k \in 1..Version
  <2>1. i \in 1..Version /\ j \in 1..Version
    BY <1>1, <1>0
  <2> QED
    BY <1>0, <1>1, <2>1 DEF Contiguous
<1>2. CASE k = Version + 1 /\ j = k
  BY <1>2
<1>3. CASE k = Version + 1 /\ j \in 1..Version
  <2>1. chain # <<>> /\ i \in 1..Version
    BY <1>0, <1>3
  <2>2. /\ Members(i) \cap m.active \subseteq Members(Version)
        /\ Version \in 1..Version
    BY <2>1, FollowsMembers
  <2>3. Members(i) \cap Members(Version) \subseteq Members(j)
    BY <1>0, <1>3, <2>1, <2>2 DEF Contiguous
  <2> QED
    BY <1>0, <1>3, <2>1, <2>2, <2>3
<1> QED
  BY <1>0, <1>1, <1>2, <1>3

\* The chain stays authorized.
LEMMA ChainAuthorizedStep ==
    ASSUME TypeOK, RowsFit, KindsFit, ChainAuthorized, NEW m, Stores(m), Follows(m)
    PROVE  ChainAuthorized'
<1>0. /\ Version \in Nat /\ Version' = Version + 1
      /\ \A k \in 1..Version : chain'[k] = chain[k]
      /\ chain'[Version + 1] = m
      /\ chain = <<>> <=> Version = 0
  BY ChainType DEF Stores
<1> DEFINE Step(old, new) ==
             /\ new.kind # "recover" => new.by \in old.active
             /\ new.kind \in {"revoke", "recover"} <=> new.epoch # old.epoch
             /\ CASE new.kind = "add" -> old.active \subseteq new.active
                  [] new.kind = "renew" -> new.active = old.active
                  [] new.kind = "revoke" -> new.active \subseteq old.active
                  [] new.kind = "recover" -> new.active \cap old.active = {}
             /\ Cardinality(new.active \ old.active) =
                  IF new.kind \in {"add", "recover"} THEN 1 ELSE 0
<1>1. ASSUME NEW k \in 2..Version'
      PROVE  /\ Step(chain'[k - 1], chain'[k])
             /\ \A j \in 1..(k - 2) :
                  chain'[j].active \cap chain'[k].active \subseteq chain'[k - 1].active
  <2>1. CASE k \in 2..Version
    <3>1. chain'[k] = chain[k] /\ chain'[k - 1] = chain[k - 1]
      BY <2>1, <1>0
    <3>2. \A j \in 1..(k - 2) : chain'[j] = chain[j]
      BY <2>1, <1>0
    <3>3. /\ Step(chain[k - 1], chain[k])
          /\ \A j \in 1..(k - 2) :
               chain[j].active \cap chain[k].active \subseteq chain[k - 1].active
      BY <2>1 DEF ChainAuthorized
    <3> QED
      BY <3>1, <3>2, <3>3
  <2>2. CASE k = Version + 1
    <3>1. /\ chain # <<>> /\ chain'[k - 1] = chain[Version] /\ chain'[k] = m
          /\ \A j \in 1..(k - 2) : j \in 1..Version /\ chain'[j] = chain[j]
      BY <2>2, <1>0
    <3>2. /\ Epoch = chain[Version].epoch /\ Active = chain[Version].active
          /\ m.epoch \in Nat /\ Epoch \in Nat
          /\ m.kind \in {"add", "renew", "revoke", "recover"}
          /\ m.epoch = IF m.kind \in {"revoke", "recover"} THEN Epoch + 1 ELSE Epoch
          /\ m.kind # "recover" => m.by \in Active
          /\ m.kind = "add" => Active \subseteq m.active
          /\ m.kind = "renew" => m.active = Active
          /\ m.kind = "revoke" => m.active \subseteq Active
          /\ m.kind = "recover" => m.active \cap Active = {}
          /\ \A j \in 1..Version : chain[j].active \cap m.active \subseteq Active
          /\ Cardinality(m.active \ Active) = IF m.kind \in {"add", "recover"} THEN 1 ELSE 0
      BY <3>1, FollowsMembers DEF Members
    <3>3. m.kind \in {"revoke", "recover"} <=> m.epoch # chain[Version].epoch
      <4>1. Epoch + 1 # Epoch
        BY <3>2
      <4> QED
        BY <3>2, <4>1
    <3>4. Step(chain[Version], m)
      <4>4. CASE m.kind = "add"
        BY <3>2, <3>3, <4>4
      <4>5. CASE m.kind = "renew"
        BY <3>2, <3>3, <4>5
      <4>6. CASE m.kind = "revoke"
        BY <3>2, <3>3, <4>6
      <4>7. CASE m.kind = "recover"
        BY <3>2, <3>3, <4>7
      <4> QED
        BY <3>2, <4>4, <4>5, <4>6, <4>7
    <3> HIDE DEF Step
    <3> QED
      BY <3>1, <3>2, <3>4
  <2>3. k \in 2..Version \/ k = Version + 1
    BY <1>0
  <2> HIDE DEF Step
  <2> QED
    BY <2>1, <2>2, <2>3
<1> QED
  BY <1>1 DEF ChainAuthorized

-----------------------------------------------------------------------------
(* The manifests and the tables.                                           *)

\* What every step leaves of the manifests and of the rows.
Grows ==
    /\ Version' \in Nat /\ Version <= Version'
    /\ \A k \in 1..Version : chain'[k] = chain[k]
RowsStay == \A d \in Devices : row[d] # "none" => row'[d] # "none"

\* A step stores a manifest, lets an authorization run out, or leaves the manifests and
\* the tables of devices alone.
LEMMA ChainSteps ==
    ASSUME [Next]_vars
    PROVE  \/ \E d \in Devices : Extends(d)
           \/ /\ UNCHANGED <<chain, row, envelope, recovery>>
              /\ UNCHANGED grant \/ \E d \in Devices : ExpireGrant(d)
<1> USE DEF tables, local
<1>1. CASE UNCHANGED vars
  BY <1>1 DEF vars
<1>2. ASSUME NEW d \in Devices, FlowStep(d)
      PROVE  Extends(d) \/ UNCHANGED <<chain, row, envelope, recovery, grant>>
  BY <1>2 DEF FlowStep, Extends, EnableBegin, EnableWrite, PairStart, CancelPairing,
       ConfirmSas, ResumeFinalization, Promote, CommitApproval, WriteRenewed, WriteRevoked,
       RecoverBegin, WriteRecovered, PrepareApproval, PrepareRenewal, PrepareRevocation
<1>3. ASSUME NEW d \in Devices, Reconcile(d) \/ ReconcileManifest(d) \/ UploadSnapshot(d)
                                \/ EndPairing(d) \/ Crash(d) \/ Forget(d)
      PROVE  UNCHANGED <<chain, row, envelope, recovery, grant>>
  BY <1>3 DEF Reconcile, ReconcileManifest, UploadSnapshot, EndPairing, Crash, Forget
<1>4. ASSUME NEW d \in Devices, ExpireGrant(d)
      PROVE  UNCHANGED <<chain, row, envelope, recovery>>
  BY <1>4 DEF ExpireGrant
<1> QED
  BY <1>1, <1>2, <1>3, <1>4 DEF Next

\* No step takes a manifest or a row back.
LEMMA ChainGrows ==
    ASSUME TypeOK, DevicesFit, [Next]_vars
    PROVE  Grows /\ RowsStay
<1>0. Version \in Nat
  BY ChainType
<1>1. CASE UNCHANGED <<chain, row>>
  BY <1>0, <1>1 DEF Grows, RowsStay, Version
<1>2. ASSUME NEW d \in Devices, Extends(d)
      PROVE  Grows /\ RowsStay
  <2>1. PICK m : Stores(m)
    BY <1>2, ExtendsFollows
  <2>2. Grows
    BY <1>0, <2>1 DEF Grows, Stores
  <2>3. RowsStay
    <3>1. row \in [Devices -> {"none", "active", "revoked"}]
      BY DEF TypeOK
    <3> SUFFICES ASSUME NEW e \in Devices, row[e] # "none"
                 PROVE  row'[e] # "none"
      BY DEF RowsStay
    <3>2. CASE CreateVault(d) \/ FinalizePairing(d)
      BY <3>1, <3>2 DEF CreateVault, FinalizePairing
    <3>3. CASE RenewDevice(d)
      BY <3>3 DEF RenewDevice
    <3>4. CASE RevokeDevice(d)
      BY <3>1, <3>4 DEF RevokeDevice
    <3>5. CASE CompleteRecovery(d)
      BY <3>1, <3>5 DEF CompleteRecovery
    <3> QED
      BY <1>2, <3>2, <3>3, <3>4, <3>5 DEF Extends
  <2> QED
    BY <2>2, <2>3
<1> QED
  BY <1>1, <1>2, ChainSteps

\* The tables follow the manifest that is stored with them.
LEMMA TablesAgreeStep ==
    ASSUME TypeOK, DevicesFit, RecoveryFits, TablesAgree, RowsFit, [Next]_vars
    PROVE  TablesAgree' /\ RecoveryFits'
<1>0. /\ row \in [Devices -> {"none", "active", "revoked"}]
      /\ grant \in [Devices -> {"none", "valid", "expired"}]
      /\ Version \in Nat /\ Active \subseteq Devices
  BY ChainType, LastManifest DEF TypeOK
<1>a. /\ \A e \in Devices : /\ row[e] = "active" <=> e \in Active
                            /\ grant[e] # "none" => e \in Active
      /\ recovery.epoch = Epoch
      /\ chain # <<>> => chain[recovery.version].epoch = Epoch
  BY DEF TablesAgree
\* It is enough to look at the tables after the step.
<1>b. ASSUME NEW m, Stores(m), NEW d \in Devices,
             \A e \in Devices : /\ row'[e] = "active" <=> e \in m.active
                                /\ grant'[e] # "none" => e \in m.active,
             recovery'.epoch = m.epoch, recovery'.version \in 1..Version',
             chain'[recovery'.version].epoch = m.epoch
      PROVE  TablesAgree' /\ RecoveryFits'
  <2>1. chain' # <<>> /\ Active' = m.active /\ Epoch' = m.epoch
    BY <1>b, StoredIsCurrent
  <2> QED
    BY <1>b, <2>1 DEF TablesAgree, RecoveryFits
<1>1. ASSUME NEW d \in Devices, CreateVault(d)
      PROVE  TablesAgree' /\ RecoveryFits'
  <2>1. PICK m : Stores(m) /\ m.active = {d} /\ m.epoch = 1 /\ chain = <<>>
    BY <1>1, CreateEffect DEF Manifest
  <2>2. Active = {} /\ Version = 0
    BY <2>1, LastManifest, ChainType
  <2>3. /\ row' = [row EXCEPT ![d] = "active"] /\ grant' = [grant EXCEPT ![d] = "valid"]
        /\ recovery'.epoch = 1 /\ recovery'.version = 1
    BY <1>1 DEF CreateVault
  <2>4. Version' = 1 /\ chain'[1] = m
    BY <2>1, <2>2 DEF Stores
  <2> QED
    BY <1>0, <1>a, <1>b, <2>1, <2>2, <2>3, <2>4
<1>2. ASSUME NEW d \in Devices, FinalizePairing(d)
      PROVE  TablesAgree' /\ RecoveryFits'
  <2>1. PICK m : Stores(m) /\ m.active = Active \cup {d} /\ m.epoch = Epoch /\ chain # <<>>
    BY <1>2, FinalizeEffect
  <2>2. /\ row' = [row EXCEPT ![d] = "active"] /\ grant' = [grant EXCEPT ![d] = "valid"]
        /\ recovery' = recovery
    BY <1>2 DEF FinalizePairing
  <2>3. recovery.version \in 1..Version /\ Version' = Version + 1
    BY <2>1 DEF Stores, RecoveryFits
  <2>4. recovery'.version \in 1..Version' /\ chain'[recovery'.version].epoch = m.epoch
    BY <1>0, <1>a, <2>1, <2>2, <2>3 DEF Stores
  <2> QED
    BY <1>0, <1>a, <1>b, <2>1, <2>2, <2>4
<1>3. ASSUME NEW d \in Devices, RenewDevice(d)
      PROVE  TablesAgree' /\ RecoveryFits'
  <2>1. PICK m : Stores(m) /\ m.active = Active /\ m.epoch = Epoch /\ chain # <<>>
    BY <1>3, RenewEffect
  <2>2. /\ row' = row /\ grant' = [grant EXCEPT ![memory[d].x] = "valid"]
        /\ recovery' = recovery /\ memory[d].x \in Active
    BY <1>3, RenewEffect DEF RenewDevice
  <2>3. recovery.version \in 1..Version /\ Version' = Version + 1
    BY <2>1 DEF Stores, RecoveryFits
  <2>4. recovery'.version \in 1..Version' /\ chain'[recovery'.version].epoch = m.epoch
    BY <1>0, <1>a, <2>1, <2>2, <2>3 DEF Stores
  <2> QED
    BY <1>0, <1>a, <1>b, <2>1, <2>2, <2>4
<1>4. ASSUME NEW d \in Devices, RevokeDevice(d)
      PROVE  TablesAgree' /\ RecoveryFits'
  <2> DEFINE x == memory[d].x
  <2>1. PICK m : Stores(m) /\ m.active = Active \ {x} /\ m.epoch = Epoch + 1
    BY <1>4, RevokeEffect
  <2>2. /\ row' = [row EXCEPT ![x] = "revoked"] /\ grant' = [grant EXCEPT ![x] = "none"]
        /\ x \in Active
        /\ recovery'.epoch = Epoch + 1 /\ recovery'.version = Version + 1
    BY <1>4, RevokeEffect DEF RevokeDevice
  <2>4. recovery'.version \in 1..Version' /\ chain'[recovery'.version].epoch = m.epoch
    BY <1>0, <2>1, <2>2 DEF Stores
  <2> QED
    BY <1>0, <1>a, <1>b, <2>1, <2>2, <2>4
<1>5. ASSUME NEW d \in Devices, CompleteRecovery(d)
      PROVE  TablesAgree' /\ RecoveryFits'
  <2>1. PICK m : Stores(m) /\ m.active = {d} /\ m.epoch = Epoch + 1
    BY <1>5, RecoverEffect
  <2>2. /\ \A e \in Devices : row'[e] = IF e = d THEN "active"
                                        ELSE IF row[e] = "active" THEN "revoked" ELSE row[e]
        /\ \A e \in Devices : grant'[e] = IF e = d THEN "valid" ELSE "none"
        /\ recovery'.epoch = Epoch + 1 /\ recovery'.version = Version + 1
    BY <1>5 DEF CompleteRecovery, GrantsAfterRecovery
  <2>3. \A e \in Devices : /\ row'[e] = "active" <=> e \in m.active
                           /\ grant'[e] # "none" => e \in m.active
    BY <2>1, <2>2
  <2>4. recovery'.version \in 1..Version' /\ chain'[recovery'.version].epoch = m.epoch
    BY <1>0, <2>1, <2>2 DEF Stores
  <2> QED
    BY <1>b, <2>1, <2>2, <2>3, <2>4
<1>6. CASE UNCHANGED <<chain, row, recovery>> /\ UNCHANGED grant
  BY <1>6 DEF TablesAgree, RecoveryFits, Active, Epoch, Current, Version
<1>7. ASSUME NEW d \in Devices, ExpireGrant(d)
      PROVE  TablesAgree' /\ RecoveryFits'
  <2>1. UNCHANGED <<chain, row, recovery>> /\ Active' = Active /\ Epoch' = Epoch
        /\ Version' = Version
    BY <1>7 DEF ExpireGrant, Active, Epoch, Current, Version
  <2>2. \A e \in Devices : grant'[e] # "none" => e \in Active
    BY <1>0, <1>7, <1>a DEF ExpireGrant
  <2> QED
    BY <1>a, <2>1, <2>2 DEF TablesAgree, RecoveryFits
<1> QED
  BY <1>1, <1>2, <1>3, <1>4, <1>5, <1>6, <1>7, ChainSteps DEF Extends

\* A device that is named in a manifest has a row.
LEMMA RowsFitStep ==
    ASSUME TypeOK, DevicesFit, RowsFit, RecoveryFits, TablesAgree, [Next]_vars
    PROVE  RowsFit'
<1>0. Version \in Nat /\ Grows /\ RowsStay /\ TablesAgree'
  BY ChainType, ChainGrows, TablesAgreeStep
<1>1. CASE UNCHANGED chain
  BY <1>0, <1>1, ChainType DEF RowsFit, RowsStay, Members, Version
<1>2. ASSUME NEW d \in Devices, Extends(d)
      PROVE  RowsFit'
  <2>1. PICK m : Stores(m) /\ Follows(m)
    BY <1>2, ExtendsFollows
  <2>2. /\ Active' = m.active /\ chain'[Version + 1] = m /\ Version' = Version + 1
        /\ m.active \subseteq Devices
    BY <2>1, StoredIsCurrent DEF Stores, Follows, Manifests
  <2>3. ASSUME NEW k \in 1..Version', NEW e \in chain'[k].active
        PROVE  row'[e] # "none"
    <3>1. CASE k \in 1..Version
      <4>1. e \in Members(k) /\ e \in Devices
        BY <1>0, <2>3, <3>1, ChainType DEF Grows, Members
      <4> QED
        BY <1>0, <3>1, <4>1 DEF RowsFit, RowsStay
    <3>2. CASE k = Version + 1
      <4>1. e \in Active' /\ e \in Devices
        BY <2>2, <2>3, <3>2
      <4> QED
        BY <1>0, <4>1 DEF TablesAgree
    <3> QED
      BY <1>0, <2>2, <3>1, <3>2
  <2> QED
    BY <2>3 DEF RowsFit, Members
<1> QED
  BY <1>1, <1>2, ChainSteps

-----------------------------------------------------------------------------
(* Who changes what of a device.                                           *)

\* The steps that write the set-up of a device; none of them stores a manifest.
SetupStep(d) ==
    \/ EnableWrite(d) \/ Promote(d) \/ WriteRenewed(d) \/ WriteRevoked(d) \/ WriteRecovered(d)
    \/ Reconcile(d) \/ ReconcileManifest(d) \/ UploadSnapshot(d) \/ Forget(d)

\* The set-up of a device changes only by one of those steps, and then nothing
\* is stored on the service.
LEMMA SetupFrame ==
    ASSUME TypeOK, [Next]_vars, NEW e \in Devices
    PROVE  setup'[e] = setup[e] \/ (SetupStep(e) /\ UNCHANGED <<chain, envelope, row>>)
<1> USE DEF tables, local
<1>0. setup \in [Devices -> SetupRecords]
  BY DEF TypeOK, SetupRecords
<1>1. ASSUME NEW d \in Devices, SetupStep(d)
      PROVE  (d # e => setup'[e] = setup[e]) /\ UNCHANGED <<chain, envelope, row>>
  BY <1>0, <1>1 DEF SetupStep, EnableWrite, Promote, WriteRenewed, WriteRevoked,
       WriteRecovered, Reconcile, ReconcileManifest, AdoptSameEpoch, AdoptNextEpoch,
       UploadSnapshot, Forget, PinNext
<1>2. \/ UNCHANGED setup
      \/ \E d \in Devices : SetupStep(d)
  BY DEF Next, vars, FlowStep, SetupStep, EnableBegin, CreateVault, PairStart, CancelPairing,
       ConfirmSas, ResumeFinalization, FinalizePairing, CommitApproval, RenewDevice,
       RevokeDevice, RecoverBegin, CompleteRecovery, PrepareApproval, PrepareRenewal,
       PrepareRevocation, EndPairing, ExpireGrant, Crash
<1> QED
  BY <1>1, <1>2

\* The steps that put a device into a flow that others depend on.
FlowBegun(d) ==
    \/ EnableBegin(d) \/ PrepareApproval(d) \/ PrepareRenewal(d) \/ RenewDevice(d)
    \/ PrepareRevocation(d) \/ RevokeDevice(d) \/ RecoverBegin(d)

\* The flow of a page changes only by one of those steps, or to a phase that
\* owes nothing to anybody.
LEMMA FlowFrame ==
    ASSUME TypeOK, [Next]_vars, NEW e \in Devices
    PROVE  \/ memory'[e] = memory[e]
           \/ memory'[e].pc \in {"idle", "polling", "finalizing"}
           \/ FlowBegun(e)
<1> USE DEF tables, local
<1>0. memory \in [Devices -> FlowRecords] /\ memory[e] \in FlowRecords
  BY DEF TypeOK, FlowRecords
<1>1. ASSUME NEW d \in Devices,
             Leave(d) \/ Goto(d, "polling") \/ Goto(d, "finalizing") \/ UNCHANGED memory
      PROVE  memory'[e] = memory[e] \/ memory'[e].pc \in {"idle", "polling", "finalizing"}
  <2>1. CASE d = e /\ Leave(d)
    BY <1>0, <2>1 DEF Leave, Idle
  <2>2. CASE d = e /\ (Goto(d, "polling") \/ Goto(d, "finalizing"))
    BY <1>0, <2>2 DEF Goto, FlowRecords
  <2>3. CASE d # e \/ UNCHANGED memory
    BY <1>0, <1>1, <2>3 DEF Leave, Goto
  <2> QED
    BY <1>1, <2>1, <2>2, <2>3
<1>2. ASSUME NEW d \in Devices, FlowBegun(d), d # e
      PROVE  memory'[e] = memory[e]
  BY <1>0, <1>2 DEF FlowBegun, EnableBegin, PrepareApproval, PrepareRenewal, RenewDevice,
       PrepareRevocation, RevokeDevice, RecoverBegin, Begin, Goto
<1>3. ASSUME NEW d \in Devices, FlowStep(d)
      PROVE  \/ FlowBegun(d)
             \/ Leave(d) \/ Goto(d, "polling") \/ Goto(d, "finalizing") \/ UNCHANGED memory
  BY <1>3 DEF FlowStep, FlowBegun, CreateVault, EnableWrite, PairStart, CancelPairing,
       ConfirmSas, ResumeFinalization, FinalizePairing, Promote, CommitApproval,
       WriteRenewed, WriteRevoked, CompleteRecovery, WriteRecovered
<1>4. ASSUME NEW d \in Devices, Reconcile(d) \/ ReconcileManifest(d) \/ UploadSnapshot(d)
                                \/ EndPairing(d) \/ ExpireGrant(d) \/ Crash(d) \/ Forget(d)
      PROVE  Leave(d) \/ UNCHANGED memory
  BY <1>4 DEF Reconcile, ReconcileManifest, UploadSnapshot, EndPairing, ExpireGrant, Crash,
       Forget
<1>5. CASE UNCHANGED vars
  BY <1>5 DEF vars
<1> QED
  BY <1>1, <1>2, <1>3, <1>4, <1>5 DEF Next

\* A request ends, or it is made, approved or finalized by the step that says so.
LEMMA PairingFrame ==
    ASSUME TypeOK, [Next]_vars, NEW e \in Devices
    PROVE  \/ pairing'[e] = pairing[e]
           \/ pairing[e] # NoPairing /\ pairing'[e].state = "ended"
           \/ PairStart(e)
           \/ FinalizePairing(e)
           \/ /\ pairing[e].state = "pending" /\ UNCHANGED <<chain, row>>
              /\ \E d \in Devices :
                   /\ At(d, "approving")
                   /\ pairing'[e] = [state |-> "approved", by |-> d, base |-> memory[d].base]
<1> USE DEF tables, local
<1>0. pairing \in [Devices -> PairingRecords] /\ pairing[e] \in PairingRecords
  BY DEF TypeOK, PairingRecords
<1>1. ASSUME NEW d \in Devices, pairing[d].state # "none",
             pairing' = [pairing EXCEPT ![d].state = "ended"]
      PROVE  pairing'[e] = pairing[e] \/ (pairing[e] # NoPairing /\ pairing'[e].state = "ended")
  <2>1. CASE d = e
    BY <1>0, <1>1, <2>1 DEF PairingRecords, NoPairing
  <2>2. CASE d # e
    BY <1>0, <1>1, <2>2
  <2> QED
    BY <2>1, <2>2
<1>2. ASSUME pairing' = PairingsCancelled
      PROVE  pairing'[e] = pairing[e] \/ (pairing[e] # NoPairing /\ pairing'[e].state = "ended")
  <2>1. CASE pairing[e].state = "approved"
    <3>1. pairing'[e] = [pairing[e] EXCEPT !.state = "ended"]
      BY <1>2, <2>1 DEF PairingsCancelled
    <3> QED
      BY <1>0, <2>1, <3>1 DEF PairingRecords, NoPairing
  <2>2. CASE pairing[e].state # "approved"
    BY <1>2, <2>2 DEF PairingsCancelled
  <2> QED
    BY <2>1, <2>2
<1>3. ASSUME NEW d \in Devices, d # e, PairStart(d) \/ FinalizePairing(d)
      PROVE  pairing'[e] = pairing[e]
  BY <1>0, <1>3 DEF PairStart, CreatePairing, FinalizePairing
<1>4. ASSUME NEW d \in Devices, CommitApproval(d)
      PROVE  \/ pairing'[e] = pairing[e]
             \/ /\ pairing[e].state = "pending" /\ UNCHANGED <<chain, row>>
                /\ At(d, "approving")
                /\ pairing'[e] = [state |-> "approved", by |-> d, base |-> memory[d].base]
  <2>1. At(d, "approving") /\ UNCHANGED <<chain, row>>
    BY <1>4 DEF CommitApproval
  <2>2. CASE UNCHANGED pairing
    BY <2>2
  <2>3. CASE Inspectable(memory[d].x)
             /\ pairing' = [pairing EXCEPT ![memory[d].x] =
                    [state |-> "approved", by |-> d, base |-> memory[d].base]]
    <3>1. CASE memory[d].x = e
      BY <1>0, <2>1, <2>3, <3>1 DEF Inspectable
    <3>2. CASE memory[d].x # e
      BY <1>0, <2>3, <3>2
    <3> QED
      BY <3>1, <3>2
  <2> QED
    BY <1>4, <2>2, <2>3 DEF CommitApproval
<1>5. ASSUME NEW d \in Devices, CancelPairing(d) \/ EndPairing(d)
      PROVE  \/ UNCHANGED pairing
             \/ pairing[d].state # "none" /\ pairing' = [pairing EXCEPT ![d].state = "ended"]
  BY <1>5 DEF CancelPairing, Cancel, EndPairing, CleanedUp
<1>6. ASSUME NEW d \in Devices, FlowStep(d)
      PROVE  \/ UNCHANGED pairing \/ pairing' = PairingsCancelled
             \/ PairStart(d) \/ FinalizePairing(d) \/ CommitApproval(d) \/ CancelPairing(d)
  BY <1>6 DEF FlowStep, EnableBegin, CreateVault, EnableWrite, ConfirmSas,
       ResumeFinalization, Promote, RenewDevice, WriteRenewed, RevokeDevice, WriteRevoked,
       RecoverBegin, CompleteRecovery, WriteRecovered, PrepareApproval, PrepareRenewal,
       PrepareRevocation
<1>7. ASSUME NEW d \in Devices, Reconcile(d) \/ ReconcileManifest(d) \/ UploadSnapshot(d)
                                \/ ExpireGrant(d) \/ Crash(d) \/ Forget(d)
      PROVE  UNCHANGED pairing
  BY <1>7 DEF Reconcile, ReconcileManifest, UploadSnapshot, ExpireGrant, Crash, Forget
<1>8. CASE UNCHANGED vars
  BY <1>8 DEF vars
<1>9. ASSUME NEW d \in Devices,
             \/ FlowStep(d) \/ Reconcile(d) \/ ReconcileManifest(d) \/ UploadSnapshot(d)
             \/ EndPairing(d) \/ ExpireGrant(d) \/ Crash(d) \/ Forget(d)
      PROVE  \/ pairing'[e] = pairing[e]
             \/ pairing[e] # NoPairing /\ pairing'[e].state = "ended"
             \/ PairStart(e) \/ FinalizePairing(e)
             \/ /\ pairing[e].state = "pending" /\ UNCHANGED <<chain, row>>
                /\ At(d, "approving")
                /\ pairing'[e] = [state |-> "approved", by |-> d, base |-> memory[d].base]
  BY <1>1, <1>2, <1>3, <1>4, <1>5, <1>6, <1>7, <1>9
<1> QED
  BY <1>8, <1>9 DEF Next

\* A device gets its row with the manifest that it joins.
LEMMA RowFrame ==
    ASSUME TypeOK, DevicesFit, RowsFit, [Next]_vars, NEW e \in Devices, row[e] = "none"
    PROVE  row'[e] = "none" \/ CreateVault(e) \/ FinalizePairing(e) \/ CompleteRecovery(e)
<1>0. row \in [Devices -> {"none", "active", "revoked"}]
  BY DEF TypeOK
<1>1. ASSUME NEW d \in Devices, d # e, CreateVault(d) \/ FinalizePairing(d)
      PROVE  row'[e] = "none"
  BY <1>0, <1>1 DEF CreateVault, FinalizePairing
<1>2. ASSUME NEW d \in Devices, RenewDevice(d)
      PROVE  row'[e] = "none"
  BY <1>2 DEF RenewDevice
<1>3. ASSUME NEW d \in Devices, RevokeDevice(d)
      PROVE  row'[e] = "none"
  <2>1. memory[d].x \in Members(Version) /\ Version \in 1..Version
    BY <1>3, RevokeEffect, LastManifest
  <2>2. memory[d].x # e
    BY <2>1 DEF RowsFit
  <2> QED
    BY <1>0, <1>3, <2>2 DEF RevokeDevice
<1>4. ASSUME NEW d \in Devices, d # e, CompleteRecovery(d)
      PROVE  row'[e] = "none"
  BY <1>4 DEF CompleteRecovery
<1> QED
  BY <1>1, <1>2, <1>3, <1>4, ChainSteps DEF Extends

-----------------------------------------------------------------------------
(* The devices keep fitting.                                               *)

\* To have joined stays true while the chain grows.
LEMMA JoinedStays ==
    ASSUME TypeOK, Grows, NEW e \in Devices, NEW k, JoinedAfter(e, k)
    PROVE  JoinedAfter(e, k)' /\ chain'[k] = chain[k] /\ chain'[k + 1] = chain[k + 1]
BY ChainType DEF JoinedAfter, Grows, Members

\* Every step keeps the set-ups fitting the chain.
LEMMA SetupFitsStep ==
    ASSUME TypeOK, DevicesFit, RowsFit, EpochsGrow, [Next]_vars, NEW e \in Devices
    PROVE  SetupFits(e)'
<1> USE DEF At
<1>0. /\ FlowFits(e) /\ PairingFits(e) /\ SetupFits(e)
      /\ Grows /\ Version \in Nat
  BY ChainGrows, ChainType DEF DevicesFit
<1>a. setup \in [Devices -> SetupRecords]
  BY DEF TypeOK, SetupRecords
<1>1. CASE setup'[e] = setup[e]
  BY <1>0, <1>1 DEF SetupFits, HasSetup, Grows, Members
<1>b. ASSUME UNCHANGED chain,
             setup'[e].version \in 1..Version, e \in Members(setup'[e].version)
      PROVE  SetupFits(e)'
  BY <1>b DEF SetupFits, HasSetup, Members, Version
<1>2. CASE SetupStep(e) /\ UNCHANGED chain
  <2>1. CASE EnableWrite(e)
    <3>1. setup'[e] = NewSetup(1) /\ e \in Members(1) /\ 1 \in 1..Version
      BY <1>0, <1>a, <2>1, ChainType DEF EnableWrite, FlowFits
    <3> QED
      BY <1>2, <1>b, <3>1 DEF NewSetup
  <2>2. CASE Promote(e)
    <3>1. JoinedAfter(e, pairing[e].base) /\ setup'[e] = Promoted(e)
      BY <1>0, <1>a, <2>2 DEF Promote, Promotable, FinalizedOnce, PairingFits
    <3> QED
      BY <1>2, <1>b, <3>1 DEF JoinedAfter, Promoted, NewSetup
  <2>3. CASE WriteRenewed(e)
    <3>1. /\ memory[e].base + 1 \in 1..Version /\ memory[e].base \in 1..Version
          /\ Members(memory[e].base + 1) = Members(memory[e].base)
      BY <1>0, <2>3 DEF WriteRenewed, FlowFits
    <3>2. CASE setup[e].version = memory[e].base
      <4>1. e \in Members(setup[e].version)
        BY <1>0, <3>1, <3>2 DEF SetupFits, HasSetup, NoSetup
      <4>2. setup'[e].version = memory[e].base + 1
        BY <1>a, <2>3, <3>2 DEF WriteRenewed, PinNext
      <4> QED
        BY <1>2, <1>b, <3>1, <3>2, <4>1, <4>2
    <3>3. CASE setup[e].version # memory[e].base
      BY <1>1, <2>3, <3>3 DEF WriteRenewed
    <3> QED
      BY <3>2, <3>3
  <2>4. CASE WriteRevoked(e)
    <3>1. memory[e].base + 1 \in 1..Version /\ e \in Members(memory[e].base + 1)
      BY <1>0, <2>4 DEF WriteRevoked, FlowFits
    <3>2. CASE setup[e].version = memory[e].base
      <4>2. setup'[e].version = memory[e].base + 1
        BY <1>a, <2>4, <3>2 DEF WriteRevoked, PinNext
      <4> QED
        BY <1>2, <1>b, <3>1, <4>2
    <3>3. CASE setup[e].version # memory[e].base
      BY <1>1, <2>4, <3>3 DEF WriteRevoked
    <3> QED
      BY <3>2, <3>3
  <2>5. CASE WriteRecovered(e)
    <3>1. JoinedAfter(e, memory[e].base) /\ setup'[e] = NewSetup(memory[e].base + 1)
      BY <1>0, <1>a, <2>5 DEF WriteRecovered, Answered, FlowFits
    <3> QED
      BY <1>2, <1>b, <3>1 DEF JoinedAfter, NewSetup
  <2>6. CASE Reconcile(e)
    <3>1. /\ setup[e].version + 1 \in 1..Version
          /\ e \in Members(setup[e].version + 1)
      BY <2>6, NextManifest DEF Reconcile, Members
    <3>2. setup'[e].version = setup[e].version + 1
      BY <1>a, <2>6 DEF Reconcile, AdoptSameEpoch, AdoptNextEpoch, PinNext
    <3> QED
      BY <1>2, <1>b, <3>1, <3>2
  <2>7. CASE ReconcileManifest(e)
    <3>1. /\ setup[e].version + 1 \in 1..Version /\ setup[e].version \in Nat
      BY <1>a, <2>7, NextManifest DEF ReconcileManifest, SetupRecords
    <3>2. e \in Members(setup[e].version + 1)
      BY <2>7, <3>1 DEF ReconcileManifest, Members
    <3>3. setup'[e].version = setup[e].version + 1
      BY <1>a, <2>7 DEF ReconcileManifest, PinNext
    <3> QED
      BY <1>2, <1>b, <3>1, <3>2, <3>3
  <2>8. CASE UploadSnapshot(e)
    <3>1. setup'[e].version = setup[e].version /\ HasSetup(e)
      BY <1>a, <2>8 DEF UploadSnapshot, UpToDate, SetupRecords
    <3> QED
      BY <1>0, <1>2, <1>b, <3>1 DEF SetupFits
  <2>9. CASE Forget(e)
    BY <1>a, <2>9 DEF Forget, SetupFits, HasSetup
  <2> QED
    BY <1>2, <2>1, <2>2, <2>3, <2>4, <2>5, <2>6, <2>7, <2>8, <2>9 DEF SetupStep
<1> QED
  BY <1>1, <1>2, SetupFrame

\* Every step keeps the pairing requests fitting the chain.
LEMMA PairingFitsStep ==
    ASSUME TypeOK, DevicesFit, RowsFit, [Next]_vars, NEW e \in Devices
    PROVE  PairingFits(e)'
<1> USE DEF At
<1>0. PairingFits(e) /\ FlowFits(e) /\ Grows /\ Version \in Nat
  BY ChainGrows, ChainType DEF DevicesFit
<1>a. pairing \in [Devices -> PairingRecords] /\ pairing[e] \in PairingRecords
  BY DEF TypeOK, PairingRecords
<1>1. CASE pairing'[e] = pairing[e]
  <2>1. pairing[e].state \in {"pending", "approved"} => row'[e] = "none"
    <3> SUFFICES ASSUME pairing[e].state \in {"pending", "approved"}
                 PROVE  row'[e] = "none"
      OBVIOUS
    <3>1. row[e] = "none" /\ pairing[e] # NoPairing
      BY <1>0 DEF PairingFits, NoPairing
    <3>2. ~CreateVault(e) /\ ~CompleteRecovery(e)
      BY <1>0, <3>1 DEF CreateVault, CompleteRecovery, FlowFits
    <3>3. ~FinalizePairing(e)
      BY <1>a, <1>1 DEF FinalizePairing, PairingRecords
    <3> QED
      BY <3>1, <3>2, <3>3, RowFrame
  <2>2. pairing[e].state = "approved" =>
          pairing[e].base \in 1..Version' /\ pairing[e].by \in chain'[pairing[e].base].active
    BY <1>0 DEF PairingFits, Grows, Members
  <2>3. pairing[e].state = "finalized" =>
          /\ JoinedAfter(e, pairing[e].base)'
          /\ chain'[pairing[e].base + 1].epoch = chain'[pairing[e].base].epoch
    <3> SUFFICES ASSUME pairing[e].state = "finalized"
                 PROVE  /\ JoinedAfter(e, pairing[e].base)'
                        /\ chain'[pairing[e].base + 1].epoch = chain'[pairing[e].base].epoch
      OBVIOUS
    <3> DEFINE k == pairing[e].base
    <3>1. JoinedAfter(e, k) /\ chain[k + 1].epoch = chain[k].epoch
      BY <1>0 DEF PairingFits
    <3>2. chain'[k] = chain[k] /\ chain'[k + 1] = chain[k + 1]
      BY <1>0, <3>1 DEF JoinedAfter, Grows
    <3>3. k' = k
      BY <1>1
    <3>4. /\ k \in 1..Version' /\ k + 1 \in 1..Version'
          /\ e \in chain'[k + 1].active
          /\ \A j \in 1..k : e \notin chain'[j].active
      BY <1>0, <3>1, <3>2 DEF JoinedAfter, Grows, Members
    <3> QED
      BY <3>1, <3>2, <3>3, <3>4 DEF JoinedAfter, Members
  <2> QED
    BY <1>1, <2>1, <2>2, <2>3 DEF PairingFits, Members
<1>2. CASE pairing'[e].state = "ended"
  BY <1>2 DEF PairingFits
<1>3. CASE PairStart(e)
  <2>1. pairing'[e].state = "pending"
    BY <1>a, <1>3 DEF PairStart, CreatePairing, PairingRecords
  <2>2. row'[e] = "none"
    BY <1>3 DEF PairStart, Fresh
  <2> QED
    BY <2>1, <2>2 DEF PairingFits
<1>4. CASE FinalizePairing(e)
  <2>1. /\ row[e] = "none" /\ pairing[e].base = Version /\ Version \in 1..Version
        /\ \E m : /\ Stores(m) /\ Follows(m) /\ m.kind = "add" /\ m.epoch = Epoch
                  /\ m.active = Active \cup {e}
    BY <1>4, FinalizeEffect
  <2>2. pairing'[e].state = "finalized" /\ pairing'[e].base = Version
    BY <1>a, <1>4, <2>1 DEF FinalizePairing, PairingRecords
  <2>3. PICK m : Stores(m) /\ m.epoch = Epoch /\ m.active = Active \cup {e}
    BY <2>1
  <2>4. /\ Version' = Version + 1 /\ chain'[Version + 1] = m
        /\ \A k \in 1..Version : chain'[k] = chain[k]
    BY <2>3 DEF Stores
  <2>5. chain[Version].epoch = Epoch
    BY <2>1, LastManifest, ChainType
  <2>6. \A j \in 1..Version : e \notin Members(j)
    BY <2>1 DEF RowsFit
  <2>7. ASSUME NEW k, k = Version
        PROVE  JoinedAfter(e, k)' /\ chain'[k + 1].epoch = chain'[k].epoch
    BY <1>0, <2>1, <2>3, <2>4, <2>5, <2>6, <2>7 DEF JoinedAfter, Members
  <2>8. ASSUME NEW k, k = pairing'[e].base
        PROVE  JoinedAfter(e, k)' /\ chain'[k + 1].epoch = chain'[k].epoch
    BY <2>2, <2>7, <2>8
  <2>9. JoinedAfter(e, pairing[e].base)' 
        /\ chain'[pairing'[e].base + 1].epoch = chain'[pairing'[e].base].epoch
    BY <2>8 DEF JoinedAfter, Members
  <2> QED
    BY <2>2, <2>9 DEF PairingFits
<1>5. ASSUME pairing[e].state = "pending", UNCHANGED <<chain, row>>, NEW d \in Devices,
             At(d, "approving"),
             pairing'[e] = [state |-> "approved", by |-> d, base |-> memory[d].base]
      PROVE  PairingFits(e)'
  <2>1. row[e] = "none"
    BY <1>0, <1>5 DEF PairingFits
  <2>2. memory[d].base \in 1..Version /\ d \in Members(memory[d].base)
    BY <1>5 DEF DevicesFit, FlowFits
  <2> QED
    BY <1>5, <2>1, <2>2 DEF PairingFits, Members, Version
<1> QED
  BY <1>1, <1>2, <1>3, <1>4, <1>5, PairingFrame

\* A flow that goes on keeps what it relies on.
LEMMA FlowStays ==
    ASSUME TypeOK, DevicesFit, RowsFit, OneFounder, [Next]_vars, NEW e \in Devices,
           memory'[e] = memory[e]
    PROVE  FlowFits(e)'
<1> USE DEF At
<1> DEFINE f == memory[e]
<1>0. /\ FlowFits(e) /\ PairingFits(e) /\ Grows /\ RowsStay /\ Version \in Nat
      /\ memory \in [Devices -> FlowRecords] /\ f \in FlowRecords
      /\ chain = <<>> <=> Version = 0
  BY ChainGrows, ChainType DEF DevicesFit, TypeOK, FlowRecords
<1>1. CASE f.pc = "registering"
  <2>1. pairing[e] = NoPairing /\ (chain # <<>> => e \in Members(1))
    BY <1>0, <1>1 DEF FlowFits
  <2>2. pairing'[e] = NoPairing
    <3>1. ~PairStart(e)
      BY <1>0, <1>1 DEF PairStart, Fresh, Free, Idle
    <3>2. ~FinalizePairing(e) /\ pairing[e].state # "pending"
      BY <1>1, <2>1 DEF FinalizePairing, NoPairing
    <3> QED
      BY <2>1, <3>1, <3>2, PairingFrame
  <2>3. ASSUME chain' # <<>>
        PROVE  e \in chain'[1].active
    <3>1. CASE chain # <<>>
      BY <1>0, <2>1, <3>1 DEF Grows, Members
    <3>2. CASE chain = <<>>
      <4>1. PICK d \in Devices : Extends(d)
        BY <2>3, <3>2, ChainSteps
      <4>2. CreateVault(d)
        BY <3>2, <4>1, FinalizeEffect, RenewEffect, RevokeEffect, RecoverEffect DEF Extends
      <4>3. d = e
        BY <1>1, <4>2 DEF CreateVault, OneFounder
      <4>4. PICK m : Stores(m) /\ m = Manifest("create", e, 1, {e})
        BY <4>2, <4>3, CreateEffect
      <4>5. chain'[1] = m
        BY <1>0, <3>2, <4>4 DEF Stores
      <4> QED
        BY <4>4, <4>5 DEF Manifest
    <3> QED
      BY <3>1, <3>2
  <2> QED
    BY <1>1, <2>2, <2>3 DEF FlowFits, Members
<1>2. CASE f.pc \in {"approving", "renewing", "renewed", "revoking", "revoked"}
  <2>1. /\ f.base \in 1..Version /\ f.base \in 1..Version'
        /\ chain'[f.base] = chain[f.base]
    BY <1>0, <1>2 DEF FlowFits, Grows
  <2>2. f.pc \in {"renewed", "revoked"} =>
          f.base + 1 \in 1..Version /\ chain'[f.base + 1] = chain[f.base + 1]
          /\ f.base + 1 \in 1..Version'
    BY <1>0 DEF FlowFits, Grows
  <2>3. CASE f.pc = "approving"
    BY <1>0, <2>1, <2>3 DEF FlowFits, Members
  <2>4. CASE f.pc = "renewing"
    BY <1>0, <2>1, <2>4 DEF FlowFits, Members
  <2>5. CASE f.pc = "renewed"
    BY <1>0, <2>1, <2>2, <2>5 DEF FlowFits, Members
  <2>6. CASE f.pc = "revoking"
    BY <1>0, <2>1, <2>6 DEF FlowFits, Members
  <2>7. CASE f.pc = "revoked"
    BY <1>0, <2>1, <2>2, <2>7 DEF FlowFits, Members
  <2> QED
    BY <1>2, <2>3, <2>4, <2>5, <2>6, <2>7
<1>3. CASE f.pc = "recovering"
  <2>1. /\ f.base \in 1..Version /\ pairing[e] = NoPairing
        /\ row[e] = "none" \/ JoinedAfter(e, f.base)
    BY <1>0, <1>3 DEF FlowFits
  <2>2. pairing'[e] = NoPairing
    <3>1. ~PairStart(e)
      BY <1>0, <1>3 DEF PairStart, Fresh, Free, Idle
    <3>2. ~FinalizePairing(e) /\ pairing[e].state # "pending"
      BY <1>3, <2>1 DEF FinalizePairing, NoPairing
    <3> QED
      BY <2>1, <3>1, <3>2, PairingFrame
  <2> DEFINE Joined(k) == /\ k \in 1..Version' /\ k + 1 \in 1..Version'
                          /\ e \in chain'[k + 1].active
                          /\ \A j \in 1..k : e \notin chain'[j].active
  <2>3. row'[e] = "none" \/ Joined(f.base)
    <3>1. CASE JoinedAfter(e, f.base)
      BY <1>0, <3>1 DEF JoinedAfter, Grows, Members
    <3>2. CASE row[e] = "none" /\ CompleteRecovery(e)
      <4>1. /\ f.base = Version /\ Version \in 1..Version
            /\ \E m : Stores(m) /\ m.active = {e}
        BY <3>2, RecoverEffect
      <4>2. PICK m : Stores(m) /\ m.active = {e}
        BY <4>1
      <4>3. \A j \in 1..Version : e \notin Members(j)
        BY <3>2 DEF RowsFit
      <4> QED
        BY <1>0, <4>1, <4>2, <4>3 DEF Stores, Members
    <3>3. CASE row[e] = "none" /\ ~CompleteRecovery(e)
      <4>1. ~CreateVault(e) /\ ~FinalizePairing(e)
        BY <1>3 DEF CreateVault, FinalizePairing
      <4> QED
        BY <3>3, <4>1, RowFrame
    <3> QED
      BY <2>1, <3>1, <3>2, <3>3
  <2>4. f.base \in 1..Version'
    BY <1>0, <2>1 DEF Grows
  <2>5. f' = f
    OBVIOUS
  <2>6. Joined(f.base) => JoinedAfter(e, f.base)'
    BY <2>5 DEF JoinedAfter, Members
  <2> QED
    BY <1>3, <2>2, <2>3, <2>4, <2>5, <2>6 DEF FlowFits
<1>4. CASE f.pc \in {"idle", "polling", "finalizing"}
  BY <1>4 DEF FlowFits
<1> QED
  BY <1>0, <1>1, <1>2, <1>3, <1>4 DEF FlowRecords, Pcs

\* What a flow begins with.
LEMMA BeginFlow ==
    ASSUME TypeOK, NEW e \in Devices, NEW pc, NEW x, Begin(e, pc, x)
    PROVE  memory'[e].pc = pc /\ memory'[e].x = x /\ memory'[e].base = Version
BY DEF TypeOK, Begin, Idle

\* A flow begins with the manifest that is current then.
LEMMA FlowFitsStep ==
    ASSUME TypeOK, DevicesFit, RowsFit, OneFounder, RecoveryFits, [Next]_vars,
           NEW e \in Devices
    PROVE  FlowFits(e)'
<1> USE DEF At
<1>0. /\ memory \in [Devices -> FlowRecords] /\ memory[e] \in FlowRecords
      /\ Version \in Nat /\ (chain = <<>> <=> Version = 0)
      /\ chain # <<>> => Version \in 1..Version /\ Active = Members(Version)
      /\ chain = <<>> => Active = {}
  BY ChainType, LastManifest DEF TypeOK, FlowRecords
<1>1. CASE memory'[e].pc \in {"idle", "polling", "finalizing"}
  BY <1>1 DEF FlowFits
<1>2. CASE EnableBegin(e)
  <2>1. chain' = <<>> /\ pairing'[e] = NoPairing
    BY <1>2 DEF EnableBegin, Fresh, tables
  <2>2. memory'[e].pc = "registering"
    BY <1>0, <1>2 DEF EnableBegin, Goto, FlowRecords
  <2> QED
    BY <2>1, <2>2 DEF FlowFits
<1>4. CASE PrepareApproval(e)
  <2>1. PICK x \in Devices : Begin(e, "approving", x)
    BY <1>4 DEF PrepareApproval
  <2>2. e \in Active /\ chain' = chain /\ Version' = Version
    BY <1>4 DEF PrepareApproval, UpToDate, Authenticated, SessionOpens, ChallengeHolds,
                IsMember, tables, Version
  <2>3. memory'[e].pc = "approving" /\ memory'[e].base = Version
    BY <2>1, BeginFlow
  <2> QED
    BY <1>0, <2>2, <2>3 DEF FlowFits, Members
<1>5. CASE PrepareRenewal(e)
  <2>1. PICK x \in Active :
          memory' = [memory EXCEPT ![e] = [Idle EXCEPT !.pc = "renewing", !.x = x,
                              !.base = Version, !.pending = setup[e].pending]]
    BY <1>5 DEF PrepareRenewal
  <2>2. /\ memory'[e].pc = "renewing" /\ memory'[e].base = Version /\ memory'[e].x = x
    BY <1>0, <2>1 DEF Idle
  <2>3. chain' = chain /\ Version' = Version
    BY <1>5 DEF PrepareRenewal, tables, Version
  <2> QED
    BY <1>0, <2>1, <2>2, <2>3 DEF FlowFits, Members
<1>6. CASE PrepareRevocation(e)
  <2>1. PICK x \in Active \ {e} : Begin(e, "revoking", x)
    BY <1>6 DEF PrepareRevocation
  <2>2. chain' = chain /\ Version' = Version
    BY <1>6 DEF PrepareRevocation, tables, Version
  <2>3. memory'[e].pc = "revoking" /\ memory'[e].base = Version /\ memory'[e].x = x
    BY <2>1, BeginFlow
  <2> QED
    BY <1>0, <2>1, <2>2, <2>3 DEF FlowFits, Members
<1>7. CASE RecoverBegin(e)
  <2>1. Begin(e, "recovering", recovery.code)
    BY <1>7 DEF RecoverBegin
  <2>2. /\ chain' = chain /\ Version' = Version /\ row'[e] = "none"
        /\ pairing'[e] = NoPairing
    BY <1>7 DEF RecoverBegin, Fresh, tables, Version
  <2>3. chain # <<>>
    BY <1>7 DEF RecoverBegin, ActiveRecovery, RecoveryFits
  <2>4. memory'[e].pc = "recovering" /\ memory'[e].base = Version
    BY <2>1, BeginFlow
  <2> QED
    BY <1>0, <2>2, <2>3, <2>4 DEF FlowFits
<1>8. CASE RenewDevice(e)
  <2>1. /\ memory[e].base = Version /\ Version \in 1..Version
        /\ \E m : /\ Stores(m) /\ m.kind = "renew" /\ m.epoch = Epoch /\ m.active = Active
    BY <1>8, RenewEffect
  <2>2. memory'[e].pc = "renewed" /\ memory'[e].base = Version
    BY <1>0, <1>8, <2>1 DEF RenewDevice, Goto, FlowRecords
  <2>3. PICK m : Stores(m) /\ m.kind = "renew" /\ m.epoch = Epoch /\ m.active = Active
    BY <2>1
  <2>4. chain[Version].epoch = Epoch /\ chain[Version].active = Active
    BY <1>0, <2>1, LastManifest DEF Members
  <2>5. /\ Version' = Version + 1 /\ chain'[Version + 1] = m
        /\ chain'[Version] = chain[Version]
    BY <2>1, <2>3 DEF Stores
  <2> QED
    BY <1>0, <2>1, <2>2, <2>3, <2>4, <2>5 DEF FlowFits, Members
<1>9. CASE RevokeDevice(e)
  <2>1. /\ memory[e].base = Version /\ Version \in 1..Version
        /\ e \in Active /\ memory[e].x # e
        /\ \E m : Stores(m) /\ m.kind = "revoke" /\ m.active = Active \ {memory[e].x}
    BY <1>9, RevokeEffect
  <2>2. memory'[e].pc = "revoked" /\ memory'[e].base = Version
    BY <1>0, <1>9, <2>1 DEF RevokeDevice, Goto, FlowRecords
  <2>3. PICK m : Stores(m) /\ m.kind = "revoke" /\ m.active = Active \ {memory[e].x}
    BY <2>1
  <2>4. Version' = Version + 1 /\ chain'[Version + 1] = m
    BY <2>3 DEF Stores
  <2> QED
    BY <1>0, <2>1, <2>2, <2>3, <2>4 DEF FlowFits, Members
<1> QED
  BY <1>1, <1>2, <1>4, <1>5, <1>6, <1>7, <1>8, <1>9, FlowStays, FlowFrame DEF FlowBegun

\* Only one device ever registers the vault.
LEMMA OneFounderStep ==
    ASSUME TypeOK, OneFounder, [Next]_vars
    PROVE  OneFounder'
<1> USE DEF At
<1>0. memory \in [Devices -> FlowRecords]
  BY DEF TypeOK, FlowRecords
<1>1. ASSUME NEW e \in Devices, memory'[e].pc = "registering"
      PROVE  memory[e].pc = "registering" \/ EnableBegin(e)
  <2>1. ASSUME NEW pc, NEW x, Begin(e, pc, x)
        PROVE  memory'[e].pc = pc
    BY <1>0, <2>1 DEF Begin, Idle
  <2>2. ~PrepareApproval(e) /\ ~PrepareRevocation(e) /\ ~RecoverBegin(e)
    BY <1>1, <2>1 DEF PrepareApproval, PrepareRevocation, RecoverBegin
  <2>3. ~PrepareRenewal(e)
    BY <1>0, <1>1 DEF PrepareRenewal, Idle
  <2>4. ~RenewDevice(e) /\ ~RevokeDevice(e)
    BY <1>0, <1>1 DEF RenewDevice, RevokeDevice, Goto, FlowRecords
  <2> QED
    BY <1>1, <2>2, <2>3, <2>4, FlowFrame DEF FlowBegun
<1>2. ASSUME NEW d \in Devices, EnableBegin(d), NEW e \in Devices, e # d
      PROVE  memory'[e].pc # "registering"
  BY <1>0, <1>2 DEF EnableBegin, Goto, Idle
<1> SUFFICES ASSUME NEW d \in Devices, NEW e \in Devices,
                    memory'[d].pc = "registering", memory'[e].pc = "registering"
             PROVE  d = e
  BY DEF OneFounder
<1> QED
  BY <1>1, <1>2 DEF OneFounder

\* Every device fits what the manifests say.
LEMMA DevicesFitStep ==
    ASSUME TypeOK, DevicesFit, RowsFit, OneFounder, RecoveryFits, EpochsGrow, [Next]_vars
    PROVE  DevicesFit'
BY SetupFitsStep, PairingFitsStep, FlowFitsStep DEF DevicesFit

-----------------------------------------------------------------------------
(* Keys, envelopes and obligations.                                        *)

\* Only a revocation writes envelopes.
LEMMA EnvelopeFrame ==
    ASSUME [Next]_vars
    PROVE  UNCHANGED envelope \/ \E d \in Devices : RevokeDevice(d)
BY ChainSteps DEF Extends, CreateVault, FinalizePairing, RenewDevice, CompleteRecovery

\* What a revocation seals, and under which manifest.
LEMMA RevokeSeals ==
    ASSUME TypeOK, DevicesFit, NEW d \in Devices, RevokeDevice(d)
    PROVE  /\ Version \in 1..Version /\ Version' = Version + 1
           /\ chain'[Version + 1].kind = "revoke" /\ chain'[Version + 1].by = d
           /\ chain'[Version + 1].epoch = Epoch + 1 /\ Epoch' = Epoch + 1
           /\ \A k \in 1..Version : chain'[k] = chain[k]
           /\ envelope' = envelope \cup [epoch : {Epoch + 1}, from : {d},
                                         to : chain'[Version + 1].active]
<1>1. PICK m : /\ Stores(m) /\ Follows(m) /\ m.kind = "revoke" /\ m.epoch = Epoch + 1
               /\ m.active = Active \ {memory[d].x} /\ m.by = d
  BY RevokeEffect
<1>2. Version \in 1..Version
  BY RevokeEffect
<1>3. envelope' = envelope \cup [epoch : {Epoch + 1}, from : {d}, to : m.active]
  BY <1>1 DEF RevokeDevice, KeyEnvelopes
<1>4. Epoch' = m.epoch
  BY <1>1, StoredIsCurrent
<1> QED
  BY <1>1, <1>2, <1>3, <1>4 DEF Stores

\* Any other manifest seals nothing; it begins an epoch only if it leaves no snapshot.
LEMMA OtherManifests ==
    ASSUME TypeOK, DevicesFit, RowsFit, KindsFit, NEW d \in Devices, Extends(d), ~RevokeDevice(d)
    PROVE  /\ UNCHANGED <<envelope, setup>>
           /\ \E m : /\ Stores(m) /\ Follows(m) /\ m.kind # "revoke"
                     /\ m.epoch \in Nat /\ m.epoch >= Epoch
                     /\ \/ cloud' = 0
                        \/ cloud' = cloud /\ (chain = <<>> \/ m.epoch = Epoch)
<1> USE DEF local
<1>0. Epoch \in Nat
  BY LastManifest
<1>1. CASE CreateVault(d)
  <2>1. PICK m : Stores(m) /\ Follows(m) /\ m.epoch = 1 /\ m.kind = "create" /\ chain = <<>>
    BY <1>1, CreateEffect DEF Manifest
  <2>2. Epoch = 0
    BY <2>1, LastManifest
  <2> QED
    BY <1>1, <2>1, <2>2 DEF CreateVault
<1>2. CASE FinalizePairing(d)
  <2>1. PICK m : Stores(m) /\ Follows(m) /\ m.kind = "add" /\ m.epoch = Epoch
    BY <1>2, FinalizeEffect
  <2> QED
    BY <1>0, <1>2, <2>1 DEF FinalizePairing
<1>3. CASE RenewDevice(d)
  <2>1. PICK m : Stores(m) /\ Follows(m) /\ m.kind = "renew" /\ m.epoch = Epoch
    BY <1>3, RenewEffect
  <2> QED
    BY <1>0, <1>3, <2>1 DEF RenewDevice
<1>4. CASE CompleteRecovery(d)
  <2>1. PICK m : Stores(m) /\ Follows(m) /\ m.kind = "recover" /\ m.epoch = Epoch + 1
    BY <1>4, RecoverEffect
  <2> QED
    BY <1>0, <1>4, <2>1 DEF CompleteRecovery
<1> QED
  BY <1>1, <1>2, <1>3, <1>4 DEF Extends

\* No manifest is of an epoch after the current one.
LEMMA EpochsBelow ==
    ASSUME TypeOK, EpochsGrow
    PROVE  \A k \in 1..Version : chain[k].epoch \in Nat /\ chain[k].epoch <= Epoch
<1>1. ASSUME NEW k \in 1..Version
      PROVE  chain[k].epoch \in Nat /\ chain[k].epoch <= Epoch
  <2>1. chain # <<>>
    BY ChainType
  <2>2. Version \in 1..Version /\ Epoch = chain[Version].epoch
    BY <2>1, LastManifest
  <2> QED
    BY <2>2, ChainType DEF EpochsGrow
<1> QED
  BY <1>1

\* Every device that stays finds its key, and an envelope tells its author.
LEMMA EnvelopesFitStep ==
    ASSUME TypeOK, DevicesFit, RowsFit, KindsFit, EpochsGrow, EnvelopesFit, [Next]_vars
    PROVE  EnvelopesFit'
<1>0. Version \in Nat /\ Epoch \in Nat
  BY ChainType, LastManifest
<1>a. \A k \in envelope : k.epoch \in Nat /\ k.epoch <= Epoch
  BY DEF TypeOK, EnvelopesFit
<1>b. \A k \in 1..Version : chain[k].epoch \in Nat /\ chain[k].epoch <= Epoch
  BY EpochsBelow
<1>c. \A k \in 2..Version : chain[k].kind = "revoke" =>
        /\ \A d \in chain[k].active :
              [epoch |-> chain[k].epoch, to |-> d, from |-> chain[k].by] \in envelope
        /\ \A e \in envelope : e.epoch = chain[k].epoch => e.from = chain[k].by
  BY DEF EnvelopesFit, Members
<1>1. CASE UNCHANGED <<chain, envelope>>
  <2>1. Version' = Version /\ Epoch' = Epoch
    BY <1>1 DEF Epoch, Current, Version
  <2> QED
    BY <1>1, <1>a, <1>c, <2>1 DEF EnvelopesFit, Members
<1>2. ASSUME NEW d \in Devices, Extends(d), ~RevokeDevice(d)
      PROVE  EnvelopesFit'
  <2>1. PICK m : /\ Stores(m) /\ m.kind # "revoke"
                 /\ m.epoch \in Nat /\ m.epoch >= Epoch
    BY <1>2, OtherManifests
  <2>2. UNCHANGED envelope
    BY <1>2, OtherManifests
  <2>3. /\ Epoch' = m.epoch /\ Version' = Version + 1 /\ chain'[Version + 1] = m
        /\ \A k \in 1..Version : chain'[k] = chain[k]
    BY <2>1, StoredIsCurrent DEF Stores
  <2>4. \A k \in envelope' : k.epoch <= Epoch'
    BY <1>0, <1>a, <2>1, <2>2, <2>3
  <2>5. ASSUME NEW k \in 2..Version', chain'[k].kind = "revoke"
        PROVE  k \in 2..Version /\ chain'[k] = chain[k]
    <3>1. k # Version + 1
      BY <2>1, <2>3, <2>5
    <3> QED
      BY <1>0, <2>3, <3>1
  <2> QED
    BY <1>c, <2>2, <2>4, <2>5 DEF EnvelopesFit, Members
<1>3. ASSUME NEW d \in Devices, RevokeDevice(d)
      PROVE  EnvelopesFit'
  <2> DEFINE m == chain'[Version + 1]
  <2>1. /\ Version \in 1..Version /\ Version' = Version + 1 /\ Epoch' = Epoch + 1
        /\ m.kind = "revoke" /\ m.by = d /\ m.epoch = Epoch + 1
        /\ \A k \in 1..Version : chain'[k] = chain[k]
        /\ envelope' = envelope \cup [epoch : {Epoch + 1}, from : {d}, to : m.active]
    BY <1>3, RevokeSeals
  <2>2. \A k \in envelope' :
           k \in envelope \/ (k.epoch = Epoch + 1 /\ k.from = d)
    BY <2>1
  <2>3. \A k \in envelope' : k.epoch <= Epoch'
    <3>1. Epoch <= Epoch + 1 /\ Epoch + 1 <= Epoch + 1
      BY <1>0
    <3>2. \A k \in envelope : k.epoch <= Epoch + 1
      BY <1>0, <1>a
    <3> QED
      BY <2>1, <2>2, <3>1, <3>2
  <2>4. ASSUME NEW k \in 2..Version', chain'[k].kind = "revoke"
        PROVE  /\ \A e \in chain'[k].active :
                    [epoch |-> chain'[k].epoch, to |-> e, from |-> chain'[k].by] \in envelope'
               /\ \A e \in envelope' : e.epoch = chain'[k].epoch => e.from = chain'[k].by
    <3>1. CASE k \in 2..Version
      <4>1. chain'[k] = chain[k] /\ chain[k].epoch # Epoch + 1
        BY <1>0, <1>b, <2>1, <3>1
      <4>2. \A e \in envelope : e.epoch = chain[k].epoch => e.from = chain[k].by
        BY <1>c, <2>4, <3>1, <4>1
      <4>3. \A e \in chain[k].active :
              [epoch |-> chain[k].epoch, to |-> e, from |-> chain[k].by] \in envelope
        BY <1>c, <2>4, <3>1, <4>1
      <4> QED
        BY <2>1, <2>2, <4>1, <4>2, <4>3
    <3>2. CASE k = Version + 1
      <4>1. ASSUME NEW e \in m.active
            PROVE  [epoch |-> Epoch + 1, to |-> e, from |-> d] \in envelope'
        BY <2>1
      <4>2. \A e \in envelope : e.epoch # Epoch + 1
        BY <1>0, <1>a
      <4> QED
        BY <2>1, <2>2, <3>2, <4>1, <4>2
    <3> QED
      BY <1>0, <2>1, <3>1, <3>2
  <2> QED
    BY <2>3, <2>4 DEF EnvelopesFit, Members
<1>4. \/ UNCHANGED <<chain, envelope>>
      \/ \E d \in Devices : Extends(d)
  BY ChainSteps
<1> QED
  BY <1>1, <1>2, <1>3, <1>4

\* A key that is written is of an epoch in which the device was a member.
LEMMA KeysWritten ==
    ASSUME TypeOK, DevicesFit, NEW e \in Devices, SetupStep(e), UNCHANGED chain,
           NEW epoch \in setup'[e].keys
    PROVE  \/ epoch \in setup[e].keys
           \/ \E k \in 1..Version : chain[k].epoch = epoch /\ e \in Members(k)
<1> USE DEF At
<1>0. /\ FlowFits(e) /\ PairingFits(e) /\ SetupFits(e) /\ Version \in Nat
      /\ setup \in [Devices -> SetupRecords]
  BY ChainType DEF DevicesFit, TypeOK, SetupRecords
<1>1. CASE EnableWrite(e)
  <2>1. setup'[e] = NewSetup(1) /\ e \in Members(1) /\ 1 \in 1..Version
    BY <1>0, <1>1, ChainType DEF EnableWrite, FlowFits
  <2> QED
    BY <2>1 DEF NewSetup
<1>2. CASE Promote(e)
  <2> DEFINE b == pairing[e].base
  <2>1. JoinedAfter(e, b) /\ chain[b + 1].epoch = chain[b].epoch /\ setup'[e] = Promoted(e)
    BY <1>0, <1>2 DEF Promote, Promotable, FinalizedOnce, PairingFits
  <2>2. epoch = chain[b].epoch
    BY <2>1 DEF Promoted, NewSetup
  <2> QED
    BY <2>1, <2>2 DEF JoinedAfter
<1>3. CASE WriteRenewed(e)
  <2>1. setup'[e] = setup[e] \/ setup'[e].keys = setup[e].keys \cup {}
    BY <1>0, <1>3 DEF WriteRenewed, PinNext
  <2> QED
    BY <2>1
<1>4. CASE WriteRevoked(e)
  <2> DEFINE b == memory[e].base + 1
  <2>1. b \in 1..Version /\ e \in Members(b)
    BY <1>0, <1>4 DEF WriteRevoked, FlowFits
  <2>2. setup'[e] = setup[e] \/ setup'[e].keys = setup[e].keys \cup {chain[b].epoch}
    BY <1>0, <1>4 DEF WriteRevoked, PinNext
  <2> QED
    BY <2>1, <2>2
<1>5. CASE WriteRecovered(e)
  <2> DEFINE b == memory[e].base + 1
  <2>1. b \in 1..Version /\ e \in Members(b) /\ setup'[e] = NewSetup(b)
    BY <1>0, <1>5 DEF WriteRecovered, Answered, FlowFits, JoinedAfter
  <2> QED
    BY <2>1 DEF NewSetup
<1>6. CASE Reconcile(e)
  <2> DEFINE next == Head(ChangesAfter(e))
  <2>1. /\ setup[e].version + 1 \in 1..Version /\ next = chain[setup[e].version + 1]
        /\ e \in Members(setup[e].version + 1)
    BY <1>6, NextManifest DEF Reconcile, Members
  <2>2. \/ setup'[e].keys = setup[e].keys \cup {}
        \/ setup'[e].keys = setup[e].keys \cup {next.epoch}
    BY <1>0, <1>6 DEF Reconcile, AdoptSameEpoch, AdoptNextEpoch, PinNext
  <2> QED
    BY <2>1, <2>2
<1>7. CASE ReconcileManifest(e)
  <2>1. setup'[e].keys = setup[e].keys \cup {}
    BY <1>0, <1>7 DEF ReconcileManifest, PinNext
  <2> QED
    BY <2>1
<1>8. CASE UploadSnapshot(e)
  <2>1. setup'[e].keys = setup[e].keys
    BY <1>0, <1>8 DEF UploadSnapshot, SetupRecords
  <2> QED
    BY <2>1
<1>9. CASE Forget(e)
  <2>1. setup'[e] = NoSetup
    BY <1>0, <1>9 DEF Forget
  <2> QED
    BY <2>1 DEF NoSetup
<1> QED
  BY <1>1, <1>2, <1>3, <1>4, <1>5, <1>6, <1>7, <1>8, <1>9 DEF SetupStep

\* No key gets to a device that was never in its epoch.
LEMMA KeysStep ==
    ASSUME TypeOK, DevicesFit, RowsFit, KindsFit, KeysStayInside, [Next]_vars
    PROVE  KeysStayInside'
<1> DEFINE MemberIn(d, epoch) ==
             \E k \in 1..Version : chain[k].epoch = epoch /\ d \in chain[k].active
           MemberThen(d, epoch) ==
             \E k \in 1..Version' : chain'[k].epoch = epoch /\ d \in chain'[k].active
<1>0. Version \in Nat /\ Grows
  BY ChainType, ChainGrows
<1>1. \A d, epoch : MemberIn(d, epoch) => MemberThen(d, epoch)
  BY <1>0 DEF Grows
<1>2. /\ \A d \in Devices : \A epoch \in setup[d].keys : MemberIn(d, epoch)
      /\ \A k \in envelope : MemberIn(k.to, k.epoch)
  BY DEF KeysStayInside
<1>3. ASSUME NEW d \in Devices, NEW epoch \in setup'[d].keys
      PROVE  MemberThen(d, epoch)
  <2>1. CASE setup'[d] = setup[d]
    BY <1>1, <1>2, <1>3, <2>1
  <2>2. CASE SetupStep(d) /\ UNCHANGED chain
    <3>1. epoch \in setup[d].keys \/ MemberIn(d, epoch)
      BY <1>3, <2>2, KeysWritten DEF Members
    <3> QED
      BY <1>1, <1>2, <3>1
  <2> QED
    BY <2>1, <2>2, SetupFrame
<1>4. ASSUME NEW k \in envelope'
      PROVE  MemberThen(k.to, k.epoch)
  <2>1. CASE k \in envelope
    BY <1>1, <1>2, <2>1
  <2>2. ASSUME NEW d \in Devices, RevokeDevice(d), k \notin envelope
        PROVE  MemberThen(k.to, k.epoch)
    <3>1. /\ Version' = Version + 1 /\ chain'[Version + 1].epoch = Epoch + 1
          /\ envelope' = envelope \cup [epoch : {Epoch + 1}, from : {d},
                                        to : chain'[Version + 1].active]
      BY <2>2, RevokeSeals
    <3>2. k.epoch = Epoch + 1 /\ k.to \in chain'[Version + 1].active
      BY <1>4, <2>2, <3>1
    <3>3. Version + 1 \in 1..Version'
      BY <1>0, <3>1
    <3> QED
      BY <3>1, <3>2, <3>3
  <2> QED
    BY <1>4, <2>1, <2>2, EnvelopeFrame
<1> QED
  BY <1>3, <1>4 DEF KeysStayInside

\* Where the cloud is left without a snapshot of the current epoch.
LEMMA CloudFrame ==
    ASSUME TypeOK, DevicesFit, RowsFit, KindsFit, [Next]_vars, cloud' \notin {0, Epoch'}
    PROVE  \/ UNCHANGED <<chain, cloud>> /\ Epoch' = Epoch /\ Version' = Version
           \/ /\ UNCHANGED <<cloud, setup>> /\ (chain = <<>> \/ Epoch' = Epoch)
              /\ \E m : Stores(m) /\ Follows(m) /\ m.kind # "revoke"
           \/ \E d \in Devices : RevokeDevice(d)
<1> USE DEF tables
<1>1. ASSUME NEW d \in Devices, Extends(d), ~RevokeDevice(d)
      PROVE  /\ UNCHANGED <<cloud, setup>> /\ (chain = <<>> \/ Epoch' = Epoch)
             /\ \E m : Stores(m) /\ Follows(m) /\ m.kind # "revoke"
  <2>1. PICK m : /\ Stores(m) /\ Follows(m) /\ m.kind # "revoke"
                 /\ \/ cloud' = 0
                    \/ cloud' = cloud /\ (chain = <<>> \/ m.epoch = Epoch)
    BY <1>1, OtherManifests
  <2>2. Epoch' = m.epoch
    BY <2>1, StoredIsCurrent
  <2>3. UNCHANGED setup
    BY <1>1, OtherManifests
  <2> QED
    BY <2>1, <2>2, <2>3
<1>2. ASSUME UNCHANGED chain
      PROVE  Epoch' = Epoch /\ Version' = Version
  BY <1>2 DEF Epoch, Current, Version
<1>3. \/ UNCHANGED <<chain, cloud>>
      \/ \E d \in Devices : Extends(d) \/ UploadSnapshot(d)
  <2>1. ASSUME NEW d \in Devices, FlowStep(d)
        PROVE  Extends(d) \/ UNCHANGED <<chain, cloud>>
    BY <2>1 DEF FlowStep, Extends, EnableBegin, EnableWrite, PairStart, CancelPairing,
         ConfirmSas, ResumeFinalization, Promote, CommitApproval, WriteRenewed, WriteRevoked,
         RecoverBegin, WriteRecovered, PrepareApproval, PrepareRenewal, PrepareRevocation
  <2>2. ASSUME NEW d \in Devices, Reconcile(d) \/ ReconcileManifest(d) \/ EndPairing(d)
                                  \/ ExpireGrant(d) \/ Crash(d) \/ Forget(d)
        PROVE  UNCHANGED <<chain, cloud>>
    BY <2>2 DEF Reconcile, ReconcileManifest, EndPairing, ExpireGrant, Crash, Forget
  <2>3. CASE UNCHANGED vars
    BY <2>3 DEF vars
  <2> QED
    BY <2>1, <2>2, <2>3 DEF Next
<1>4. ASSUME NEW d \in Devices, UploadSnapshot(d)
      PROVE  cloud' = Epoch'
  BY <1>2, <1>4 DEF UploadSnapshot
<1> QED
  BY <1>1, <1>2, <1>3, <1>4

\* A revocation is signed by a member of the manifest before it.
LEMMA RevokerWasMember ==
    ASSUME TypeOK, KindsFit, ChainAuthorized, NEW k \in 1..Version, chain[k].kind = "revoke"
    PROVE  k \in 2..Version /\ chain[k].by \in Members(k - 1)
<1>1. Version \in Nat /\ chain # <<>>
  BY ChainType
<1>2. k # 1
  BY <1>1 DEF KindsFit
<1>3. k \in 2..Version
  BY <1>1, <1>2
<1> QED
  BY <1>3 DEF ChainAuthorized, Members

\* Writing a set-up never loses what the device owes.
LEMMA ObligationWritten ==
    ASSUME TypeOK, DevicesFit, EpochsGrow, KindsFit, ChainAuthorized, EnvelopesFit,
           RenewalsRemember, RevokerOwesSnapshot,
           NEW e \in Devices, SetupStep(e), UNCHANGED <<chain, cloud>>,
           cloud \notin {0, Epoch}, NEW k \in 1..Version,
           chain[k].kind = "revoke", chain[k].by = e, chain[k].epoch = Epoch,
           e \in Active, setup'[e] # NoSetup
    PROVE  setup'[e].version < k \/ setup'[e].pending = Epoch
<1> USE DEF At
<1>0. /\ FlowFits(e) /\ PairingFits(e) /\ SetupFits(e)
      /\ Version \in Nat /\ Epoch \in Nat
      /\ setup \in [Devices -> SetupRecords] /\ setup[e] \in SetupRecords
      /\ setup[e].version \in Nat /\ memory[e].base \in Nat
  BY ChainType, LastManifest DEF DevicesFit, TypeOK, SetupRecords
<1>a. k \in 2..Version /\ e \in Members(k - 1)
  BY RevokerWasMember
<1>b. HasSetup(e) => setup[e].version < k \/ setup[e].pending = Epoch
  BY DEF RevokerOwesSnapshot
<1>c. \A j \in 1..Version : chain[j].epoch \in Nat /\ chain[j].epoch <= Epoch
  BY EpochsBelow
<1>d. ASSUME NEW b, JoinedAfter(e, b)
      PROVE  b + 1 < k
  <2>1. k - 1 \in 1..Version /\ b \in 1..Version
    BY <1>0, <1>a, <1>d DEF JoinedAfter
  <2>2. ~(k - 1 \in 1..b)
    BY <1>a, <1>d DEF JoinedAfter
  <2> QED
    BY <1>a, <2>1, <2>2
<1>1. CASE EnableWrite(e)
  <2>1. setup'[e].version = 1
    BY <1>0, <1>1 DEF EnableWrite, NewSetup
  <2> QED
    BY <1>a, <2>1
<1>2. CASE Promote(e)
  <2> DEFINE b == pairing[e].base
  <2>1. JoinedAfter(e, b) /\ setup'[e] = Promoted(e)
    BY <1>0, <1>2 DEF Promote, Promotable, FinalizedOnce, PairingFits
  <2>2. setup'[e].version = b + 1
    BY <2>1 DEF Promoted, NewSetup
  <2> QED
    BY <1>d, <2>1, <2>2
<1>3. CASE WriteRenewed(e)
  <2>0. memory[e].pc = "renewed"
    BY <1>3 DEF WriteRenewed
  <2>1. CASE setup[e].version = memory[e].base
    <3> DEFINE b == memory[e].base
    <3>1. /\ b \in 1..Version /\ chain[b + 1].kind = "renew"
          /\ setup'[e].version = b + 1 /\ setup'[e].pending = memory[e].pending
      BY <1>0, <1>3, <2>0, <2>1 DEF WriteRenewed, PinNext, FlowFits
    <3>2. CASE k <= b
      BY <2>0, <3>1, <3>2 DEF RenewalsRemember
    <3>3. CASE k > b
      <4>1. k # b + 1
        BY <3>1
      <4> QED
        BY <1>a, <3>1, <3>3, <4>1
    <3> QED
      BY <1>0, <1>a, <3>2, <3>3
  <2>2. CASE setup[e].version # memory[e].base
    BY <1>3, <1>b, <2>2 DEF WriteRenewed, HasSetup
  <2> QED
    BY <2>1, <2>2
<1>4. CASE WriteRevoked(e)
  <2>1. CASE setup[e].version = memory[e].base
    <3> DEFINE b == memory[e].base + 1
    <3>1. /\ b \in 1..Version
          /\ setup'[e].version = b /\ setup'[e].pending = chain[b].epoch
      BY <1>0, <1>4, <2>1 DEF WriteRevoked, PinNext, FlowFits
    <3>2. CASE k <= b
      <4>1. chain[k].epoch <= chain[b].epoch
        BY <3>1, <3>2 DEF EpochsGrow
      <4>2. chain[b].epoch = Epoch
        BY <1>0, <1>c, <3>1, <4>1
      <4> QED
        BY <3>1, <4>2
    <3>3. CASE k > b
      BY <3>1, <3>3
    <3> QED
      BY <1>0, <1>a, <3>2, <3>3
  <2>2. CASE setup[e].version # memory[e].base
    BY <1>4, <1>b, <2>2 DEF WriteRevoked, HasSetup
  <2> QED
    BY <2>1, <2>2
<1>5. CASE WriteRecovered(e)
  <2> DEFINE b == memory[e].base
  <2>1. JoinedAfter(e, b) /\ setup'[e] = NewSetup(b + 1)
    BY <1>0, <1>5 DEF WriteRecovered, Answered, FlowFits
  <2> QED
    BY <1>d, <2>1 DEF NewSetup
<1>6. ASSUME HasSetup(e), NEW v, v = setup[e].version + 1, v \in 1..Version,
             setup'[e].version = v, setup'[e].pending = setup[e].pending,
             chain[v].epoch = chain[setup[e].version].epoch
      PROVE  setup'[e].version < k \/ setup'[e].pending = Epoch
  <2>1. setup[e].version \in 1..Version
    BY <1>0, <1>6 DEF SetupFits
  <2>2. k # v
    <3> SUFFICES ASSUME k = v PROVE FALSE
      OBVIOUS
    <3>1. chain[k].epoch = chain[k - 1].epoch + 1
      BY <1>a DEF KindsFit
    <3>2. k - 1 = setup[e].version
      BY <1>0, <1>6
    <3>3. chain[k - 1].epoch \in Nat
      BY <1>c, <2>1, <3>2
    <3> QED
      BY <1>6, <3>1, <3>2, <3>3
  <2> QED
    BY <1>0, <1>6, <1>a, <1>b, <2>2
<1>7. CASE Reconcile(e) /\ AdoptSameEpoch(e)
  <2>1. setup[e].version + 1 \in 1..Version
        /\ Head(ChangesAfter(e)) = chain[setup[e].version + 1]
    BY <1>7, NextManifest DEF Reconcile
  <2>2. /\ setup'[e].version = setup[e].version + 1 /\ setup'[e].pending = setup[e].pending
    BY <1>0, <1>7 DEF AdoptSameEpoch, PinNext
  <2> QED
    BY <1>6, <1>7, <2>1, <2>2 DEF Reconcile, AdoptSameEpoch
<1>8. CASE Reconcile(e) /\ AdoptNextEpoch(e)
  <2> DEFINE v == setup[e].version + 1
             next == chain[v]
  <2>1. v \in 1..Version /\ Head(ChangesAfter(e)) = next /\ setup[e].version \in 1..Version
    BY <1>0, <1>8, NextManifest DEF Reconcile, SetupFits
  <2>2. PICK s \in KeyEnvelope(e, next.epoch) :
               PinNext(e, {next.epoch}, Owes(e, s.from, next.epoch))
    BY <1>8, <2>1 DEF AdoptNextEpoch
  <2>3. next.epoch = chain[setup[e].version].epoch + 1
    BY <1>8, <2>1 DEF AdoptNextEpoch
  <2>4. /\ setup'[e].version = v
        /\ setup'[e].pending = Owes(e, s.from, next.epoch)
    BY <1>0, <2>2 DEF PinNext
  <2>5. CASE k = v
    <3>1. s \in envelope /\ s.epoch = chain[k].epoch
      BY <2>2, <2>5 DEF KeyEnvelope
    <3>2. s.from = e
      BY <1>a, <3>1 DEF EnvelopesFit
    <3> QED
      BY <2>4, <2>5, <3>2 DEF Owes
  <2>6. CASE k < v
    <3>1. k <= setup[e].version
      BY <1>0, <1>a, <2>6
    <3>2. chain[k].epoch <= chain[setup[e].version].epoch
      BY <2>1, <3>1 DEF EpochsGrow
    <3>3. next.epoch <= Epoch /\ chain[setup[e].version].epoch \in Nat
      BY <1>c, <2>1
    <3> QED
      BY <1>0, <2>3, <3>2, <3>3
  <2>7. CASE v < k
    BY <2>4, <2>7
  <2> QED
    BY <1>0, <1>a, <2>5, <2>6, <2>7
<1>9. CASE ReconcileManifest(e)
  <2>1. setup[e].version + 1 \in 1..Version
    BY <1>9, NextManifest DEF ReconcileManifest
  <2>2. setup[e].version + 1 \in setup[e].version + 1 .. Version
    BY <1>0, <2>1
  <2>3. chain[setup[e].version + 1].epoch = chain[setup[e].version].epoch
    BY <1>9, <2>2 DEF ReconcileManifest
  <2>4. /\ setup'[e].version = setup[e].version + 1 /\ setup'[e].pending = setup[e].pending
    BY <1>0, <1>9 DEF ReconcileManifest, PinNext
  <2> QED
    BY <1>6, <1>9, <2>1, <2>3, <2>4 DEF ReconcileManifest
<1>10. CASE UploadSnapshot(e)
  BY <1>10 DEF UploadSnapshot
<1>11. CASE Forget(e)
  BY <1>0, <1>11 DEF Forget
<1> QED
  BY <1>1, <1>2, <1>3, <1>4, <1>5, <1>7, <1>8, <1>9, <1>10, <1>11 DEF SetupStep, Reconcile

\* The obligation is kept until a snapshot of the epoch is stored.
LEMMA RevokerOwesStep ==
    ASSUME TypeOK, DevicesFit, RowsFit, EpochsGrow, KindsFit, ChainAuthorized, EnvelopesFit,
           RenewalsRemember, RevokerOwesSnapshot, [Next]_vars
    PROVE  RevokerOwesSnapshot'
<1> SUFFICES ASSUME cloud' \notin {0, Epoch'}, NEW k \in 1..Version',
                    chain'[k].kind = "revoke", chain'[k].epoch = Epoch',
                    chain'[k].by \in Active', setup'[chain'[k].by] # NoSetup
             PROVE  \/ setup'[chain'[k].by].version < k
                    \/ setup'[chain'[k].by].pending = Epoch'
  BY DEF RevokerOwesSnapshot, HasSetup
<1>0. Version \in Nat /\ Epoch \in Nat /\ Active \subseteq Devices
  BY ChainType, LastManifest
<1>1. CASE UNCHANGED <<chain, cloud>> /\ Epoch' = Epoch /\ Version' = Version
  <2> DEFINE a == chain[k].by
  <2>1. /\ k \in 1..Version /\ chain[k].kind = "revoke" /\ chain[k].epoch = Epoch
        /\ a \in Active /\ a \in Devices /\ cloud \notin {0, Epoch} /\ setup'[a] # NoSetup
    BY <1>0, <1>1 DEF Active, Current, Version
  <2>2. CASE setup'[a] = setup[a]
    <3>1. setup[a].version < k \/ setup[a].pending = Epoch
      BY <2>1, <2>2 DEF RevokerOwesSnapshot, HasSetup
    <3> QED
      BY <1>1, <2>2, <3>1
  <2>3. CASE SetupStep(a)
    <3>1. setup'[a].version < k \/ setup'[a].pending = Epoch
      BY <1>1, <2>1, <2>3, ObligationWritten
    <3> QED
      BY <1>1, <3>1
  <2> QED
    BY <2>1, <2>2, <2>3, SetupFrame
<1>2. ASSUME UNCHANGED <<cloud, setup>>, chain = <<>> \/ Epoch' = Epoch,
             NEW m, Stores(m), Follows(m), m.kind # "revoke"
      PROVE  \/ setup'[chain'[k].by].version < k
             \/ setup'[chain'[k].by].pending = Epoch'
  <2>1. /\ Version' = Version + 1 /\ chain'[Version + 1] = m /\ Active' = m.active
        /\ \A j \in 1..Version : chain'[j] = chain[j]
    BY <1>2, StoredIsCurrent DEF Stores
  <2>2. k # Version + 1
    BY <1>2, <2>1
  <2>3. k \in 1..Version /\ chain'[k] = chain[k] /\ chain # <<>> /\ Epoch' = Epoch
    BY <1>0, <1>2, <2>1, <2>2, ChainType
  <2> DEFINE a == chain[k].by
  <2>4. k \in 2..Version /\ a \in Members(k - 1)
    BY <2>3, RevokerWasMember
  <2>5. a \in Active
    <3>1. Members(k - 1) \cap m.active \subseteq Active
      <4>1. k - 1 \in 1..Version
        BY <1>0, <2>4
      <4> QED
        BY <1>2, <2>3, <4>1, FollowsMembers
    <3> QED
      BY <2>1, <2>3, <2>4, <3>1
  <2>6. setup[a].version < k \/ setup[a].pending = Epoch
    BY <1>2, <2>3, <2>5 DEF RevokerOwesSnapshot, HasSetup
  <2> QED
    BY <1>2, <2>3, <2>6
<1>3. ASSUME NEW d \in Devices, RevokeDevice(d)
      PROVE  \/ setup'[chain'[k].by].version < k
             \/ setup'[chain'[k].by].pending = Epoch'
  <2>1. /\ Version' = Version + 1 /\ chain'[Version + 1].by = d /\ Epoch' = Epoch + 1
        /\ \A j \in 1..Version : chain'[j] = chain[j]
    BY <1>3, RevokeSeals
  <2>2. k = Version + 1
    <3> SUFFICES ASSUME k # Version + 1 PROVE FALSE
      OBVIOUS
    <3>1. k \in 1..Version /\ chain'[k] = chain[k]
      BY <1>0, <2>1
    <3>2. chain[k].epoch \in Nat /\ chain[k].epoch <= Epoch
      BY <3>1, EpochsBelow
    <3> QED
      BY <1>0, <2>1, <3>1, <3>2
  <2>3. setup' = setup
    BY <1>3 DEF RevokeDevice, local
  <2>4. setup[d].version \in 1..Version
    BY <2>1, <2>2, <2>3 DEF DevicesFit, SetupFits, HasSetup
  <2> QED
    BY <1>0, <2>1, <2>2, <2>3, <2>4
<1> QED
  BY <1>1, <1>2, <1>3, CloudFrame

\* A renewal under way remembers the obligation.
LEMMA RenewalsStep ==
    ASSUME TypeOK, DevicesFit, RowsFit, EpochsGrow, KindsFit, RenewalsRemember,
           RevokerOwesSnapshot, [Next]_vars
    PROVE  RenewalsRemember'
<1> USE DEF At
<1> SUFFICES ASSUME NEW a \in Devices, memory'[a].pc \in {"renewing", "renewed"},
                    cloud' \notin {0, Epoch'}, NEW k \in 1..Version',
                    k <= memory'[a].base, chain'[k].kind = "revoke",
                    chain'[k].by = a, chain'[k].epoch = Epoch'
             PROVE  memory'[a].pending = Epoch'
  BY DEF RenewalsRemember
<1>0. /\ Version \in Nat /\ Epoch \in Nat
      /\ memory \in [Devices -> FlowRecords] /\ memory[a] \in FlowRecords
      /\ FlowFits(a)
  BY ChainType, LastManifest DEF TypeOK, FlowRecords, DevicesFit
\* A flow that was under way
<1>1. CASE /\ memory[a].pc \in {"renewing", "renewed"}
           /\ memory'[a].base = memory[a].base /\ memory'[a].pending = memory[a].pending
  <2>1. memory[a].base \in 1..Version
    BY <1>0, <1>1 DEF FlowFits
  <2>2. k \in 1..Version /\ k <= memory[a].base
    BY <1>0, <1>1, <2>1
  <2>3. CASE UNCHANGED <<chain, cloud>> /\ Epoch' = Epoch
    BY <1>1, <2>2, <2>3 DEF RenewalsRemember
  <2>4. ASSUME UNCHANGED cloud, chain = <<>> \/ Epoch' = Epoch,
               NEW m, Stores(m), Follows(m), m.kind # "revoke"
        PROVE  memory'[a].pending = Epoch'
    <3>1. chain'[k] = chain[k] /\ Epoch' = Epoch
      BY <2>2, <2>4, ChainType DEF Stores
    <3> QED
      BY <1>1, <2>2, <2>4, <3>1 DEF RenewalsRemember
  <2>5. ASSUME NEW d \in Devices, RevokeDevice(d)
        PROVE  memory'[a].pending = Epoch'
    <3>1. chain'[k] = chain[k] /\ Epoch' = Epoch + 1
      BY <2>2, <2>5, RevokeSeals
    <3>2. chain[k].epoch \in Nat /\ chain[k].epoch <= Epoch
      BY <2>2, EpochsBelow
    <3> QED
      BY <1>0, <3>1, <3>2
  <2> QED
    BY <2>3, <2>4, <2>5, CloudFrame
\* A flow that begins.
<1>2. CASE PrepareRenewal(a)
  <2>1. PICK x \in Active :
          memory' = [memory EXCEPT ![a] = [Idle EXCEPT !.pc = "renewing", !.x = x,
                              !.base = Version, !.pending = setup[a].pending]]
    BY <1>2 DEF PrepareRenewal
  <2>2. /\ memory'[a].base = Version /\ memory'[a].pending = setup[a].pending
        /\ UNCHANGED <<chain, cloud>> /\ Epoch' = Epoch /\ Version' = Version
        /\ HasSetup(a) /\ setup[a].version = Version /\ a \in Active
    BY <1>0, <1>2, <2>1 DEF Idle, PrepareRenewal, tables, Epoch, Current, Version, UpToDate,
         Authenticated, SessionOpens, ChallengeHolds, IsMember
  <2>3. setup[a].version < k \/ setup[a].pending = Epoch
    BY <2>2 DEF RevokerOwesSnapshot
  <2> QED
    BY <1>0, <2>2, <2>3
<1>3. CASE RenewDevice(a)
  <2>1. /\ memory[a].pc = "renewing"
        /\ memory'[a].base = memory[a].base /\ memory'[a].pending = memory[a].pending
    BY <1>0, <1>3 DEF RenewDevice, Goto, FlowRecords
  <2> QED
    BY <1>1, <2>1
<1>4. CASE memory'[a] = memory[a]
  BY <1>1, <1>4
<1>5. ASSUME NEW pc, NEW x, Begin(a, pc, x)
      PROVE  pc \in {"renewing", "renewed"}
  BY <1>5, BeginFlow
<1>6. ~PrepareApproval(a) /\ ~PrepareRevocation(a) /\ ~RecoverBegin(a)
  BY <1>5 DEF PrepareApproval, PrepareRevocation, RecoverBegin
<1>7. ~EnableBegin(a) /\ ~RevokeDevice(a)
  BY <1>0 DEF EnableBegin, RevokeDevice, Goto, FlowRecords
<1> QED
  BY <1>2, <1>3, <1>4, <1>6, <1>7, FlowFrame DEF FlowBegun

-----------------------------------------------------------------------------
(* The theorems.                                                           *)

\* IInv holds before a vault is created.
LEMMA InitIInv == Init => IInv
<1> SUFFICES ASSUME Init PROVE IInv
  OBVIOUS
<1>0. chain = <<>> /\ Version = 0 /\ Active = {} /\ Epoch = 0
  BY DEF Init, Version, Active, Epoch
<1>1. TypeOK
  <2>1. Approved = {} /\ Cardinality(Approved) = 0
    <3>1. Approved = {}
      BY DEF Init, Approved, NoPairing
    <3> QED
      BY <3>1, FS_EmptySet
  <2>2. chain \in Seq(Manifests)
    BY <1>0
  <2>3. /\ NoPairing \in [state : {"none", "pending", "approved", "finalized", "ended"},
                          by : Devices \cup {None}, base : Nat]
        /\ NoRecovery \in [code : Devices \cup {None}, epoch : Nat, version : Nat]
        /\ NoSetup \in [version : Nat, keys : SUBSET Nat, pending : Nat]
        /\ Idle \in [pc : Pcs, x : Devices \cup {None}, base : Nat, pending : Nat]
    BY DEF NoPairing, NoRecovery, NoSetup, Idle, Pcs
  <2> QED
    BY <2>1, <2>2, <2>3, MembershipAssumption DEF Init, TypeOK, MembershipAssumption
<1>2. EpochsGrow /\ KindsFit /\ Contiguous /\ RowsFit /\ ChainAuthorized
  BY <1>0 DEF EpochsGrow, KindsFit, Contiguous, RowsFit, ChainAuthorized
<1>3. DevicesFit /\ OneFounder
  BY <1>0 DEF Init, DevicesFit, PairingFits, FlowFits, SetupFits, OneFounder, At, HasSetup,
              Idle, NoPairing
<1>4. EnvelopesFit /\ RecoveryFits /\ RenewalsRemember
  BY <1>0 DEF Init, EnvelopesFit, RecoveryFits, RenewalsRemember, NoRecovery, Idle
<1>5. TablesAgree /\ KeysStayInside /\ RevokerOwesSnapshot
  BY <1>0 DEF Init, TablesAgree, KeysStayInside, RevokerOwesSnapshot, NoRecovery, NoSetup
<1> QED
  BY <1>1, <1>2, <1>3, <1>4, <1>5 DEF IInv

\* What is known of the chain is kept by every step.
LEMMA ChainStep ==
    ASSUME TypeOK, DevicesFit, RowsFit, EpochsGrow, KindsFit, Contiguous, ChainAuthorized,
           [Next]_vars
    PROVE  EpochsGrow' /\ KindsFit' /\ Contiguous' /\ ChainAuthorized'
<1>1. CASE UNCHANGED chain
  <2>1. Version' = Version
    BY <1>1 DEF Version
  <2>2. EpochsGrow' /\ KindsFit' /\ Contiguous'
    BY <1>1, <2>1 DEF EpochsGrow, KindsFit, Contiguous, Members
  <2>3. ChainAuthorized'
    BY <1>1, <2>1 DEF ChainAuthorized
  <2> QED
    BY <2>2, <2>3
<1>2. ASSUME NEW d \in Devices, Extends(d)
      PROVE  EpochsGrow' /\ KindsFit' /\ Contiguous' /\ ChainAuthorized'
  <2>1. PICK m : Stores(m) /\ Follows(m)
    BY <1>2, ExtendsFollows
  <2> QED
    BY <2>1, EpochsGrowStep, ContiguousStep, ChainAuthorizedStep
<1> QED
  BY <1>1, <1>2, ChainSteps

\* Every step keeps IInv.
LEMMA NextIInv == IInv /\ [Next]_vars => IInv'
<1> SUFFICES ASSUME IInv, [Next]_vars PROVE IInv'
  OBVIOUS
<1> USE DEF IInv
<1>1. TypeOK'
  BY NextType
<1>2. EpochsGrow' /\ KindsFit' /\ Contiguous' /\ ChainAuthorized'
  BY ChainStep
<1>3. RowsFit' /\ TablesAgree' /\ RecoveryFits'
  BY RowsFitStep, TablesAgreeStep
<1>4. DevicesFit' /\ OneFounder'
  BY DevicesFitStep, OneFounderStep
<1>5. EnvelopesFit' /\ KeysStayInside'
  BY EnvelopesFitStep, KeysStep
<1>6. RenewalsRemember' /\ RevokerOwesSnapshot'
  BY RenewalsStep, RevokerOwesStep
<1> QED
  BY <1>1, <1>2, <1>3, <1>4, <1>5, <1>6

\* The strengthened invariant, for every set of devices and every bound: what the manifests,
\* the tables, the devices, their requests and the envelopes owe each other.
THEOREM MembershipInvariant == Spec => []IInv
<1>1. Init => IInv
  BY InitIInv
<1>2. IInv /\ [Next]_vars => IInv'
  BY NextIInv
<1> QED
  BY <1>1, <1>2, PTL DEF Spec

\* The variables keep their types, and no more requests are approved than the service allows.
THEOREM MembershipTypes == Spec => []TypeOK
<1>1. IInv => TypeOK
  BY DEF IInv
<1> QED
  BY <1>1, MembershipInvariant, PTL

\* Every stored manifest continues the one before it, made by a member of that one or by a
\* recovery code, whatever else was stored between the reading and the writing.
THEOREM ManifestsAuthorized == Spec => []ChainAuthorized
<1>1. IInv => ChainAuthorized
  BY DEF IInv
<1> QED
  BY <1>1, MembershipInvariant, PTL

\* The tables of the service that every request is checked against follow the manifests.
THEOREM TablesFollowManifests == Spec => []TablesAgree
<1>1. IInv => TablesAgree
  BY DEF IInv
<1> QED
  BY <1>1, MembershipInvariant, PTL

\* A key of an epoch never reaches a device that was not a member in it.
THEOREM KeysReachMembersOnly == Spec => []KeysStayInside
<1>1. IInv => KeysStayInside
  BY DEF IInv
<1> QED
  BY <1>1, MembershipInvariant, PTL

\* The device that revoked another never forgets the snapshot it owes.
THEOREM RevokerRemembers == Spec => []RevokerOwesSnapshot
<1>1. IInv => RevokerOwesSnapshot
  BY DEF IInv
<1> QED
  BY <1>1, MembershipInvariant, PTL

\* What a manifest and the next one have to do with each other.
LEMMA AuthorizedPair ==
    ASSUME KindsFit, ChainAuthorized, NEW v \in Nat, v + 1 \in 2..Version
    PROVE  /\ chain[v + 1].kind # "recover" => chain[v + 1].by \in chain[v].active
           /\ chain[v + 1].kind \in {"revoke", "recover"} <=> chain[v + 1].epoch # chain[v].epoch
           /\ chain[v + 1].kind \in {"revoke", "recover"} =>
                chain[v + 1].epoch = chain[v].epoch + 1
           /\ chain[v + 1].kind = "recover" => chain[v + 1].active \cap chain[v].active = {}
<1>1. ASSUME NEW n \in 2..Version, n = v + 1
      PROVE  /\ chain[n].kind # "recover" => chain[n].by \in chain[v].active
             /\ chain[n].kind \in {"revoke", "recover"} <=> chain[n].epoch # chain[v].epoch
             /\ chain[n].kind \in {"revoke", "recover"} => chain[n].epoch = chain[v].epoch + 1
             /\ chain[n].kind = "recover" => chain[n].active \cap chain[v].active = {}
  <2>1. n - 1 = v
    BY <1>1
  <2>2. /\ chain[n].kind # "recover" => chain[n].by \in chain[n - 1].active
        /\ chain[n].kind \in {"revoke", "recover"} <=> chain[n].epoch # chain[n - 1].epoch
    BY DEF ChainAuthorized
  <2>3. chain[n].kind \in {"revoke", "recover"} => chain[n].epoch = chain[n - 1].epoch + 1
    BY DEF KindsFit
  <2>4. chain[n].kind = "recover" => chain[n].active \cap chain[n - 1].active = {}
    BY DEF ChainAuthorized
  <2> QED
    BY <2>1, <2>2, <2>3, <2>4
<1> QED
  BY <1>1

\* A member that slept through manifests and epochs finds each next manifest naming it and
\* the key of each epoch sealed for it by a sender it can verify.
THEOREM MembersCanFollow == Spec => []NeverStranded
<1>1. IInv => NeverStranded
  <2> SUFFICES ASSUME IInv, NEW d \in Devices, HasSetup(d), Authenticated(d),
                      setup[d].version < Version
               PROVE  LET pinned == chain[setup[d].version]
                          next == chain[setup[d].version + 1] IN
                      /\ d \in next.active
                      /\ \/ next.epoch = pinned.epoch
                         \/ \E k \in KeyEnvelope(d, pinned.epoch + 1) : k.from \in pinned.active
    BY DEF NeverStranded
  <2> DEFINE v == setup[d].version
  <2>0. /\ TypeOK /\ Version \in Nat /\ v \in 1..Version /\ d \in Members(v)
    BY ChainType DEF IInv, DevicesFit, SetupFits
  <2>1. v + 1 \in 2..Version /\ chain # <<>> /\ v \in Nat
    BY <2>0, ChainType
  <2>2. d \in Members(Version) /\ Version \in 1..Version
    BY <2>0, <2>1, LastManifest DEF Authenticated, SessionOpens, ChallengeHolds, IsMember
  <2>3. d \in Members(v + 1)
    BY <2>0, <2>1, <2>2 DEF IInv, Contiguous
  <2>4. /\ chain[v + 1].kind # "recover" => chain[v + 1].by \in chain[v].active
        /\ chain[v + 1].kind \in {"revoke", "recover"} <=> chain[v + 1].epoch # chain[v].epoch
        /\ chain[v + 1].kind = "recover" => chain[v + 1].active \cap chain[v].active = {}
    BY <2>1, AuthorizedPair DEF IInv
  <2>5. CASE chain[v + 1].epoch # chain[v].epoch
    <3>1. chain[v + 1].kind = "revoke" /\ chain[v + 1].by \in chain[v].active
      BY <2>0, <2>3, <2>4, <2>5 DEF Members
    <3>2. chain[v + 1].epoch = chain[v].epoch + 1
      BY <2>1, <3>1, AuthorizedPair DEF IInv
    <3>3. [epoch |-> chain[v + 1].epoch, to |-> d, from |-> chain[v + 1].by] \in envelope
      BY <2>1, <2>3, <3>1 DEF IInv, EnvelopesFit
    <3>4. [epoch |-> chain[v + 1].epoch, to |-> d, from |-> chain[v + 1].by]
             \in KeyEnvelope(d, chain[v].epoch + 1)
      BY <3>2, <3>3 DEF KeyEnvelope
    <3> QED
      BY <2>3, <3>1, <3>4 DEF Members
  <2>6. CASE chain[v + 1].epoch = chain[v].epoch
    BY <2>3, <2>6 DEF Members
  <2> QED
    BY <2>5, <2>6
<1> QED
  BY <1>1, MembershipInvariant, PTL
=============================================================================
