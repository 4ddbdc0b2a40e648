----------------------------- MODULE Membership -----------------------------
(***************************************************************************)
(* Which devices belong to a vault: set-up, pairing, renewal, revocation   *)
(* with a new key epoch, and recovery.                                     *)
(*                                                                         *)
(* The service (vaults.ts, pairings.ts, devices.ts, recovery.ts, auth.ts)  *)
(* keeps a chain of signed manifests and the tables that follow from it.   *)
(* A device (lifecycle.ts, device-security-service.ts, db/sync) keeps its  *)
(* own pinned manifest and keys, and while the user is in a flow it keeps  *)
(* the rest of the flow in memory: a closed page forgets that.  A request   *)
(* takes effect in one step and its answer, first or repeated, arrives in a *)
(* later one or never.                                                     *)
(*                                                                         *)
(* A device here is an identity: device id and keys made by one flow of    *)
(* one browser.  A browser that starts a flow again makes another device.  *)
(* A recovery code is named by the device whose flow made it.              *)
(*                                                                         *)
(* A definition X_Mistake is a variant of X with a plausible mistake; the  *)
(* specification never uses it.  It shows that a property can fail.        *)
(***************************************************************************)
EXTENDS Integers, FiniteSets, Sequences

CONSTANTS
    Devices,
    None,           \* no device
    MaxVersion,     \* bound: manifests of the vault
    MaxApproved,    \* maxActivePairingsPerVault
    MaxFlows        \* bound: devices in a flow at a time

ASSUME MembershipAssumption ==
    /\ IsFiniteSet(Devices) /\ None \notin Devices
    /\ MaxVersion \in Nat \ {0} /\ MaxApproved \in Nat \ {0} /\ MaxFlows \in Nat \ {0}

VARIABLES
    chain,      \* vault_manifests, by version; vaults follows its last one
    row,        \* devices.status
    grant,      \* device_grants: the unrevoked grant of each device
    pairing,    \* pairing_requests with pairing_envelopes, by the new device
    envelope,   \* device_key_envelopes
    recovery,   \* the recovery_records row not rotated out, and its encrypted bundle
    cloud,      \* key epoch of the current snapshot, 0 without one
    setup,      \* sync tables of each device: pinned manifest, keys, metadata
    checkpoint, \* syncPairingFinalizations of each device
    memory      \* the flow each device's open page is in

tables == <<chain, row, grant, pairing, envelope, recovery, cloud>>
local == <<setup, checkpoint>>
vars == <<tables, local, memory>>

NoSetup == [version |-> 0, keys |-> {}, pending |-> 0]
NoPairing == [state |-> "none", by |-> None, base |-> 0]
NoRecovery == [code |-> None, epoch |-> 0, version |-> 0]
Idle == [pc |-> "idle", x |-> None, base |-> 0, pending |-> 0]

Version == Len(chain)
Current == chain[Version]
Active == IF chain = <<>> THEN {} ELSE Current.active
Epoch == IF chain = <<>> THEN 0 ELSE Current.epoch

Init ==
    /\ chain = <<>> /\ envelope = {} /\ cloud = 0
    /\ row = [d \in Devices |-> "none"]
    /\ grant = [d \in Devices |-> "none"]
    /\ pairing = [d \in Devices |-> NoPairing]
    /\ recovery = NoRecovery
    /\ setup = [d \in Devices |-> NoSetup]
    /\ checkpoint = {}
    /\ memory = [d \in Devices |-> Idle]

-----------------------------------------------------------------------------
(* What several handlers and flows share.                                  *)

HasSetup(d) == setup[d] # NoSetup
At(d, pc) == memory[d].pc = pc
Goto(d, pc) == memory' = [memory EXCEPT ![d].pc = pc]
\* The page of d shows no flow and starts one.
Free(d) == memory[d] = Idle /\ Cardinality({e \in Devices : memory[e] # Idle}) < MaxFlows
Begin(d, pc, x) ==
    memory' = [memory EXCEPT ![d] = [Idle EXCEPT !.pc = pc, !.x = x, !.base = Version]]
Leave(d) == memory' = [memory EXCEPT ![d] = Idle]

\* createLocalSetup, for the manifest of this version.
NewSetup(version) ==
    [version |-> version, keys |-> {chain[version].epoch}, pending |-> 0]

\* The device pins the manifest after the one it has pinned, with the keys that came with
\* it and what it then owes.
PinNext(d, keys, pending) ==
    setup' = [setup EXCEPT ![d] = [version |-> setup[d].version + 1,
                                   keys |-> setup[d].keys \cup keys, pending |-> pending]]

\* findAuthorizedDevice and hasCurrentManifestMembership.
Authorized(d) == row[d] = "active" /\ grant[d] = "valid"
IsMember(d) == d \in Active

\* A challenge is given to an authorized member, and what was read then is read again when
\* its signature comes back: to open a session, or to approve or renew a device.
ChallengeHolds(d) == Authorized(d) /\ IsMember(d)
ChallengeConsumed(d) == ChallengeHolds(d)

\* A session is opened for every flow and checked again with every request.
SessionOpens(d) == ChallengeHolds(d)
Authenticated(d) == SessionOpens(d)

\* assertExactCurrentManifest: the pinned manifest is the current one.
UpToDate(d) == HasSetup(d) /\ Authenticated(d) /\ setup[d].version = Version

\* Nothing is kept of the identity of d anywhere.
Fresh(d) ==
    /\ Free(d) /\ ~HasSetup(d) /\ d \notin checkpoint
    /\ row[d] = "none" /\ pairing[d] = NoPairing

\* A new manifest continues the current one: validateManifestTransition by the client
\* and the service, and the primary key (vault_id, manifest_version) in the batch.
Continues_Mistake(base) == Version < MaxVersion
Continues(base) == base = Version /\ Version < MaxVersion

\* A device makes the next manifest from the one it knew when its flow began.
Manifest(kind, by, epoch, active) ==
    [kind |-> kind, by |-> by, epoch |-> epoch, active |-> active]
Added(d) ==
    LET base == chain[pairing[d].base] IN
    Manifest("add", pairing[d].by, base.epoch, base.active \cup {d})
Renewed(a) ==
    LET base == chain[memory[a].base] IN
    Manifest("renew", a, base.epoch, base.active)
Revoked(a) ==
    LET base == chain[memory[a].base] IN
    Manifest("revoke", a, base.epoch + 1, base.active \ {memory[a].x})
Recovered(d) == Manifest("recover", None, chain[memory[d].base].epoch + 1, {d})

\* A transition cancels what was approved for the vault.
PairingsCancelled ==
    [d \in Devices |-> IF pairing[d].state = "approved"
                       THEN [pairing[d] EXCEPT !.state = "ended"] ELSE pairing[d]]

-----------------------------------------------------------------------------
(* The first device: EnableSyncLifecycle and handleCreateVault.            *)

\* begin and confirmRecoveryCodeSaved: keys are made and the user has saved the code.
EnableBegin(d) ==
    /\ chain = <<>> /\ Fresh(d) /\ \A e \in Devices : memory[e] = Idle
    /\ Goto(d, "registering")
    /\ UNCHANGED <<tables, local>>

\* activate sends the request; the same one again gets the same answer.
CreateVault(d) ==
    /\ At(d, "registering") /\ chain = <<>>
    /\ chain' = <<Manifest("create", d, 1, {d})>>
    /\ row' = [row EXCEPT ![d] = "active"]
    /\ grant' = [grant EXCEPT ![d] = "valid"]
    /\ recovery' = [code |-> d, epoch |-> 1, version |-> 1]
    /\ UNCHANGED <<pairing, envelope, cloud, local, memory>>

\* writeLocalSyncSetup upon the answer.
EnableWrite(d) ==
    /\ At(d, "registering") /\ chain # <<>>
    /\ setup' = [setup EXCEPT ![d] = NewSetup(1)]
    /\ Leave(d)
    /\ UNCHANGED <<tables, checkpoint>>

-----------------------------------------------------------------------------
(* Pairing, on the new device: NewDevicePairingLifecycle.                  *)

\* handleCreatePairing: sending the request again changes nothing.
CreatePairing(d) == pairing' = [pairing EXCEPT ![d].state = "pending"]

\* start
PairStart(d) ==
    /\ chain # <<>> /\ Fresh(d)
    /\ CreatePairing(d)
    /\ Goto(d, "polling")
    /\ UNCHANGED <<chain, row, grant, envelope, recovery, cloud, local>>

\* handleCancelPairing
Cancel(d) ==
    /\ pairing[d].state \in {"pending", "approved"}
    /\ pairing' = [pairing EXCEPT ![d].state = "ended"]

\* cancel and invalidatePairing: the material is dropped even if the service is not
\* reached.
CancelPairing(d) ==
    /\ At(d, "polling") /\ Leave(d)
    /\ Cancel(d) \/ UNCHANGED pairing
    /\ UNCHANGED <<chain, row, grant, envelope, recovery, cloud, local>>

\* handlePollPairing has been read, at any time since the approval was given.
Polled(d) == pairing[d].by # None

\* openApprovedPairing: a member of the manifest it extends has made the approval.
ApprovalOpens(d) == pairing[d].by \in chain[pairing[d].base].active

\* stagePairingFinalization: the set-up and the signed request, before it is sent.
Stage(d) == checkpoint' = checkpoint \cup {d}

\* poll and confirmSas
ConfirmSas(d) ==
    /\ At(d, "polling") /\ Polled(d) /\ ApprovalOpens(d)
    /\ Stage(d)
    /\ Goto(d, "finalizing")
    /\ UNCHANGED <<tables, setup>>

\* resumeFinalization on a page opened again.
ResumeFinalization(d) ==
    /\ d \in checkpoint /\ Free(d) /\ ~HasSetup(d)
    /\ Goto(d, "finalizing")
    /\ UNCHANGED <<tables, local>>

\* handleFinalizePairing: one batch adds the device, if nothing has changed the manifest
\* since the approval.  The same request again gets the stored answer.
FinalizePairing(d) ==
    /\ At(d, "finalizing")
    /\ pairing[d].state = "approved" /\ Continues(pairing[d].base)
    /\ pairing' = [pairing EXCEPT ![d].state = "finalized"]
    /\ chain' = Append(chain, Added(d))
    /\ row' = [row EXCEPT ![d] = "active"]
    /\ grant' = [grant EXCEPT ![d] = "valid"]
    /\ UNCHANGED <<envelope, recovery, cloud, local, memory>>

\* promotePairingFinalizationSetup: once the service has answered, set-up written and
\* checkpoint removed at once.
FinalizedOnce(d) == pairing[d].state = "finalized"      \* exactFinalizedPairing
Promotable(d) == At(d, "finalizing") /\ FinalizedOnce(d)

Promoted(d) == [NewSetup(pairing[d].base) EXCEPT !.version = @ + 1]

Promote(d) ==
    /\ Promotable(d)
    /\ setup' = [setup EXCEPT ![d] = Promoted(d)]
    /\ checkpoint' = checkpoint \ {d}
    /\ Leave(d)
    /\ UNCHANGED <<tables>>

-----------------------------------------------------------------------------
(* Pairing, on the device that approves: ExistingDevicePairingLifecycle.   *)

\* handleInspectPairing, with the claim token that the new device shows.
Inspectable(d) == pairing[d].state = "pending" /\ d \notin Active

\* prepare and the checks of handleApprovePairing: the approval is made upon the current
\* manifest for a pending request.
PrepareApproval(a) ==
    /\ Free(a) /\ UpToDate(a) /\ ChallengeConsumed(a)
    /\ \E d \in Devices : Inspectable(d) /\ Begin(a, "approving", d)
    /\ UNCHANGED <<tables, local>>

Approved == {d \in Devices : pairing[d].state = "approved"}
HasRoom == Cardinality(Approved) < MaxApproved

\* The batch of handleApprovePairing checks the request and the number of approved
\* ones, and no longer the manifest or the authorizer.
CommitApproval(a) ==
    LET d == memory[a].x IN
    /\ At(a, "approving") /\ Leave(a)
    /\ IF Inspectable(d) /\ HasRoom
       THEN pairing' = [pairing EXCEPT ![d] = [state |-> "approved", by |-> a,
                                               base |-> memory[a].base]]
       ELSE UNCHANGED pairing
    /\ UNCHANGED <<chain, row, grant, envelope, recovery, cloud, local>>

\* The scheduled cleanup deletes a finalized request an hour later, which only a device
\* that has not had its answer notices.
CleanedUp(d) == pairing[d].state = "finalized" /\ d \in checkpoint

\* A request ends: its five minutes pass, the fifth wrong claim token cancels it, or it is
\* deleted.
EndPairing(d) ==
    /\ pairing[d].state \in {"pending", "approved"} \/ CleanedUp(d)
    /\ pairing' = [pairing EXCEPT ![d].state = "ended"]
    /\ UNCHANGED <<chain, row, grant, envelope, recovery, cloud, local, memory>>

-----------------------------------------------------------------------------
(* Following the chain: reconcileKeyEpoch, one manifest at a time.         *)

\* handleGetCurrentDeviceKeyEnvelope for the epoch asked for.
KeyEnvelope(d, epoch) == {k \in envelope : k.to = d /\ k.epoch = epoch}

\* handleGetManifestChanges and collectVerifiedManifestChain: what follows the pinned
\* manifest, up to the current one.
ChangesAfter(d) == SubSeq(chain, setup[d].version + 1, Version)

\* adoptSameEpochManifest.
AdoptSameEpoch(d) ==
    LET next == Head(ChangesAfter(d)) IN
    /\ next.epoch = chain[setup[d].version].epoch
    /\ PinNext(d, {}, setup[d].pending)

\* adoptNextKeyEpoch: the sender is a member of the manifest pinned so far.  The
\* device that made the new epoch owes the service a snapshot under it.
Owes_Mistake(d, sender, epoch) == setup[d].pending
Owes(d, sender, epoch) == IF sender = d THEN epoch ELSE setup[d].pending

AdoptNextEpoch(d) ==
    LET pinned == chain[setup[d].version]
        next == Head(ChangesAfter(d)) IN
    /\ next.epoch = pinned.epoch + 1
    /\ \E k \in KeyEnvelope(d, next.epoch) :
          /\ k.from \in pinned.active
          /\ PinNext(d, {next.epoch}, Owes(d, k.from, next.epoch))

Reconcile(d) ==
    /\ HasSetup(d) /\ Authenticated(d) /\ ChangesAfter(d) # <<>>
    /\ d \in Head(ChangesAfter(d)).active
    /\ AdoptSameEpoch(d) \/ AdoptNextEpoch(d)
    /\ UNCHANGED <<tables, checkpoint, memory>>

\* SnapshotSyncService.#reconcileManifest: a snapshot cycle that meets newer manifests pins
\* them one by one, if none of them begins an epoch.
ReconcileManifest(d) ==
    /\ HasSetup(d) /\ Authenticated(d) /\ ChangesAfter(d) # <<>>
    /\ \A k \in setup[d].version + 1 .. Version :
          chain[k].epoch = chain[setup[d].version].epoch /\ d \in chain[k].active
    /\ PinNext(d, {}, setup[d].pending)
    /\ UNCHANGED <<tables, checkpoint, memory>>

-----------------------------------------------------------------------------
(* Renewal of an authorization: renewDevice and handleRenewDevice.         *)

PrepareRenewal(a) ==
    /\ Free(a) /\ UpToDate(a)
    /\ \E x \in Active :
          memory' = [memory EXCEPT ![a] = [Idle EXCEPT !.pc = "renewing", !.x = x,
                              !.base = Version, !.pending = setup[a].pending]]
    /\ UNCHANGED <<tables, local>>

RenewDevice(a) ==
    /\ At(a, "renewing") /\ Authenticated(a) /\ ChallengeConsumed(a)
    /\ Continues(memory[a].base)
    /\ chain' = Append(chain, Renewed(a))
    /\ grant' = [grant EXCEPT ![memory[a].x] = "valid"]
    /\ Goto(a, "renewed")
    /\ UNCHANGED <<row, pairing, envelope, recovery, cloud, local>>

\* writeAdvancedLocalSyncSetup: only upon the manifest the renewal was made from; the
\* pending rotation is the one read before the request.
WriteRenewed(a) ==
    /\ At(a, "renewed") /\ Leave(a)
    /\ IF setup[a].version = memory[a].base THEN PinNext(a, {}, memory[a].pending)
                                             ELSE UNCHANGED setup
    /\ UNCHANGED <<tables, checkpoint>>

-----------------------------------------------------------------------------
(* Secure revocation: secureRevokeDevice and handleSecureRevokeDevice.     *)

\* openRecoveryAuthority, with the code the user types in: the bundle must be of the epoch
\* and the chain that the device has.
OpensAuthority(a) == recovery.epoch = chain[setup[a].version].epoch

\* rotationBlockers; the consent to upload, given once, is taken as given.
PrepareRevocation(a) ==
    /\ Free(a) /\ UpToDate(a) /\ setup[a].pending = 0 /\ OpensAuthority(a)
    /\ \E x \in Active \ {a} : Begin(a, "revoking", x)
    /\ UNCHANGED <<tables, local>>

\* createDeviceKeyEnvelopes: one for every device of the new manifest.
KeyEnvelopes_Mistake(a, x) == [epoch : {Epoch + 1}, to : Active, from : {a}]
KeyEnvelopes_Missing(a, x) == [epoch : {Epoch + 1}, to : Active \ {x, a}, from : {a}]
KeyEnvelopes(a, x) == [epoch : {Epoch + 1}, to : Active \ {x}, from : {a}]

\* The recovery code opens a record not rotated out, with a challenge given under the
\* manifest that is still the current one: authorizeRecoveryCapability.
CapabilityHolds(base) == recovery.code # None /\ base = Version

\* The recovery record that goes with the new manifest; the code stays.
RecoveryAfter(a) ==
    [recovery EXCEPT !.epoch = Revoked(a).epoch, !.version = memory[a].base + 1]

\* handleSecureRevokeDevice: its checks, and the batch that writes manifest, device,
\* grants, pairings, recovery record and envelopes.  The current snapshot stays.
Revocable(a) ==
    Authenticated(a) /\ CapabilityHolds(memory[a].base) /\ Continues(memory[a].base)

RevokeDevice(a) ==
    LET x == memory[a].x IN
    /\ At(a, "revoking") /\ Revocable(a)
    /\ chain' = Append(chain, Revoked(a))
    /\ row' = [row EXCEPT ![x] = "revoked"]
    /\ grant' = [grant EXCEPT ![x] = "none"]
    /\ pairing' = PairingsCancelled
    /\ recovery' = RecoveryAfter(a)
    /\ envelope' = envelope \cup KeyEnvelopes(a, x)
    /\ Goto(a, "revoked")
    /\ UNCHANGED <<cloud, local>>

\* writeRotatedLocalSyncSetup.
WriteRevoked(a) ==
    LET epoch == chain[memory[a].base + 1].epoch IN
    /\ At(a, "revoked") /\ Leave(a)
    /\ IF setup[a].version = memory[a].base THEN PinNext(a, {epoch}, epoch)
                                             ELSE UNCHANGED setup
    /\ UNCHANGED <<tables, checkpoint>>

-----------------------------------------------------------------------------
(* Recovery on a new device: RecoverSyncLifecycle and handleCompleteRecovery. *)

\* handleRecoveryChallenge
ActiveRecovery == recovery.code # None

\* handleFetchRecoveryBundle: the manifests from the one the bundle is bound to, to the
\* current one, in pages.
BundleManifests == SubSeq(chain, recovery.version, Version)

\* collectRecoveryBundle and validateRecoveryChain: they are all of the bundle's epoch.
BundleReaches ==
    \A k \in 1..Len(BundleManifests) : BundleManifests[k].epoch = recovery.epoch

\* begin: the challenge, the bundle and its manifests, and the current snapshot, opened
\* with the key in the bundle; the new code is saved.
BundleOpensCloud == cloud \in {0, recovery.epoch}

RecoverBegin(d) ==
    /\ Fresh(d) /\ ActiveRecovery /\ BundleReaches /\ BundleOpensCloud
    /\ Begin(d, "recovering", recovery.code)
    /\ UNCHANGED <<tables, local>>

\* verifyGate: the code is the one of the record not rotated out.
GateOpens(code) == recovery.code = code

\* handleCompleteRecovery: its checks, and the batch that writes manifest, devices, grants,
\* pairings, recovery record and snapshot pointer.
Completes(d) == GateOpens(memory[d].x) /\ Continues(memory[d].base)

GrantsAfterRecovery_Mistake(d) == [grant EXCEPT ![d] = "valid"]
GrantsAfterRecovery(d) == [e \in Devices |-> IF e = d THEN "valid" ELSE "none"]

CompleteRecovery(d) ==
    /\ At(d, "recovering") /\ Completes(d)
    /\ chain' = Append(chain, Recovered(d))
    /\ row' = [e \in Devices |-> IF e = d THEN "active"
                                 ELSE IF row[e] = "active" THEN "revoked" ELSE row[e]]
    /\ grant' = GrantsAfterRecovery(d)
    /\ pairing' = PairingsCancelled
    /\ recovery' = [code |-> d, epoch |-> Epoch + 1, version |-> Version + 1]
    /\ cloud' = 0
    /\ UNCHANGED <<envelope, local, memory>>

\* The service has completed the request; completedRecoveryRetry answers it again.
Answered(d) == row[d] # "none"

\* writeRecoveredLocalSyncSetup, or write when the vault held no snapshot.
WriteRecovered(d) ==
    /\ At(d, "recovering") /\ Answered(d) /\ Leave(d)
    /\ setup' = [setup EXCEPT ![d] = NewSetup(memory[d].base + 1)]
    /\ UNCHANGED <<tables, checkpoint>>

-----------------------------------------------------------------------------
(* Snapshots, as far as membership depends on them.                        *)

\* A device with the current manifest, which has applied the current snapshot, uploads
\* under the current epoch.  A lost answer leaves it owing a snapshot it owed.
UploadSnapshot(d) ==
    /\ UpToDate(d) /\ cloud \in {0} \cup setup[d].keys
    /\ cloud # Epoch \/ setup[d].pending # 0
    /\ cloud' = Epoch
    /\ setup' \in {setup, [setup EXCEPT ![d].pending = 0]}
    /\ UNCHANGED <<chain, row, grant, pairing, envelope, recovery, checkpoint, memory>>

-----------------------------------------------------------------------------
(* Time, and what happens to a device.                                     *)

\* The authorization of a device runs out.
ExpireGrant(d) ==
    /\ grant[d] = "valid" /\ grant' = [grant EXCEPT ![d] = "expired"]
    /\ UNCHANGED <<chain, row, pairing, envelope, recovery, cloud, local, memory>>

\* The page is closed, reloaded or crashes; also a flow the service refuses.
Crash(d) ==
    /\ memory[d] # Idle /\ Leave(d)
    /\ UNCHANGED <<tables, local>>

\* disableSyncOnThisDevice, or the device is lost; the service is not told.
Forget(d) ==
    /\ HasSetup(d) /\ setup' = [setup EXCEPT ![d] = NoSetup]
    /\ checkpoint' = checkpoint \ {d} /\ Leave(d)
    /\ UNCHANGED <<tables>>

FlowStep(d) ==
    \/ EnableBegin(d) \/ CreateVault(d) \/ EnableWrite(d)
    \/ PairStart(d) \/ CancelPairing(d) \/ ConfirmSas(d)
    \/ ResumeFinalization(d) \/ FinalizePairing(d) \/ Promote(d) \/ CommitApproval(d)
    \/ RenewDevice(d) \/ WriteRenewed(d) \/ RevokeDevice(d) \/ WriteRevoked(d)
    \/ RecoverBegin(d) \/ CompleteRecovery(d) \/ WriteRecovered(d)
    \/ PrepareApproval(d) \/ PrepareRenewal(d) \/ PrepareRevocation(d)

Next ==
    \E d \in Devices :
        \/ FlowStep(d) \/ Reconcile(d) \/ ReconcileManifest(d) \/ UploadSnapshot(d)
        \/ EndPairing(d) \/ ExpireGrant(d) \/ Crash(d) \/ Forget(d)

Spec == Init /\ [][Next]_vars

-----------------------------------------------------------------------------
(* Properties.                                                             *)

Pcs == {"idle", "registering", "polling", "finalizing", "approving", "renewing",
        "renewed", "revoking", "revoked", "recovering"}
Manifests == [kind : {"create", "add", "renew", "revoke", "recover"}, by : Devices \cup {None},
              epoch : Nat, active : SUBSET Devices]

\* The types of the variables, and no more approved requests than the service allows.
TypeOK ==
    /\ chain \in Seq(Manifests)
    /\ row \in [Devices -> {"none", "active", "revoked"}]
    /\ grant \in [Devices -> {"none", "valid", "expired"}]
    /\ pairing \in [Devices -> [state : {"none", "pending", "approved", "finalized", "ended"},
                                by : Devices \cup {None}, base : Nat]]
    /\ envelope \subseteq [epoch : Nat, to : Devices, from : Devices]
    /\ recovery \in [code : Devices \cup {None}, epoch : Nat, version : Nat]
    /\ cloud \in Nat
    /\ setup \in [Devices -> [version : Nat, keys : SUBSET Nat, pending : Nat]]
    /\ checkpoint \subseteq Devices
    /\ memory \in [Devices -> [pc : Pcs, x : Devices \cup {None}, base : Nat,
                               pending : Nat]]
    /\ Cardinality(Approved) <= MaxApproved

\* Every manifest after the first was made by a recovery code or by a member of the one
\* before it, changes the members and the epoch as its kind says, and nobody who has
\* left ever comes back.  The author, the request and the members it was made for are
\* read in several steps and requests, on two devices, before it is stored.
ChainAuthorized ==
    \A k \in 2..Version :
        LET old == chain[k - 1]
            new == chain[k] IN
        /\ new.kind # "recover" => new.by \in old.active
        /\ new.kind \in {"revoke", "recover"} <=> new.epoch # old.epoch
        /\ CASE new.kind = "add" -> old.active \subseteq new.active
             [] new.kind = "renew" -> new.active = old.active
             [] new.kind = "revoke" -> new.active \subseteq old.active
             [] new.kind = "recover" -> new.active \cap old.active = {}
        /\ Cardinality(new.active \ old.active) = IF new.kind \in {"add", "recover"} THEN 1
                                                 ELSE 0
        /\ \A j \in 1..(k - 2) : chain[j].active \cap new.active \subseteq old.active

\* The tables, which every request is checked against, say what the manifest says: a
\* device is active exactly if it is a member, only a member holds an authorization and
\* the recovery bundle holds the key of the current epoch.
TablesAgree ==
    /\ \A d \in Devices :
          /\ row[d] = "active" <=> d \in Active
          /\ grant[d] # "none" => d \in Active
    /\ recovery.epoch = Epoch
    /\ chain # <<>> => chain[recovery.version].epoch = Epoch

\* A key of an epoch is on a device, or in an envelope for it, only if the device was a
\* member in that epoch: a revoked device never gets a later key, whichever flow of it
\* or about it was under way.
KeysStayInside ==
    LET MemberIn(d, epoch) == \E k \in 1..Version :
            chain[k].epoch = epoch /\ d \in chain[k].active IN
    /\ \A d \in Devices : \A epoch \in setup[d].keys : MemberIn(d, epoch)
    /\ \A k \in envelope : MemberIn(k.to, k.epoch)

\* While the cloud holds no snapshot of the epoch that a revocation began, the device that
\* revoked has yet to pin that manifest or knows that it owes the snapshot: a closed page
\* or a lost answer does not lose the obligation.
RevokerOwesSnapshot ==
    cloud \notin {0, Epoch} =>
        \A k \in 1..Version :
            LET a == chain[k].by IN
            chain[k].kind = "revoke" /\ chain[k].epoch = Epoch /\ a \in Active
                /\ HasSetup(a)
            => setup[a].version < k \/ setup[a].pending = Epoch

\* A member that is set up, with a valid authorization, can always follow the chain to its
\* end, through all the manifests and epochs it has slept through: the next manifest
\* still names it and the key it needs awaits it, from a sender it can verify.
NeverStranded ==
    \A d \in Devices :
        HasSetup(d) /\ Authenticated(d) /\ setup[d].version < Version =>
            LET pinned == chain[setup[d].version]
                next == chain[setup[d].version + 1] IN
            /\ d \in next.active
            /\ \/ next.epoch = pinned.epoch
               \/ \E k \in KeyEnvelope(d, pinned.epoch + 1) : k.from \in pinned.active

=============================================================================
