--------------------------- MODULE SnapshotChain ---------------------------
(***************************************************************************)
(* What the service promises about the snapshots of its vaults, without    *)
(* requests, rows or objects: a vault has one current snapshot at a time,  *)
(* and a snapshot becomes current only if it was made upon the one it      *)
(* replaces.  SnapshotStore implements it.                                 *)
(***************************************************************************)
EXTENDS Integers

CONSTANTS Vaults, Snapshots, VaultOf, None

VARIABLES
    made,      \* what each snapshot was made upon; revision 0 if not made yet
    head,      \* the current snapshot of each vault
    revision, epoch,
    open       \* is the vault active?

vars == <<made, head, revision, epoch, open>>

Unmade == [revision |-> 0, epoch |-> 0, prev |-> None]

Init ==
    /\ made = [s \in Snapshots |-> Unmade]
    /\ head = [v \in Vaults |-> None]
    /\ revision = [v \in Vaults |-> 0]
    /\ epoch = [v \in Vaults |-> 1]
    /\ open = [v \in Vaults |-> TRUE]

Upon(v) == [revision |-> revision[v] + 1, epoch |-> epoch[v], prev |-> head[v]]

Make(s) ==
    /\ made[s] = Unmade
    /\ made' = [made EXCEPT ![s] = Upon(VaultOf[s])]
    /\ UNCHANGED <<head, revision, epoch, open>>

Publish(s) ==
    LET v == VaultOf[s] IN
    /\ open[v] /\ made[s] = Upon(v)
    /\ head' = [head EXCEPT ![v] = s]
    /\ revision' = [revision EXCEPT ![v] = @ + 1]
    /\ UNCHANGED <<made, epoch, open>>

NewEpoch(v) ==
    /\ open[v]
    /\ epoch' = [epoch EXCEPT ![v] = @ + 1]
    /\ UNCHANGED <<made, head, revision, open>>

Restart(v) ==
    /\ open[v]
    /\ epoch' = [epoch EXCEPT ![v] = @ + 1]
    /\ revision' = [revision EXCEPT ![v] = 0]
    /\ head' = [head EXCEPT ![v] = None]
    /\ UNCHANGED <<made, open>>

Close(v) ==
    /\ open[v]
    /\ open' = [open EXCEPT ![v] = FALSE]
    /\ UNCHANGED <<made, head, revision, epoch>>

Forget(v) ==
    /\ ~open[v]
    /\ head' = [head EXCEPT ![v] = None]
    /\ UNCHANGED <<made, revision, epoch, open>>

Next ==
    \/ \E s \in Snapshots : Make(s) \/ Publish(s)
    \/ \E v \in Vaults : NewEpoch(v) \/ Restart(v) \/ Close(v) \/ Forget(v)

Spec == Init /\ [][Next]_vars
=============================================================================
