-------------------------- MODULE MCSnapshotStore --------------------------
(* Instances of SnapshotStore for TLC. *)
EXTENDS SnapshotStore, TLC

CONSTANTS v1, s1, s2, r1, r2

MCVaults == {v1}
TwoSnapshots == {s1, s2}
OneRequest == {r1}
TwoRequests == {r1, r2}
MCVaultOf == [s \in Snapshots |-> v1]

\* Snapshots of one vault, and requests, are interchangeable.
Interchangeable == Permutations(Snapshots) \cup Permutations(Requests)
=============================================================================
