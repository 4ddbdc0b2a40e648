--------------------------- MODULE MCUsageBudget ---------------------------
(* Instances of UsageBudget for TLC. *)
EXTENDS UsageBudget, TLC

CONSTANTS q1, q2, v1

TwoRequests == {q1, q2}
OneVault == {v1}
\* Two writes pass what three units allow, a write and a read do not.
Costs == [k \in AllKinds |-> IF k = "read" THEN 1 ELSE 2]
Ceilings == [s \in Scopes |-> 3]

Interchangeable == Permutations(Requests)
=============================================================================
