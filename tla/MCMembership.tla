---------------------------- MODULE MCMembership ----------------------------
(* Small instances of Membership for TLC. *)
EXTENDS Membership, TLC

CONSTANTS d1, d2, d3

\* A device is named by its role only through what it does.
Symmetry == Permutations(Devices)
=============================================================================
