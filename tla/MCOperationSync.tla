-------------------------- MODULE MCOperationSync --------------------------
(* Small instances of OperationSync for TLC: two devices, an entity of the *)
(* snapshot both bootstrapped from and one that is not in it.              *)
EXTENDS OperationSync

CONSTANTS phone, laptop

MCDevices == {phone, laptop}
MCEntities == {1, 2}
MCSeeded == {1}

\* Devices are interchangeable: every action treats them alike.
DeviceSymmetry == Permutations(MCDevices)
=============================================================================
