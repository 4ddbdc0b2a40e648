-------------------------- MODULE MCDeviceSnapshot --------------------------
(* Instances of DeviceSnapshot for TLC: the creator a and a newcomer b. *)
EXTENDS DeviceSnapshot

CONSTANTS a, b, old, new

TwoDevices == {a, b}
\* The vault starts with an entity that b will edit; a may create another.
TwoEntities == {old, new}
MCOwner == [e \in Entities |-> IF e = old THEN b ELSE a]
OldEntities == {old}
=============================================================================
