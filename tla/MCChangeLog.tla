---------------------------- MODULE MCChangeLog ----------------------------
(* Instances of ChangeLog for TLC. *)
EXTENDS ChangeLog, TLC

CONSTANTS phone, laptop, tablet, t1, t2

MCDevices == {phone, laptop, tablet}
MCFounders == {phone, laptop}
OneTab == {t1}
TwoTabs == {t1, t2}

\* The two founders, and the tabs, are interchangeable.
Interchangeable == Permutations(MCFounders) \cup Permutations(Tabs)
=============================================================================
