----------------------------- MODULE MCScheduler -----------------------------
(***************************************************************************)
(* The scheduler with every span shortened to a few ticks, in the order of *)
(* the real ones.                                                          *)
(***************************************************************************)
EXTENDS Scheduler

Backoffs == <<1, 2>>
=============================================================================
