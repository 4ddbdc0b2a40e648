------------------------------ MODULE Scheduler ------------------------------
(***************************************************************************)
(* When a page starts a sync cycle: the timers and triggers of             *)
(* src/src/features/sync/scheduler.ts, mounted by                          *)
(* src/src/features/sync/runtime/SyncRuntimeProvider.tsx, which decides    *)
(* whether a cycle has completed.  OperationSync and DeviceSnapshot say    *)
(* what a cycle does; here it uploads what is unsent, is recorded as       *)
(* complete, or fails.                                                     *)
(*                                                                         *)
(* Time is counted in ticks.  Timers and pauses hold what is left of them, *)
(* ages what has passed, up to Old.  A timer never fires early and may     *)
(* fire late.  The page is reloaded at any time; what it kept in local     *)
(* storage stays.                                                          *)
(*                                                                         *)
(* A definition X_Y is a plausible mistake in X; the specification never   *)
(* uses it.                                                                *)
(***************************************************************************)
EXTENDS Integers, Sequences, FiniteSetsExt

CONSTANTS
    None,
    Debounce,        \* LOCAL_MUTATION_DEBOUNCE_MS
    Gap,             \* MIN_AUTO_SYNC_GAP_MS
    OfflineRecheck,  \* OFFLINE_RECHECK_MS
    Period,          \* VISIBLE_SYNC_INTERVAL_MS
    ResumeStale,     \* FOREGROUND_RESUME_STALE_MS
    SuccessStale,    \* LAST_SUCCESS_STALE_MS
    RetryBackoff,    \* RETRY_BACKOFF_MS, a sequence
    BudgetBackoff,   \* BUDGET_BACKOFF_MS
    Jitter           \* how much longer than that jitter makes a backoff

Spans == {Debounce, Gap, OfflineRecheck, Period, ResumeStale, SuccessStale,
          BudgetBackoff}

ASSUME SchedulerAssumption ==
    /\ Spans \subseteq Nat \ {0} /\ Jitter \in Nat
    /\ RetryBackoff \in Seq(Nat) /\ Len(RetryBackoff) > 0
    /\ None \notin Int

VARIABLES
    page,      \* the closure of useSnapshotSyncScheduler and what the browser says
    cycle,     \* the cycle it started: idle, uploading, checking, recorded
    settling,  \* is onSettled, the refresh after a cycle, still under way?
    status,    \* the local status as last loaded: anything pending, age of success
    unsent,    \* where there are edits no cycle has uploaded: here, elsewhere
    success,   \* age of lastSuccessfulSyncAt
    stored     \* what is left of the pause kept in local storage

vars == <<page, cycle, settling, status, unsent, success, stored>>

Old == Max({ResumeStale, SuccessStale, Gap})
Longer(age) == IF age < Old THEN age + 1 ELSE Old
Shorter(left) == IF left = None \/ left = 0 THEN left ELSE left - 1

InFlight == cycle # "idle"

-----------------------------------------------------------------------------
(* Arming the one timer.                                                   *)

\* An earlier timer stays, a later one gives way.
Stays_Mistake(p, due) == p.timer # None
Stays(p, due) == p.timer # None /\ p.timer <= due

\* schedulePending, when no cycle is in flight.
SchedulePending(p, delay) ==
    LET due == IF p.online THEN Max({delay, p.allowed, Gap - p.since}) ELSE OfflineRecheck
    IN  IF ~p.pending \/ ~p.visible \/ Stays(p, due) THEN p
        ELSE [p EXCEPT !.timer = due]

\* requestRun: triggers coalesce into the one that is pending; during a cycle
\* it only waits.
RequestRun_Mistake(p, delay, flying) ==
    IF p.pending \/ flying THEN [p EXCEPT !.pending = TRUE]
    ELSE SchedulePending([p EXCEPT !.pending = TRUE], delay)
RequestRun(p, delay, flying) ==
    LET asked == [p EXCEPT !.pending = TRUE]
    IN  IF flying THEN asked ELSE SchedulePending(asked, delay)

\* The effect of a mounted scheduler: a pause kept in storage still holds, and
\* a cold start is requested.
Resumed_Mistake(kept) == 0
Resumed(kept) == kept
Mounted(visible, online, kept) ==
    RequestRun([visible |-> visible, online |-> online, pending |-> FALSE,
                timer |-> None, allowed |-> Resumed(kept), since |-> Old, fails |-> 0,
                periodic |-> IF visible THEN Period ELSE None,
                hidden |-> IF visible THEN None ELSE 0, returned |-> FALSE], 0, FALSE)

Init ==
    /\ \E visible, online \in BOOLEAN : page = Mounted(visible, online, 0)
    /\ cycle = "idle" /\ settling = FALSE
    /\ status = [pending |-> FALSE, success |-> Old]
    /\ unsent = {} /\ success = Old /\ stored = 0

-----------------------------------------------------------------------------
(* What the page meets.                                                    *)

\* An audited transaction of this page announces itself.
LocalEdit ==
    /\ unsent' = unsent \cup {"here"}
    /\ page' = RequestRun(page, Debounce, InFlight)
    /\ UNCHANGED <<cycle, settling, status, success, stored>>

\* Another tab of the device edits, and is closed.
EditElsewhere ==
    /\ unsent' = unsent \cup {"elsewhere"}
    /\ UNCHANGED <<page, cycle, settling, status, success, stored>>

GoOffline ==
    /\ page.online
    /\ page' = [page EXCEPT !.online = FALSE]
    /\ UNCHANGED <<cycle, settling, status, unsent, success, stored>>

GoOnline ==
    /\ ~page.online
    /\ page' = RequestRun([page EXCEPT !.online = TRUE, !.returned = ~page.visible],
                          0, InFlight)
    /\ UNCHANGED <<cycle, settling, status, unsent, success, stored>>

Hide ==
    /\ page.visible
    /\ page' = [page EXCEPT !.visible = FALSE, !.hidden = 0, !.timer = None,
                            !.periodic = None]
    /\ UNCHANGED <<cycle, settling, status, unsent, success, stored>>

\* shouldSyncAfterResume, by the status as it was last loaded.
SyncsAfterResume ==
    \/ page.returned \/ status.pending
    \/ status.success >= SuccessStale
    \/ page.hidden >= ResumeStale

Show ==
    /\ ~page.visible
    /\ LET p == [page EXCEPT !.visible = TRUE, !.periodic = Period]
           asked == IF SyncsAfterResume THEN RequestRun(p, 0, InFlight)
                    ELSE IF InFlight THEN p ELSE SchedulePending(p, 0)
       IN  page' = [asked EXCEPT !.hidden = None, !.returned = FALSE]
    /\ UNCHANGED <<cycle, settling, status, unsent, success, stored>>

Reload ==
    /\ \E visible \in BOOLEAN : page' = Mounted(visible, page.online, stored)
    /\ cycle' = "idle" /\ settling' = FALSE
    /\ status' = [pending |-> unsent # {}, success |-> success]
    /\ UNCHANGED <<unsent, success, stored>>

-----------------------------------------------------------------------------
(* Timers.                                                                 *)

Tick ==
    /\ page' = [page EXCEPT !.timer = Shorter(@), !.periodic = Shorter(@),
                            !.allowed = Shorter(@), !.since = Longer(@),
                            !.hidden = IF @ = None THEN None ELSE Longer(@)]
    /\ status' = [status EXCEPT !.success = Longer(@)]
    /\ success' = Longer(success) /\ stored' = Shorter(stored)
    /\ UNCHANGED <<cycle, settling, unsent>>

PeriodicFires ==
    /\ page.periodic = 0
    /\ page' = RequestRun([page EXCEPT !.periodic = Period], 0, InFlight)
    /\ UNCHANGED <<cycle, settling, status, unsent, success, stored>>

\* runPending: start, or put it off once more.
MayStart(p) == p.online /\ p.allowed = 0 /\ p.since >= Gap

TimerFires ==
    /\ page.timer = 0
    /\ LET p == [page EXCEPT !.timer = None] IN
       IF InFlight \/ ~p.pending \/ ~p.visible
       THEN page' = p /\ UNCHANGED cycle
       ELSE IF ~MayStart(p)
       THEN page' = SchedulePending(p, 0) /\ UNCHANGED cycle
       ELSE /\ page' = [p EXCEPT !.pending = FALSE, !.since = 0]
            /\ cycle' = "uploading"
    /\ UNCHANGED <<settling, status, unsent, success, stored>>

-----------------------------------------------------------------------------
(* The cycle it started.                                                   *)

\* Everything in the outbox is uploaded, and what other devices wrote applied.
Upload ==
    /\ cycle = "uploading" /\ page.online
    /\ cycle' = "checking" /\ unsent' = {}
    /\ UNCHANGED <<page, settling, status, success, stored>>

\* recordCompletedSync: only with an empty outbox.
RecordCompletedSync ==
    /\ cycle = "checking" /\ unsent = {}
    /\ cycle' = "recorded" /\ success' = 0
    /\ UNCHANGED <<page, settling, status, unsent, stored>>

\* completedAt: and it still was empty when the status was read.
Succeed ==
    /\ cycle = "recorded" /\ unsent = {}
    /\ page' = [page EXCEPT !.fails = 0, !.allowed = 0]
    /\ cycle' = "idle" /\ settling' = TRUE
    /\ stored' \in {0, stored}
    /\ UNCHANGED <<status, unsent, success>>

\* The next attempt may not start before the backoff is over, and is pending
\* from now on.
PutOff(left) ==
    [page EXCEPT !.allowed = left, !.pending = TRUE,
                 !.fails = IF @ < Len(RetryBackoff) THEN @ + 1 ELSE @]

\* A request failed, or an edit came in while the cycle ended.
Fail ==
    /\ \/ cycle \in {"uploading", "checking"}
       \/ cycle = "recorded" /\ unsent # {}
    /\ \E j \in 0..Jitter :
          page' = PutOff(RetryBackoff[Min({page.fails + 1, Len(RetryBackoff)})] + j)
    /\ cycle' = "idle" /\ settling' = TRUE
    /\ UNCHANGED <<status, unsent, success, stored>>

\* The service is at a limit; storage may not take the pause.
FailAtLimit ==
    /\ cycle \in {"uploading", "checking"} /\ page.online
    /\ \E j \in 0..Jitter :
          /\ page' = PutOff(BudgetBackoff + j)
          /\ stored' \in {BudgetBackoff + j, stored}
    /\ cycle' = "idle" /\ settling' = TRUE
    /\ UNCHANGED <<status, unsent, success>>

Loaded == [pending |-> unsent # {}, success |-> success]

\* onSettled loads the status, or fails to; then what is pending is scheduled.
Settle ==
    /\ settling
    /\ status' \in {Loaded, [pending |-> FALSE, success |-> Old]}
    /\ page' = IF InFlight THEN page ELSE SchedulePending(page, 0)
    /\ settling' = FALSE
    /\ UNCHANGED <<cycle, unsent, success, stored>>

\* The user's own button; it waits for a cycle in flight, and no pause holds it.
ManualSync ==
    /\ ~InFlight /\ page.online
    /\ unsent' = {} /\ success' = 0
    /\ status' = [pending |-> FALSE, success |-> 0]
    /\ UNCHANGED <<page, cycle, settling, stored>>

-----------------------------------------------------------------------------
Next ==
    \/ LocalEdit \/ EditElsewhere
    \/ GoOffline \/ GoOnline \/ Hide \/ Show \/ Reload
    \/ Tick \/ PeriodicFires \/ TimerFires
    \/ Upload \/ RecordCompletedSync \/ Succeed \/ Fail \/ FailAtLimit
    \/ Settle \/ ManualSync

Spec == Init /\ [][Next]_vars

\* Time passes, timers fire, and promises settle; calls may fail, but a service
\* that is asked again and again answers in the end.
Fairness ==
    /\ WF_vars(Tick) /\ WF_vars(PeriodicFires) /\ WF_vars(TimerFires)
    /\ WF_vars(Settle) /\ SF_vars(Upload)
    /\ WF_vars(RecordCompletedSync \/ Succeed \/ Fail)

FairSpec == Spec /\ Fairness

-----------------------------------------------------------------------------
(* Properties.                                                             *)

\* No trigger is dropped (docs/SYNC-ARCHITECTURE.md: "deferred rather than
\* discarded"): while the page is visible and no cycle runs or settles, what is
\* pending has a timer, and not a later one than the debounce, the gap and the
\* pause ask for (or the check for a connection, when there is none); and an
\* edit of this page that no cycle took along is pending.
TriggerHeld ==
    /\ page.pending /\ page.visible /\ ~InFlight /\ ~settling =>
          /\ page.timer # None
          /\ page.timer <= Max({Debounce, page.allowed, Gap - page.since,
                                IF page.online THEN 0 ELSE OfflineRecheck})
    /\ "here" \in unsent => page.pending \/ cycle = "uploading"

\* While local storage holds a pause the service asked for, no cycle is started
\* on its own, over failures, reloads and hours in the background.
PauseHonoured == [][cycle = "idle" /\ cycle' = "uploading" => stored = 0]_vars

\* In a page that stays visible and online, every edit is uploaded in the end,
\* those another tab left behind included.
EditsGoOut == <>[](page.visible /\ page.online) => [](unsent # {} => <>(unsent = {}))
=============================================================================
