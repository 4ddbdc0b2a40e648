---------------------------- MODULE UsageBudget ----------------------------
(***************************************************************************)
(* The usage ledger of the service: what every request reserves before it  *)
(* works and settles afterwards, the daily buckets and rolling totals the  *)
(* ceilings are compared with, the scheduled maintenance of both, and the  *)
(* two operator tools that clear an accounting fault (budget.ts, index.ts, *)
(* metering.ts, route-registry.ts and health.ts of the worker, and         *)
(* scripts/sync-budget-reconcile-lib.mjs and sync-budget-accounting.mjs).  *)
(*                                                                         *)
(* Every D1 batch is atomic and one action; a request may stop, a batch    *)
(* may fail, and its answer may be lost, between any two of them.  The     *)
(* five metered counters behave alike, so one stands for all.              *)
(*                                                                         *)
(* A definition X_Mistake is a variant of X with a plausible mistake; the  *)
(* specification never uses it.  It shows that a property can fail.        *)
(***************************************************************************)
EXTENDS Integers, FiniteSets, Functions

CONSTANTS
    Requests,         \* request ids, each used once
    Vaults,           \* per-vault scopes of the ledger
    Service,          \* the global scope
    None,
    Kinds,            \* kinds of route, see Access
    Cost,             \* what a route of each kind reserves
    Uses,             \* what a request may turn out to use
    RollingCeiling,   \* STAGING_BUDGETS.global and .perVault, by scope
    DailyCeiling,     \* the same, PerUtcDay
    Window,           \* rollingWindowDays
    Retention,        \* days a settled reservation is kept
    Overlaps,         \* whether a reconciliation may fall inside the job
    MaxDay            \* bound: days

AllKinds == {"read", "write", "new-vault", "pairing-retry", "cleanup"}
Scopes == Vaults \cup {Service}

ASSUME BudgetAssumption ==
    /\ IsFiniteSet(Requests) /\ Service \notin Vaults
    /\ None \notin Vaults \cup Requests
    /\ Kinds \subseteq AllKinds /\ Cost \in [AllKinds -> Nat] /\ Uses \subseteq Nat
    /\ RollingCeiling \in [Scopes -> Nat] /\ DailyCeiling \in [Scopes -> Nat]
    \* A request may be settled on the day after it reserved.
    /\ Window \in Nat \ {0, 1} /\ Retention \in Nat /\ Retention + 1 >= Window
    /\ Overlaps \in BOOLEAN /\ MaxDay \in Nat

VARIABLES
    day,        \* the UTC day
    flags,      \* service_flags
    full,       \* resource_totals.d1_storage_bytes has reached its limit
    ledger,     \* usage_reservations, by request and scope suffix
    daily,      \* usage_daily_buckets; a missing row counts nothing
    buckets,    \* the daily rows there are
    rolling,    \* usage_rolling_totals
    request,    \* requests between two D1 calls
    cron,       \* the scheduled maintenance between two D1 calls
    plan        \* the ledger an operator tool read, and its next step

accounts == <<ledger, daily, buckets, rolling>>
vars == <<day, flags, full, accounts, request, cron, plan>>

Suffixes == {"route", "vault"}
Ids == Requests \X Suffixes
Days == 0 .. MaxDay

NoRow == [state |-> "none", scope |-> Service, kind |-> "read", day |-> 0,
          reserved |-> 0, committed |-> 0, failure |-> "none", reconciled |-> FALSE]
\* A request's own memory ends with it.
NewRequest == [pc |-> "new", kind |-> "read", vault |-> None, held |-> {},
               used |-> None]
Done == [NewRequest EXCEPT !.pc = "done"]
Open == [newVaults |-> TRUE, writes |-> TRUE, fault |-> FALSE,
         reason |-> "NONE", origin |-> None]
CronIdle == [pc |-> "idle", read |-> [s \in Scopes |-> [d \in Days |-> 0]], expired |-> {}]
NoPlan == [pc |-> "none"]

Pcs == {"new", "route", "vault", "work", "observe", "batch", "fault", "done"}
Reasons == {"NONE", "D1_STORAGE_LIMIT_REACHED", "USAGE_RESERVATION_UNDERESTIMATED",
            "USAGE_SETTLEMENT_FAILED", "STALE_RESERVATION_REQUIRES_RECONCILIATION"}
Rows == [state : {"none", "reserved", "settled"}, scope : Scopes, kind : AllKinds,
         day : Days, reserved : Nat, committed : Nat,
         failure : Reasons \cup {"none"}, reconciled : BOOLEAN]

TypeOK ==
    /\ day \in Days /\ full \in BOOLEAN
    /\ flags \in [newVaults : BOOLEAN, writes : BOOLEAN, fault : BOOLEAN,
                  reason : Reasons, origin : Requests \cup {None}]
    /\ ledger \in [Ids -> Rows]
    /\ daily \in [Scopes -> [Days -> Nat]] /\ buckets \subseteq Scopes \X Days
    /\ rolling \in [Scopes -> Nat]
    /\ request \in [Requests -> [pc : Pcs, kind : AllKinds, vault : Vaults \cup {None},
                                 held : SUBSET Suffixes, used : Nat \cup {None}]]
    /\ cron \in [pc : {"idle", "expire", "stale"},
                 read : [Scopes -> [Days -> Nat]], expired : SUBSET (Scopes \X Days)]
    /\ plan.pc \in {"none", "apply", "rows", "flags"}

Init ==
    /\ day = 0 /\ flags = Open /\ full = FALSE
    /\ ledger = [i \in Ids |-> NoRow]
    /\ daily = [s \in Scopes |-> [d \in Days |-> 0]]
    /\ buckets = {} /\ rolling = [s \in Scopes |-> 0]
    /\ request = [q \in Requests |-> NewRequest]
    /\ cron = CronIdle /\ plan = NoPlan

-----------------------------------------------------------------------------
(* Sums over the ledger.                                                   *)

\* What a reservation counts: all of it until it is settled, then what was
\* used (reconstructAccounting).
Charge(row) == IF row.state = "reserved" THEN row.reserved ELSE row.committed

Charged(rows, s, d) ==
    SumFunction([i \in Ids |->
        IF rows[i].scope = s /\ rows[i].day = d THEN Charge(rows[i]) ELSE 0])

FirstDay == day - (Window - 1)
SumOfDays(counts) == SumFunction(counts)

Unresolved(row) ==
    \/ row.state = "reserved"
    \/ row.failure # "none" /\ ~row.reconciled

-----------------------------------------------------------------------------
(* Reserving.                                                              *)

\* flagCondition of the route's access; cleanup has access "write".
Admissible(kind) ==
    CASE kind = "read" -> TRUE
      [] kind \in {"write", "cleanup"} -> flags.writes /\ ~flags.fault
      [] kind = "new-vault" -> flags.writes /\ flags.newVaults
      [] kind = "pairing-retry" -> flags.writes

\* Compares what has been used with the ceiling, and not what would be.
Fits_Mistake(s, cost) == rolling[s] < RollingCeiling[s] /\ daily[s][day] < DailyCeiling[s]

Fits(s, cost) ==
    /\ rolling[s] + cost <= RollingCeiling[s]
    /\ daily[s][day] + cost <= DailyCeiling[s]

Admits(kind, s) ==
    /\ Admissible(kind)
    /\ kind = "read" \/ ~full
    /\ Fits(s, Cost[kind])

\* The batch of `reserve`: the rows of the day and the totals appear anyway,
\* the rest only with the reservation.
Enter(q, suffix, s) ==
    LET kind == request[q].kind
        cost == Cost[kind] IN
    /\ buckets' = buckets \cup {<<s, day>>}
    /\ IF Admits(kind, s)
       THEN /\ ledger' = [ledger EXCEPT ![<<q, suffix>>] =
                  [NoRow EXCEPT !.state = "reserved", !.scope = s, !.kind = kind,
                                !.day = day, !.reserved = cost]]
            /\ daily' = [daily EXCEPT ![s][day] = @ + cost]
            /\ rolling' = [rolling EXCEPT ![s] = @ + cost]
       ELSE UNCHANGED <<ledger, daily, rolling>>

\* A request arrives with its route; the device it names, if any, has a vault.
Arrive(q) ==
    /\ request[q].pc = "new"
    /\ \E kind \in Kinds \ {"cleanup"}, v \in Vaults \cup {None} :
         /\ v = None \/ kind \in {"read", "write"}
         /\ request' = [request EXCEPT ![q].pc = "route", ![q].kind = kind, ![q].vault = v]
    /\ UNCHANGED <<day, flags, full, accounts, cron, plan>>

\* The next step of a request that reserved, and of one that did not.
Proceeds(q, suffix) ==
    request' = [request EXCEPT
        ![q].pc = IF suffix = "route" /\ @ # "vault" /\ request[q].vault # None
                  THEN "vault" ELSE "work",
        ![q].held = @ \cup {suffix}]

\* A settlement with nothing to settle returns at once.
GivesUp(q) ==
    request' = [request EXCEPT ![q] =
                   IF @.held = {} THEN Done ELSE [@ EXCEPT !.pc = "observe"]]

ScopeOf(q, suffix) == IF suffix = "route" THEN Service ELSE request[q].vault

\* reserveRoute, reserveScheduledCleanup and, once the device is known,
\* reserveVault.
Reserve(q, suffix) ==
    /\ request[q].pc = suffix
    /\ Enter(q, suffix, ScopeOf(q, suffix))
    /\ IF Admits(request[q].kind, ScopeOf(q, suffix)) THEN Proceeds(q, suffix) ELSE GivesUp(q)
    /\ UNCHANGED <<day, flags, full, cron, plan>>

\* The batch fails, or took effect and its answer is lost: the request holds
\* nothing either way.
ReserveFails(q, suffix) ==
    /\ request[q].pc = suffix
    /\ \/ Enter(q, suffix, ScopeOf(q, suffix))
       \/ UNCHANGED <<ledger, daily, buckets, rolling>>
    /\ GivesUp(q)
    /\ UNCHANGED <<day, flags, full, cron, plan>>

\* The handler works, as the meter sees it: None is a use that D1 did not
\* report in full.
Work(q) ==
    /\ request[q].pc = "work"
    /\ \E used \in Uses \cup {None} :
         request' = [request EXCEPT ![q].pc = "observe", ![q].used = used]
    /\ UNCHANGED <<day, flags, full, accounts, cron, plan>>

-----------------------------------------------------------------------------
(* Settling.                                                               *)

\* observeD1Size: a database at its limit closes the service, and takes the
\* place of the reason of a fault.
ObserveSize(q) ==
    /\ request[q].pc = "observe"
    /\ request' = [request EXCEPT ![q].pc = "batch"]
    /\ \/ UNCHANGED <<full, flags>>
       \/ /\ full' = TRUE
          /\ flags' = [flags EXCEPT !.newVaults = FALSE, !.writes = FALSE,
                            !.reason = "D1_STORAGE_LIMIT_REACHED", !.origin = None]
    /\ UNCHANGED <<day, accounts, cron, plan>>

Held(q) == {q} \X request[q].held

Actual(q, i) == IF request[q].used # None THEN request[q].used ELSE ledger[i].reserved

Underestimated(q, i) == request[q].used # None /\ request[q].used > ledger[i].reserved

\* The use of a scope and day that the request corrects.
Correction(q, s, d) ==
    SumFunction([i \in Ids |->
        IF i \in Held(q) /\ ledger[i].scope = s /\ ledger[i].day = d
        THEN Actual(q, i) - ledger[i].reserved ELSE 0])

\* The rolling total keeps the whole reservation.
Totals_Mistake(q) ==
    /\ daily' = [s \in Scopes |-> [d \in Days |->
                    IF <<s, d>> \in buckets THEN daily[s][d] + Correction(q, s, d) ELSE 0]]
    /\ UNCHANGED rolling

Totals(q) ==
    /\ daily' = [s \in Scopes |-> [d \in Days |->
                    IF <<s, d>> \in buckets THEN daily[s][d] + Correction(q, s, d) ELSE 0]]
    /\ rolling' = [s \in Scopes |->
                    rolling[s] + SumOfDays([d \in Days |-> Correction(q, s, d)])]

Raise(f, reason, q) ==
    IF f.fault THEN f ELSE [f EXCEPT !.fault = TRUE, !.reason = reason, !.origin = q]

\* The rows are read and settled in one step: nobody else touches the rows of
\* a request that still runs (Abandoned).
SettleBatch(q, after) ==
    /\ request[q].pc = "batch"
    /\ ledger' = [i \in Ids |->
           IF i \in Held(q)
           THEN [ledger[i] EXCEPT !.state = "settled", !.committed = Actual(q, i),
                     !.failure = IF Underestimated(q, i)
                                 THEN "USAGE_RESERVATION_UNDERESTIMATED" ELSE @]
           ELSE ledger[i]]
    /\ Totals(q)
    /\ flags' = IF \E i \in Held(q) : Underestimated(q, i)
                THEN Raise(flags, "USAGE_RESERVATION_UNDERESTIMATED", q) ELSE flags
    /\ request' = [request EXCEPT ![q] =
           IF \A i \in Held(q) : <<ledger[i].scope, ledger[i].day>> \in buckets
           THEN after ELSE [@ EXCEPT !.pc = "fault"]]
    /\ UNCHANGED <<day, full, buckets, cron, plan>>

Settle(q) == SettleBatch(q, Done)
\* The batch took effect, but D1 reports an error.
SettleUnknown(q) == SettleBatch(q, [request[q] EXCEPT !.pc = "fault"])
\* A call of the settlement fails and has no effect.
SettleFails(q) ==
    /\ request[q].pc \in {"observe", "batch"}
    /\ request' = [request EXCEPT ![q].pc = "fault"]
    /\ UNCHANGED <<day, flags, full, accounts, cron, plan>>

\* markAccountingFault, which may fail as well.
MarkFault(q) ==
    /\ request[q].pc = "fault"
    /\ flags' \in {flags, Raise(flags, "USAGE_SETTLEMENT_FAILED", q)}
    /\ request' = [request EXCEPT ![q] = Done]
    /\ UNCHANGED <<day, full, accounts, cron, plan>>

Stop(q) ==
    /\ request[q].pc \notin {"new", "done"}
    /\ request' = [request EXCEPT ![q] = Done]
    /\ UNCHANGED <<day, flags, full, accounts, cron, plan>>

-----------------------------------------------------------------------------
(* Time and the scheduled maintenance.                                     *)

Running(q) == request[q].pc \notin {"new", "done"}

\* No request runs for an hour, so what gets that old is abandoned.
Abandoned == {i \in Ids : ledger[i].state = "reserved" /\ ~Running(i[1])}

\* A request may run past midnight, but not past two; nor does the job.
NewDay ==
    /\ day < MaxDay /\ cron.pc = "idle"
    /\ \A i \in Ids : Running(i[1]) /\ ledger[i].state = "reserved" => ledger[i].day = day
    /\ day' = day + 1
    /\ UNCHANGED <<flags, full, accounts, request, cron, plan>>

\* runBudgetWindowMaintenance reads the buckets that left the window...
ReadExpired ==
    /\ cron.pc = "idle"
    /\ LET expired == {b \in buckets : b[2] < FirstDay} IN
       cron' = [pc |-> IF expired = {} THEN "stale" ELSE "expire",
                read |-> [s \in Scopes |-> [d \in Days |->
                            IF <<s, d>> \in expired THEN daily[s][d] ELSE 0]],
                expired |-> expired]
    /\ UNCHANGED <<day, flags, full, accounts, request, plan>>

NotBelowZero(n) == IF n < 0 THEN 0 ELSE n

\* ...takes them off the totals and deletes them...
ExpireBuckets ==
    /\ cron.pc = "expire"
    /\ rolling' = [s \in Scopes |-> NotBelowZero(rolling[s] - SumOfDays(cron.read[s]))]
    /\ daily' = [s \in Scopes |-> [d \in Days |->
                    IF <<s, d>> \in cron.expired THEN 0 ELSE daily[s][d]]]
    /\ buckets' = buckets \ cron.expired
    /\ cron' = [CronIdle EXCEPT !.pc = "stale"]
    /\ UNCHANGED <<day, flags, full, ledger, request, plan>>

Prunable(row) ==
    /\ row.state = "settled" /\ row.day + Retention < day
    /\ row.failure = "none" \/ row.reconciled

\* Looks only at what is settled.
Stale_Mistake(old) == {i \in old : ledger[i].state = "settled"}

\* The reservations that are over an hour old.
Stale(old) == old \cup {i \in Ids : ledger[i].state = "reserved" /\ ledger[i].failure # "none"}

\* ...and then raises the fault over reservations nobody settled, and prunes
\* what has been settled long ago.  The job goes on with its own reservation,
\* if there is anything to clean up.
MarkStale(old) ==
    /\ cron.pc = "stale"
    /\ ledger' = [i \in Ids |->
           IF i \in Stale(old) /\ ledger[i].failure = "none"
           THEN [ledger[i] EXCEPT !.failure = "STALE_RESERVATION_REQUIRES_RECONCILIATION"]
           ELSE IF Prunable(ledger[i]) THEN NoRow ELSE ledger[i]]
    /\ \/ Stale(old) = {} /\ UNCHANGED flags
       \/ \E i \in Stale(old) :
            flags' = Raise(flags, "STALE_RESERVATION_REQUIRES_RECONCILIATION", i[1])
    /\ \/ UNCHANGED request
       \/ \E q \in Requests :
            /\ "cleanup" \in Kinds /\ request[q].pc = "new"
            /\ request' = [request EXCEPT ![q].pc = "route", ![q].kind = "cleanup"]
    /\ cron' = CronIdle
    /\ UNCHANGED <<day, full, daily, buckets, rolling, plan>>

\* A call of the maintenance fails.
CronEnds ==
    /\ cron.pc # "idle"
    /\ cron' = CronIdle
    /\ UNCHANGED <<day, flags, full, accounts, request, plan>>

-----------------------------------------------------------------------------
(* sync-budget-reconcile: the operator rebuilds the totals.                *)

\* classifyRepair: the unresolved rows it knows how to resolve.
CleanupOverrun(row) ==
    /\ row.kind = "cleanup" /\ row.state = "settled"
    /\ row.failure = "USAGE_RESERVATION_UNDERESTIMATED"
StaleRead(row) ==
    /\ row.kind = "read" /\ row.state = "reserved" /\ ~row.reconciled
    /\ row.failure = "STALE_RESERVATION_REQUIRES_RECONCILIATION"
Repairable(row) == CleanupOverrun(row) \/ StaleRead(row)

\* A stale read pays its whole reservation; the outcome is not invented.
Repaired(row) ==
    IF StaleRead(row)
    THEN [row EXCEPT !.state = "settled", !.committed = row.reserved, !.reconciled = TRUE]
    ELSE [row EXCEPT !.reconciled = TRUE]

\* A fault must be explained by an unresolved row of the request it names.
FaultExplained ==
    \E i \in Ids :
        /\ Unresolved(ledger[i]) /\ ledger[i].failure = flags.reason
        /\ flags.origin \in {None, i[1]}

\* reconstructAccounting: the totals the ledger implies.
WindowDays == {d \in Days : FirstDay <= d /\ d <= day}
RebuiltBuckets ==
    {b \in buckets : b[2] \in WindowDays} \cup {<<Service, day>>}
    \cup {b \in Scopes \X WindowDays : \E i \in Ids :
             ledger[i].state # "none" /\ ledger[i].scope = b[1] /\ ledger[i].day = b[2]}
RebuiltDaily ==
    [s \in Scopes |-> [d \in Days |-> IF d \in WindowDays THEN Charged(ledger, s, d) ELSE 0]]

BelowLimits(counts, totals) ==
    /\ ~full
    /\ \A s \in Scopes : totals[s] < RollingCeiling[s] /\ counts[s][day] < DailyCeiling[s]

\* The health answer reports every unresolved overrun; the tool goes on if all
\* of them are the cleanup's (routeRegistryReadyForReconciliation).
Overruns ==
    {i \in Ids : /\ ledger[i].failure = "USAGE_RESERVATION_UNDERESTIMATED"
                 /\ ~ledger[i].reconciled}
RegistryReady == \A i \in Overruns : CleanupOverrun(ledger[i])

\* planReconciliation, on one consistent reading of the ledger.
PlanReconciliation ==
    LET counts == RebuiltDaily
        totals == [s \in Scopes |-> SumOfDays(counts[s])]
        open == {i \in Ids : Unresolved(ledger[i])} IN
    /\ plan.pc = "none"
    /\ flags.writes /\ flags.newVaults /\ RegistryReady
    /\ \A i \in open : Repairable(ledger[i])
    /\ BelowLimits(counts, totals)
    /\ flags.fault => FaultExplained
    /\ flags.fault \/ open # {} \/ counts # daily \/ totals # rolling
    /\ plan' = [pc |-> "apply", day |-> day, flags |-> flags, rolling |-> rolling,
                daily |-> daily, buckets |-> buckets, counts |-> counts, totals |-> totals,
                rows |-> RebuiltBuckets,
                size |-> Cardinality({i \in Ids : ledger[i].state # "none"}),
                open |-> [i \in open |-> ledger[i]]]
    /\ UNCHANGED <<day, flags, full, accounts, request, cron>>

\* Only the rows the plan repairs are compared again.
Unmoved_Mistake ==
    \A i \in DOMAIN plan.open : ledger[i] = plan.open[i]

\* The guard of the repair batch: what the plan was made from has not changed.
Unmoved ==
    /\ day = plan.day /\ flags = plan.flags /\ rolling = plan.rolling
    /\ daily = plan.daily /\ buckets = plan.buckets
    /\ \A s \in Scopes, d \in WindowDays : Charged(ledger, s, d) = plan.counts[s][d]
    /\ Cardinality({i \in Ids : ledger[i].state # "none"}) = plan.size
    /\ {i \in Ids : Unresolved(ledger[i])} = DOMAIN plan.open
    /\ \A i \in DOMAIN plan.open : ledger[i] = plan.open[i]

\* One batch repairs rows and totals and clears the fault.  It does not see
\* what the maintenance has read and not yet taken off (Overlaps).
ApplyReconciliation ==
    /\ plan.pc = "apply" /\ Unmoved
    /\ Overlaps \/ cron.pc # "expire"
    /\ ledger' = [i \in Ids |-> IF i \in DOMAIN plan.open THEN Repaired(ledger[i]) ELSE ledger[i]]
    /\ daily' = plan.counts /\ rolling' = plan.totals /\ buckets' = plan.rows
    /\ flags' = IF flags.fault
                THEN [flags EXCEPT !.fault = FALSE, !.reason = "NONE", !.origin = None]
                ELSE flags
    /\ plan' = NoPlan
    /\ UNCHANGED <<day, full, request, cron>>

-----------------------------------------------------------------------------
(* sync-budget-accounting --operation scheduled-cleanup: the older tool,    *)
(* which repairs row by row.                                               *)

Incidents == {i \in Ids : ledger[i].failure # "none" /\ ~ledger[i].reconciled}

PlanRepair ==
    /\ plan.pc = "none"
    /\ flags.fault /\ flags.reason = "USAGE_RESERVATION_UNDERESTIMATED"
    /\ flags.writes /\ flags.newVaults
    /\ Incidents # {} /\ \A i \in Incidents : CleanupOverrun(ledger[i])
    /\ flags.origin \in {i[1] : i \in Incidents}
    /\ plan' = [pc |-> "rows", open |-> Incidents, origin |-> flags.origin, day |-> day]
    /\ UNCHANGED <<day, flags, full, accounts, request, cron>>

\* One row at a time, compared with what was read.
RepairRow ==
    /\ plan.pc = "rows"
    /\ \E i \in plan.open :
         /\ CleanupOverrun(ledger[i]) /\ ~ledger[i].reconciled
         /\ ledger' = [ledger EXCEPT ![i].reconciled = TRUE]
         /\ plan' = IF plan.open = {i}
                    THEN [pc |-> "flags", origin |-> plan.origin, day |-> plan.day]
                    ELSE [plan EXCEPT !.open = @ \ {i}]
    /\ UNCHANGED <<day, flags, full, daily, buckets, rolling, request, cron>>

\* Nothing is reserved and nothing unresolved.
Clean == \A i \in Ids : ~Unresolved(ledger[i])

\* The compare-and-swap that clears the fault.
ClearFault ==
    /\ plan.pc = "flags" /\ Clean
    /\ flags.fault /\ flags.reason = "USAGE_RESERVATION_UNDERESTIMATED"
    /\ flags.origin = plan.origin /\ flags.writes /\ flags.newVaults
    /\ ~full /\ rolling[Service] < RollingCeiling[Service]
    /\ <<Service, plan.day>> \in buckets
    /\ daily[Service][plan.day] < DailyCeiling[Service]
    /\ flags' = [flags EXCEPT !.fault = FALSE, !.reason = "NONE", !.origin = None]
    /\ plan' = NoPlan
    /\ UNCHANGED <<day, full, accounts, request, cron>>

\* A tool whose check fails refuses; it is run again.
ToolStops ==
    /\ plan # NoPlan
    /\ plan' = NoPlan
    /\ UNCHANGED <<day, flags, full, accounts, request, cron>>

-----------------------------------------------------------------------------
RequestStep(q) ==
    \/ \E suffix \in Suffixes : Reserve(q, suffix) \/ ReserveFails(q, suffix)
    \/ Work(q) \/ ObserveSize(q)
    \/ Settle(q) \/ SettleUnknown(q) \/ SettleFails(q) \/ MarkFault(q) \/ Stop(q)

CronStep ==
    \/ ReadExpired \/ ExpireBuckets \/ CronEnds
    \/ \E old \in SUBSET Abandoned : MarkStale(old)

OperatorStep ==
    \/ PlanReconciliation \/ ApplyReconciliation
    \/ PlanRepair \/ RepairRow \/ ClearFault \/ ToolStops

Next ==
    \/ \E q \in Requests : Arrive(q) \/ RequestStep(q)
    \/ NewDay \/ CronStep \/ OperatorStep

Spec == Init /\ [][Next]_vars

\* A request ends, hours pass, and the maintenance comes round; its calls may
\* fail, but not for ever.
Fairness ==
    /\ \A q \in Requests : WF_vars(RequestStep(q))
    /\ WF_vars(CronStep) /\ SF_vars(ExpireBuckets) /\ SF_vars(MarkStale(Abandoned))

FairSpec == Spec /\ Fairness

-----------------------------------------------------------------------------
(* Properties.                                                             *)

\* The totals the ceilings are compared with never drift from the ledger:
\* every bucket is the sum of what its day's reservations count, and every
\* rolling total is the sum of its buckets, whatever was lost, failed,
\* expired or repaired in between (reconstructAccounting finds no drift).
LedgerExact ==
    \A s \in Scopes :
        /\ \A d \in Days : d >= FirstDay => daily[s][d] = Charged(ledger, s, d)
        /\ rolling[s] = SumOfDays(daily[s])
        /\ \A d \in Days : daily[s][d] > 0 => <<s, d>> \in buckets

\* Requests that reserve at the same time never pass a ceiling together: it is
\* exceeded by no more than what requests used beyond their reservations.
Overrun(s, days) ==
    SumFunction([i \in Ids |->
        IF ledger[i].scope = s /\ ledger[i].day \in days
        THEN NotBelowZero(ledger[i].committed - ledger[i].reserved) ELSE 0])

CeilingsHold ==
    \A s \in Scopes :
        /\ rolling[s] <= RollingCeiling[s] + Overrun(s, Days)
        /\ daily[s][day] <= DailyCeiling[s] + Overrun(s, {day})

\* A fault is cleared only when no reservation is open and no failure is
\* unresolved, although the tools read the ledger some calls earlier and
\* requests go on.
FaultClearedClean ==
    [][flags.fault /\ ~flags'.fault => \A i \in Ids : ~Unresolved(ledger'[i])]_vars

\* A reservation whose request died is settled by nobody; the service finds
\* out and stops taking writes.
LeaksSurface ==
    \A i \in Ids :
        (ledger[i].state = "reserved" /\ request[i[1]].pc = "done")
          ~> (ledger[i].state # "reserved" \/ flags.fault)
=============================================================================
