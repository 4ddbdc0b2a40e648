-------------------------- MODULE Scheduler_proofs --------------------------
(* Proofs about Scheduler, for all spans: no pause the service asked for   *)
(* is cut short, and no trigger is dropped.                                *)
EXTENDS Scheduler, TLAPS

-----------------------------------------------------------------------------
(* The strengthened invariant.                                             *)

Spans0 == Nat \cup {None}
Pages == [visible : BOOLEAN, online : BOOLEAN, pending : BOOLEAN, timer : Spans0,
          allowed : Nat, since : 0..Old, fails : 0..Len(RetryBackoff), periodic : Spans0,
          hidden : (0..Old) \cup {None}, returned : BOOLEAN]

\* The types of the variables.
TypeOK ==
    /\ page \in Pages
    /\ cycle \in {"idle", "uploading", "checking", "recorded"}
    /\ settling \in BOOLEAN
    /\ unsent \subseteq {"here", "elsewhere"}
    /\ stored \in Nat

\* The page waits at least as long as storage says, and a cycle runs only while storage
\* holds no pause: a success that cannot clear it has none to clear.
PauseKept ==
    /\ InFlight => stored = 0
    /\ stored <= page.allowed

IInv == TypeOK /\ PauseKept /\ TriggerHeld

-----------------------------------------------------------------------------
(* Operators.                                                              *)

\* The largest of some numbers is one of them and none is larger.
LEMMA MaxOf ==
    ASSUME NEW S, NEW x \in S, \A y \in S : x >= y
    PROVE  Max(S) \in S /\ \A y \in S : Max(S) >= y
  BY DEF Max

\* The spans are positive numbers, and no age is counted short of the gap.
LEMMA SpanTypes ==
    /\ Debounce \in Nat \ {0} /\ Gap \in Nat \ {0} /\ OfflineRecheck \in Nat \ {0}
    /\ Period \in Nat \ {0} /\ BudgetBackoff \in Nat \ {0} /\ Jitter \in Nat
    /\ Old \in Nat /\ Gap <= Old
    /\ Len(RetryBackoff) \in Nat /\ Len(RetryBackoff) > 0
    /\ \A i \in 1..Len(RetryBackoff) : RetryBackoff[i] \in Nat
<1>1. /\ Debounce \in Nat \ {0} /\ Gap \in Nat \ {0} /\ OfflineRecheck \in Nat \ {0}
      /\ Period \in Nat \ {0} /\ BudgetBackoff \in Nat \ {0} /\ Jitter \in Nat
      /\ ResumeStale \in Nat /\ SuccessStale \in Nat
  BY SchedulerAssumption DEF SchedulerAssumption, Spans
<1>2. Old \in {ResumeStale, SuccessStale, Gap} /\ Gap <= Old
  <2>1. ResumeStale \in Int /\ SuccessStale \in Int /\ Gap \in Int
    BY <1>1
  <2> DEFINE S == {ResumeStale, SuccessStale, Gap}
  <2>2. \E x \in S : \A y \in S : x >= y
    BY <2>1
  <2>3. Max(S) \in S /\ \A y \in S : Max(S) >= y
    <3> HIDE DEF S
    <3> QED
      BY <2>2, MaxOf
  <2> QED
    BY <2>3, <2>1 DEF Old
<1>3. RetryBackoff \in Seq(Nat) /\ Len(RetryBackoff) > 0
  BY SchedulerAssumption DEF SchedulerAssumption
<1> QED
  BY <1>1, <1>2, <1>3

-----------------------------------------------------------------------------
(* Arming the timer.                                                       *)

\* The latest a timer may be due.
Limit(p) == Max({Debounce, p.allowed, Gap - p.since, IF p.online THEN 0 ELSE OfflineRecheck})

\* What is pending has a timer that is not too late.
Armed(p) == p.pending /\ p.visible => p.timer # None /\ p.timer <= Limit(p)

\* The latest due time is the largest of what asks for one.
LEMMA LimitBounds ==
    ASSUME NEW p \in Pages
    PROVE  /\ Limit(p) \in Int
           /\ Debounce <= Limit(p) /\ p.allowed <= Limit(p) /\ Gap - p.since <= Limit(p)
           /\ IF p.online THEN 0 <= Limit(p) ELSE OfflineRecheck <= Limit(p)
           /\ Limit(p) \in {Debounce, p.allowed, Gap - p.since,
                            IF p.online THEN 0 ELSE OfflineRecheck}
<1> DEFINE a == p.allowed  g == Gap - p.since  o == IF p.online THEN 0 ELSE OfflineRecheck
<1>1. p.allowed \in Nat /\ p.since \in Int /\ p.online \in BOOLEAN
  BY SpanTypes DEF Pages
<1>2. a \in Int /\ g \in Int /\ o \in Int /\ Debounce \in Int
  BY <1>1, SpanTypes
<1>3. o = IF p.online THEN 0 ELSE OfflineRecheck
  OBVIOUS
<1> DEFINE S == {Debounce, a, g, o}
<1>4. Limit(p) = Max(S)
  BY DEF Limit
<1>5. a = p.allowed /\ g = Gap - p.since
  OBVIOUS
<1> HIDE DEF a, g, o
<1>6. /\ Limit(p) \in {Debounce, a, g, o} /\ Limit(p) \in Int
      /\ Debounce <= Limit(p) /\ a <= Limit(p) /\ g <= Limit(p) /\ o <= Limit(p)
  <2>1. \E x \in S : \A y \in S : x >= y
    BY <1>2
  <2>2. Max(S) \in S /\ \A y \in S : Max(S) >= y
    <3> HIDE DEF S
    <3> QED
      BY <2>1, MaxOf
  <2> QED
    BY <1>2, <1>4, <2>2
<1> QED
  BY <1>3, <1>5, <1>6

\* Scheduling what is pending arms the timer and changes nothing else.
LEMMA Schedules ==
    ASSUME NEW p \in Pages, NEW delay \in 0..Debounce
    PROVE  /\ SchedulePending(p, delay) \in Pages /\ Armed(SchedulePending(p, delay))
           /\ SchedulePending(p, delay).pending = p.pending
           /\ SchedulePending(p, delay).allowed = p.allowed
           /\ SchedulePending(p, delay).visible = p.visible
<1> DEFINE q == SchedulePending(p, delay)
           due == IF p.online THEN Max({delay, p.allowed, Gap - p.since}) ELSE OfflineRecheck
<1>1. /\ p.allowed \in Nat /\ p.since \in Int /\ p.timer \in Nat \cup {None}
      /\ p.pending \in BOOLEAN /\ p.visible \in BOOLEAN /\ p.online \in BOOLEAN
      /\ delay \in Nat /\ delay <= Debounce /\ Debounce \in Nat
      /\ OfflineRecheck \in Nat /\ Gap \in Int /\ None \notin Int
  BY SpanTypes, SchedulerAssumption DEF Pages, Spans0, SchedulerAssumption
<1>2. due \in Nat /\ due <= Limit(p)
  <2>1. CASE p.online
    <3> DEFINE a == p.allowed  g == Gap - p.since
    <3>1. delay \in Int /\ a \in Int /\ g \in Int /\ a = p.allowed /\ g = Gap - p.since
      BY <1>1
    <3> DEFINE S == {delay, a, g}
    <3>2. due = Max(S)
      BY <2>1
    <3> HIDE DEF a, g, due
    <3>3. due \in {delay, a, g} /\ a <= due /\ due \in Int
      <4>1. \E x \in S : \A y \in S : x >= y
        BY <3>1
      <4>2. Max(S) \in S /\ \A y \in S : Max(S) >= y
        <5> HIDE DEF S
        <5> QED
          BY <4>1, MaxOf
      <4> QED
        BY <3>1, <3>2, <4>2
    <3> QED
      BY <1>1, <3>1, <3>3, LimitBounds
  <2>2. CASE ~p.online
    <3>1. due = OfflineRecheck
      BY <2>2
    <3> HIDE DEF due
    <3> QED
      BY <1>1, <2>2, <3>1, LimitBounds
  <2> QED
    BY <2>1, <2>2, <1>1
<1>6. Limit(p) \in Int
  BY LimitBounds
<1> HIDE DEF due
<1>3. CASE ~p.pending \/ ~p.visible
  <2>1. q = p
    BY <1>3 DEF SchedulePending
  <2> QED
    BY <1>3, <2>1 DEF Armed
<1>4. CASE p.pending /\ p.visible /\ Stays(p, due)
  <2>1. q = p
    BY <1>4 DEF SchedulePending, due
  <2>2. p.timer # None /\ p.timer <= Limit(p)
    BY <1>1, <1>2, <1>4, <1>6 DEF Stays
  <2> QED
    BY <2>1, <2>2 DEF Armed
<1>5. CASE p.pending /\ p.visible /\ ~Stays(p, due)
  <2>1. q = [p EXCEPT !.timer = due]
    BY <1>5 DEF SchedulePending, due
  <2>2. q \in Pages
    BY <1>2, <2>1 DEF Pages, Spans0
  <2>3. /\ q.timer = due /\ q.pending = p.pending /\ q.allowed = p.allowed
        /\ q.since = p.since /\ q.online = p.online /\ q.visible = p.visible
    BY <2>1 DEF Pages
  <2>4. Limit(q) = Limit(p)
    BY <2>3 DEF Limit
  <2>5. q.timer # None /\ q.timer <= Limit(q)
    BY <1>1, <1>2, <2>3, <2>4
  <2> QED
    BY <2>2, <2>3, <2>5 DEF Armed
<1> QED
  BY <1>1, <1>3, <1>4, <1>5

\* A request for a run is pending from then on, and armed when no cycle is in flight.
LEMMA Requests ==
    ASSUME NEW p \in Pages, NEW delay \in 0..Debounce, NEW flying \in BOOLEAN
    PROVE  /\ RequestRun(p, delay, flying) \in Pages
           /\ ~flying => Armed(RequestRun(p, delay, flying))
           /\ RequestRun(p, delay, flying).pending
           /\ RequestRun(p, delay, flying).allowed = p.allowed
           /\ RequestRun(p, delay, flying).visible = p.visible
<1> DEFINE asked == [p EXCEPT !.pending = TRUE]
<1>1. asked \in Pages /\ asked.pending /\ asked.allowed = p.allowed
      /\ asked.visible = p.visible
  BY DEF Pages
<1>2. CASE flying
  BY <1>1, <1>2 DEF RequestRun
<1>3. CASE ~flying
  BY <1>1, <1>3, Schedules DEF RequestRun
<1> QED
  BY <1>2, <1>3

\* The same of a request of the page as it is.
LEMMA Asks ==
    ASSUME NEW p \in Pages, NEW delay \in 0..Debounce
    PROVE  /\ RequestRun(p, delay, InFlight) \in Pages
           /\ cycle = "idle" => Armed(RequestRun(p, delay, InFlight))
           /\ RequestRun(p, delay, InFlight).pending
           /\ RequestRun(p, delay, InFlight).allowed = p.allowed
<1> DEFINE flying == InFlight
<1>1. flying \in BOOLEAN /\ (cycle = "idle" => ~flying)
  BY DEF InFlight
<1> HIDE DEF flying
<1>2. /\ RequestRun(p, delay, flying) \in Pages
      /\ ~flying => Armed(RequestRun(p, delay, flying))
      /\ RequestRun(p, delay, flying).pending
      /\ RequestRun(p, delay, flying).allowed = p.allowed
  BY <1>1, Requests
<1> QED
  BY <1>1, <1>2 DEF flying

\* A mounted scheduler keeps the pause it finds and has asked for a run.
LEMMA Mounts ==
    ASSUME NEW visible \in BOOLEAN, NEW online \in BOOLEAN, NEW kept \in Nat
    PROVE  /\ Mounted(visible, online, kept) \in Pages
           /\ Armed(Mounted(visible, online, kept))
           /\ Mounted(visible, online, kept).pending
           /\ Mounted(visible, online, kept).allowed = kept
<1> DEFINE p == [visible |-> visible, online |-> online, pending |-> FALSE,
                 timer |-> None, allowed |-> Resumed(kept), since |-> Old, fails |-> 0,
                 periodic |-> IF visible THEN Period ELSE None,
                 hidden |-> IF visible THEN None ELSE 0, returned |-> FALSE]
<1>1. p \in Pages /\ p.allowed = kept
  BY SpanTypes DEF Pages, Spans0, Resumed
<1>2. Mounted(visible, online, kept) = RequestRun(p, 0, FALSE)
  BY DEF Mounted
<1>3. 0 \in 0..Debounce
  BY SpanTypes
<1> HIDE DEF p
<1>4. /\ RequestRun(p, 0, FALSE) \in Pages
      /\ Armed(RequestRun(p, 0, FALSE))
      /\ RequestRun(p, 0, FALSE).pending
      /\ RequestRun(p, 0, FALSE).allowed = p.allowed
  BY <1>1, <1>3, Requests
<1> QED
  BY <1>1, <1>2, <1>4

\* A page that changes only what no due time looks at stays armed.
LEMMA StaysArmed ==
    ASSUME NEW p \in Pages, NEW q \in Pages, Armed(p),
           q.pending = p.pending, q.visible = p.visible, q.timer = p.timer,
           q.allowed = p.allowed, q.since = p.since, q.online = p.online
    PROVE  Armed(q)
  BY DEF Armed, Limit

-----------------------------------------------------------------------------
(* Every step.                                                             *)

\* What has to be shown of a step.
LEMMA Collect ==
    ASSUME TypeOK', (cycle # "idle" => stored = 0)', (stored <= page.allowed)',
           (cycle = "idle" /\ ~settling => Armed(page))',
           ("here" \in unsent => page.pending \/ cycle = "uploading")'
    PROVE  IInv'
  BY DEF IInv, PauseKept, TriggerHeld, InFlight, Armed, Limit

\* The invariant says that the page is armed unless a cycle runs or settles.
LEMMA TriggerIs ==
    TriggerHeld <=> /\ cycle = "idle" /\ ~settling => Armed(page)
                    /\ "here" \in unsent => page.pending \/ cycle = "uploading"
  BY DEF TriggerHeld, InFlight, Armed, Limit

\* What the invariant says of a state.
LEMMA Given ==
    ASSUME IInv
    PROVE  /\ page \in Pages /\ stored \in Nat /\ settling \in BOOLEAN
           /\ cycle \in {"idle", "uploading", "checking", "recorded"}
           /\ unsent \subseteq {"here", "elsewhere"}
           /\ page.allowed \in Nat /\ page.pending \in BOOLEAN /\ page.visible \in BOOLEAN
           /\ page.online \in BOOLEAN
           /\ cycle # "idle" => stored = 0
           /\ stored <= page.allowed
           /\ cycle = "idle" /\ ~settling => Armed(page)
           /\ "here" \in unsent => page.pending \/ cycle = "uploading"
           /\ 0 \in 0..Debounce /\ Debounce \in 0..Debounce
           /\ InFlight \in BOOLEAN /\ InFlight = (cycle # "idle")
  BY SpanTypes DEF IInv, TypeOK, Pages, PauseKept, TriggerHeld, InFlight, Armed, Limit

\* The page starts with a run asked for and no pause.
LEMMA InitIInv == Init => IInv
<1> SUFFICES ASSUME Init PROVE IInv
  OBVIOUS
<1>1. PICK visible \in BOOLEAN, online \in BOOLEAN : page = Mounted(visible, online, 0)
  BY DEF Init
<1>2. page \in Pages /\ Armed(page) /\ page.allowed = 0
  BY <1>1, Mounts
<1> QED
  <2>0. settling \in BOOLEAN /\ ~settling /\ cycle = "idle" /\ unsent = {} /\ stored = 0
    BY DEF Init
  <2>1. TypeOK /\ PauseKept
    BY <1>2, <2>0 DEF TypeOK, PauseKept, InFlight
  <2>2. TriggerHeld
    BY <1>2, <2>0, TriggerIs
  <2> QED
    BY <2>1, <2>2 DEF IInv

\* Edits, the connection, and the page coming and going.
LEMMA PageSteps ==
    ASSUME IInv, LocalEdit \/ EditElsewhere \/ GoOffline \/ GoOnline \/ Hide
    PROVE  IInv'
<1> USE Given
<1>1. CASE LocalEdit
  <2>1. /\ page' \in Pages /\ page'.pending /\ page'.allowed = page.allowed
        /\ cycle = "idle" => Armed(page')
    BY <1>1, Asks DEF LocalEdit
  <2> QED
    BY <1>1, <2>1, Collect DEF LocalEdit, TypeOK
<1>2. CASE EditElsewhere
  BY <1>2, Collect DEF EditElsewhere, TypeOK
<1>3. CASE GoOffline
  <2>1. /\ page' \in Pages /\ page'.pending = page.pending /\ page'.allowed = page.allowed
        /\ page'.visible = page.visible /\ page'.timer = page.timer
        /\ page'.since = page.since /\ page'.online = FALSE /\ page.online
    BY <1>3 DEF GoOffline, Pages
  <2>2. Limit(page) <= Limit(page') /\ Limit(page) \in Int /\ Limit(page') \in Int
    BY <2>1, LimitBounds, SpanTypes
  <2>3. Armed(page) => Armed(page')
    <3>1. page.timer \in Nat \cup {None}
      BY DEF Pages, Spans0
    <3> QED
      BY <2>1, <2>2, <3>1 DEF Armed
  <2> QED
    BY <1>3, <2>1, <2>3, Collect DEF GoOffline, TypeOK
<1>4. CASE GoOnline
  <2> DEFINE p == [page EXCEPT !.online = TRUE, !.returned = ~page.visible]
  <2>1. p \in Pages /\ p.allowed = page.allowed
    BY DEF Pages
  <2>2. page' = RequestRun(p, 0, InFlight)
    BY <1>4 DEF GoOnline
  <2> HIDE DEF p
  <2>3. /\ page' \in Pages /\ page'.pending /\ page'.allowed = page.allowed
        /\ cycle = "idle" => Armed(page')
    BY <2>1, <2>2, Asks
  <2> QED
    BY <1>4, <2>3, Collect DEF GoOnline, TypeOK
<1>5. CASE Hide
  <2>0. 0 \in (0..Old) \cup {None} /\ None \in Spans0 /\ FALSE \in BOOLEAN
    BY SpanTypes DEF Spans0
  <2>1. /\ page' \in Pages /\ page'.pending = page.pending /\ page'.allowed = page.allowed
        /\ page'.visible = FALSE
    BY <1>5, <2>0 DEF Hide, Pages
  <2> QED
    BY <1>5, <2>1, Collect DEF Hide, TypeOK, Armed
<1> QED
  BY <1>1, <1>2, <1>3, <1>4, <1>5

\* A page that is shown, or loaded again.
LEMMA ShowSteps ==
    ASSUME IInv, Show \/ Reload
    PROVE  IInv'
<1> USE Given
<1>1. CASE Show
  <2> DEFINE p == [page EXCEPT !.visible = TRUE, !.periodic = Period]
             asked == IF SyncsAfterResume THEN RequestRun(p, 0, InFlight)
                      ELSE IF InFlight THEN p ELSE SchedulePending(p, 0)
  <2>1. p \in Pages /\ p.allowed = page.allowed /\ p.pending = page.pending
    BY SpanTypes DEF Pages, Spans0
  <2>2. page' = [asked EXCEPT !.hidden = None, !.returned = FALSE]
    BY <1>1 DEF Show
  <2>3. /\ asked \in Pages /\ asked.allowed = page.allowed
        /\ page.pending => asked.pending
        /\ cycle = "idle" => Armed(asked)
    <3>1. CASE SyncsAfterResume
      <4>1. asked = RequestRun(p, 0, InFlight)
        BY <3>1
      <4> HIDE DEF p, asked
      <4> QED
        BY <2>1, <4>1, Asks
    <3>2. CASE ~SyncsAfterResume /\ InFlight
      <4>1. asked = p
        BY <3>2
      <4> QED
        BY <2>1, <3>2, <4>1
    <3>3. CASE ~SyncsAfterResume /\ ~InFlight
      <4>1. asked = SchedulePending(p, 0)
        BY <3>3
      <4> HIDE DEF p, asked
      <4> QED
        BY <2>1, <4>1, Schedules
    <3> QED
      BY <3>1, <3>2, <3>3
  <2> HIDE DEF asked
  <2>4. /\ page' \in Pages /\ page'.allowed = asked.allowed /\ page'.pending = asked.pending
        /\ page'.visible = asked.visible /\ page'.timer = asked.timer
        /\ page'.since = asked.since /\ page'.online = asked.online
    BY <2>2, <2>3 DEF Pages
  <2>5. Armed(asked) => Armed(page')
    BY <2>3, <2>4, StaysArmed
  <2> QED
    BY <1>1, <2>3, <2>4, <2>5, Collect DEF Show, TypeOK
<1>2. CASE Reload
  <2>1. page' \in Pages /\ Armed(page') /\ page'.pending /\ page'.allowed = stored
    BY <1>2, Mounts DEF Reload
  <2>2. /\ cycle' = "idle" /\ settling' \in BOOLEAN /\ ~settling'
        /\ unsent' = unsent /\ stored' = stored
    BY <1>2 DEF Reload
  <2>3. TypeOK' /\ (stored <= page.allowed)'
    BY <2>1, <2>2 DEF TypeOK
  <2>4. /\ (cycle # "idle" => stored = 0)'
        /\ (cycle = "idle" /\ ~settling => Armed(page))'
        /\ ("here" \in unsent => page.pending \/ cycle = "uploading")'
    BY <2>1, <2>2
  <2> QED
    BY <2>3, <2>4, Collect
<1> QED
  BY <1>1, <1>2

\* A tick takes one from what is left and adds one to what has passed.
LEMMA Ticks ==
    /\ \A left \in Spans0 : /\ Shorter(left) \in Spans0
                            /\ (Shorter(left) = None) = (left = None)
    /\ \A left \in Nat : /\ Shorter(left) \in Nat
                         /\ Shorter(left) = (IF left = 0 THEN 0 ELSE left - 1)
    /\ \A age \in 0..Old : /\ Longer(age) \in 0..Old
                           /\ Longer(age) = (IF age < Old THEN age + 1 ELSE age)
<1>1. Old \in Nat /\ None \notin Int
  BY SpanTypes, SchedulerAssumption DEF SchedulerAssumption
<1> QED
  BY <1>1 DEF Shorter, Longer, Spans0

\* A tick takes as much from the timer as it may take from what it waits for.
LEMMA TickStep ==
    ASSUME IInv, Tick
    PROVE  IInv'
<1> USE Given
<1> DEFINE q == page'
<1>1. /\ page.timer \in Spans0 /\ page.periodic \in Spans0 /\ page.since \in 0..Old
      /\ page.hidden \in (0..Old) \cup {None}
  BY DEF Pages
<1>2. /\ q.visible = page.visible /\ q.online = page.online /\ q.pending = page.pending
      /\ q.timer = Shorter(page.timer) /\ q.allowed = Shorter(page.allowed)
      /\ q.since = Longer(page.since) /\ stored' = Shorter(stored)
  BY DEF Tick, Pages
<1>3. q \in Pages
  <2>1. /\ Shorter(page.timer) \in Spans0 /\ Shorter(page.periodic) \in Spans0
        /\ Shorter(page.allowed) \in Nat /\ Longer(page.since) \in 0..Old
        /\ (IF page.hidden = None THEN None ELSE Longer(page.hidden)) \in (0..Old) \cup {None}
    BY <1>1, Ticks
  <2> QED
    BY <2>1 DEF Tick, Pages
<1>4. stored' \in Nat /\ stored' <= q.allowed
  BY <1>2, Ticks
<1>5. Armed(page) => Armed(q)
  <2> SUFFICES ASSUME Armed(page), page.pending, page.visible
               PROVE  q.timer # None /\ q.timer <= Limit(q)
    BY <1>2 DEF Armed
  <2>1. page.timer # None /\ page.timer <= Limit(page)
    BY DEF Armed
  <2>2. page.timer \in Nat
    BY <1>1, <2>1 DEF Spans0
  <2>3. q.timer \in Nat /\ q.timer = (IF page.timer = 0 THEN 0 ELSE page.timer - 1)
    BY <1>2, <2>2, Ticks
  <2>4. q.timer # None
    BY <2>3, SchedulerAssumption DEF SchedulerAssumption
  <2>5. q.allowed = (IF page.allowed = 0 THEN 0 ELSE page.allowed - 1) /\ q.allowed \in Nat
    BY <1>2, Ticks
  <2>6. /\ q.since = (IF page.since < Old THEN page.since + 1 ELSE page.since)
        /\ page.since \in Nat /\ page.since <= Old /\ q.since \in Nat
    <3>1. /\ Longer(page.since) \in 0..Old
          /\ Longer(page.since) = (IF page.since < Old THEN page.since + 1 ELSE page.since)
      BY <1>1, Ticks
    <3>2. Old \in Nat
      BY SpanTypes
    <3> HIDE DEF q
    <3> QED
      BY <1>1, <1>2, <3>1, <3>2
  <2>7. /\ Limit(page) \in {Debounce, page.allowed, Gap - page.since,
                            IF page.online THEN 0 ELSE OfflineRecheck}
    BY LimitBounds
  <2>8. /\ Limit(q) \in Int /\ Debounce <= Limit(q) /\ q.allowed <= Limit(q)
        /\ Gap - q.since <= Limit(q)
        /\ IF page.online THEN 0 <= Limit(q) ELSE OfflineRecheck <= Limit(q)
    BY <1>2, <1>3, LimitBounds
  <2> HIDE DEF q
  <2>9. CASE page.timer = 0
    BY <2>4, <2>3, <2>8, <2>9, SpanTypes
  <2>10. CASE page.timer # 0 /\ Limit(page) = Debounce
    BY <2>4, <2>1, <2>2, <2>3, <2>8, <2>10, SpanTypes
  <2>11. CASE page.timer # 0 /\ Limit(page) = page.allowed
    BY <2>4, <2>1, <2>2, <2>3, <2>5, <2>8, <2>11
  <2>12. CASE page.timer # 0 /\ Limit(page) = Gap - page.since
    BY <2>4, <2>1, <2>2, <2>3, <2>6, <2>8, <2>12, SpanTypes
  <2>13. CASE page.timer # 0 /\ Limit(page) = IF page.online THEN 0 ELSE OfflineRecheck
    BY <2>4, <2>1, <2>2, <2>3, <2>8, <2>13, SpanTypes
  <2> QED
    BY <2>7, <2>9, <2>10, <2>11, <2>12, <2>13
<1>6. cycle' = cycle /\ settling' = settling /\ unsent' = unsent
  BY DEF Tick
<1>7. TypeOK'
  BY <1>3, <1>4, <1>6 DEF TypeOK
<1>8. (cycle # "idle" => stored = 0)'
  BY <1>2, <1>6, Ticks
<1> QED
  BY <1>2, <1>4, <1>5, <1>6, <1>7, <1>8, Collect

\* The timers fire: a run is asked for, put off, or started.
LEMMA TimerSteps ==
    ASSUME IInv, PeriodicFires \/ TimerFires
    PROVE  IInv'
<1> USE Given
<1>1. CASE PeriodicFires
  <2> DEFINE p == [page EXCEPT !.periodic = Period]
  <2>1. p \in Pages /\ p.allowed = page.allowed
    BY SpanTypes DEF Pages, Spans0
  <2>2. page' = RequestRun(p, 0, InFlight)
    BY <1>1 DEF PeriodicFires
  <2> HIDE DEF p
  <2>3. /\ page' \in Pages /\ page'.pending /\ page'.allowed = page.allowed
        /\ cycle = "idle" => Armed(page')
    BY <2>1, <2>2, Asks
  <2> QED
    BY <1>1, <2>3, Collect DEF PeriodicFires, TypeOK
<1>2. CASE TimerFires
  <2> DEFINE p == [page EXCEPT !.timer = None]
  <2>1. /\ p \in Pages /\ p.allowed = page.allowed /\ p.pending = page.pending
        /\ p.visible = page.visible
    BY DEF Pages, Spans0
  <2>2. settling' = settling /\ unsent' = unsent /\ stored' = stored
    BY <1>2 DEF TimerFires
  <2>3. CASE InFlight \/ ~p.pending \/ ~p.visible
    <3>1. page' = p /\ cycle' = cycle
      BY <1>2, <2>3 DEF TimerFires
    <3>2. cycle = "idle" => Armed(page')
      BY <2>3, <3>1 DEF Armed
    <3> QED
      BY <2>1, <2>2, <3>1, <3>2, Collect DEF TypeOK
  <2>4. CASE ~(InFlight \/ ~p.pending \/ ~p.visible) /\ ~MayStart(p)
    <3>1. page' = SchedulePending(p, 0) /\ cycle' = cycle
      BY <1>2, <2>4 DEF TimerFires
    <3> HIDE DEF p
    <3>2. /\ page' \in Pages /\ Armed(page') /\ page'.pending = page.pending
          /\ page'.allowed = page.allowed
      BY <2>1, <3>1, Schedules
    <3> QED
      BY <2>2, <3>1, <3>2, Collect DEF TypeOK
  <2>5. CASE ~(InFlight \/ ~p.pending \/ ~p.visible) /\ MayStart(p)
    <3>1. page' = [p EXCEPT !.pending = FALSE, !.since = 0] /\ cycle' = "uploading"
      BY <1>2, <2>5 DEF TimerFires
    <3>2. page.allowed = 0
      BY <2>1, <2>5 DEF MayStart
    <3> HIDE DEF p
    <3>0. 0 \in 0..Old /\ FALSE \in BOOLEAN
      BY SpanTypes
    <3>3. page' \in Pages /\ page'.allowed = 0
      BY <2>1, <3>0, <3>1, <3>2 DEF Pages
    <3> QED
      BY <2>2, <3>1, <3>2, <3>3, Collect DEF TypeOK
  <2> QED
    BY <2>3, <2>4, <2>5
<1> QED
  BY <1>1, <1>2
\* The cycle runs on, ends, or fails; what it leaves pending is scheduled when its end
\* has been noted.
LEMMA CycleSteps ==
    ASSUME IInv,
           Upload \/ RecordCompletedSync \/ Succeed \/ Fail \/ FailAtLimit \/ Settle
           \/ ManualSync
    PROVE  IInv'
<1> USE Given
<1>1. CASE Upload
  BY <1>1, Collect DEF Upload, TypeOK
<1>2. CASE RecordCompletedSync
  BY <1>2, Collect DEF RecordCompletedSync, TypeOK
<1>3. CASE Succeed
  <2>1. 0 \in 0..Len(RetryBackoff) /\ 0 \in Nat
    BY SpanTypes
  <2>2. page' \in Pages /\ page'.allowed = 0 /\ page'.pending = page.pending
    BY <1>3, <2>1 DEF Succeed, Pages
  <2>3. /\ cycle' = "idle" /\ settling' \in BOOLEAN /\ settling'
        /\ stored' = 0 /\ unsent' = unsent /\ unsent = {}
    BY <1>3 DEF Succeed
  <2> QED
    BY <2>2, <2>3, Collect DEF TypeOK
<1> DEFINE f == IF page.fails < Len(RetryBackoff) THEN page.fails + 1 ELSE page.fails
<1>4. ASSUME NEW n \in Nat, page' = PutOff(n)
      PROVE  page' \in Pages /\ page'.allowed = n /\ page'.pending
  <2>1. page.fails \in 0..Len(RetryBackoff)
    BY DEF Pages
  <2>2. f \in 0..Len(RetryBackoff)
    BY <2>1, SpanTypes
  <2>3. page' = [page EXCEPT !.allowed = n, !.pending = TRUE, !.fails = f]
    BY <1>4 DEF PutOff
  <2> HIDE DEF f
  <2> QED
    BY <2>2, <2>3 DEF Pages
<1>5. CASE Fail
  <2> DEFINE S == {page.fails + 1, Len(RetryBackoff)}
             n == Min(S)
  <2>1. page.fails \in Nat /\ Len(RetryBackoff) \in Nat /\ Len(RetryBackoff) > 0
    BY SpanTypes DEF Pages
  <2>2. \E x \in S : \A y \in S : x <= y
    BY <2>1
  <2>3. n \in S /\ \A y \in S : n <= y
    <3> HIDE DEF S
    <3> QED
      BY <2>2 DEF Min
  <2>4. n \in 1..Len(RetryBackoff)
    <3> HIDE DEF n
    <3> QED
      BY <2>1, <2>3
  <2>5. \E j \in 0..Jitter : page' = PutOff(RetryBackoff[n] + j)
    BY <1>5 DEF Fail
  <2> HIDE DEF n
  <2>6. PICK j \in 0..Jitter : page' = PutOff(RetryBackoff[n] + j)
    BY <2>5
  <2>7. RetryBackoff[n] + j \in Nat
    BY <2>4, SpanTypes
  <2>8. page' \in Pages /\ page'.pending /\ page'.allowed \in Nat
    BY <1>4, <2>6, <2>7
  <2>9. /\ cycle' = "idle" /\ settling' \in BOOLEAN /\ settling'
        /\ stored' = stored /\ unsent' = unsent /\ stored = 0
    BY <1>5 DEF Fail
  <2> QED
    BY <2>8, <2>9, Collect DEF TypeOK
<1>6. CASE FailAtLimit
  <2>1. PICK j \in 0..Jitter : /\ page' = PutOff(BudgetBackoff + j)
                               /\ stored' \in {BudgetBackoff + j, stored}
    BY <1>6 DEF FailAtLimit
  <2>2. BudgetBackoff + j \in Nat
    BY SpanTypes
  <2>3. page' \in Pages /\ page'.pending /\ page'.allowed = BudgetBackoff + j
    BY <1>4, <2>1, <2>2
  <2>4. /\ cycle' = "idle" /\ settling' \in BOOLEAN /\ settling'
        /\ unsent' = unsent /\ stored = 0
    BY <1>6 DEF FailAtLimit
  <2>5. stored' \in Nat /\ stored' <= page'.allowed
    BY <2>1, <2>2, <2>3, <2>4
  <2> QED
    BY <2>3, <2>4, <2>5, Collect DEF TypeOK
<1>7. CASE Settle
  <2>1. /\ cycle' = cycle /\ settling' \in BOOLEAN /\ ~settling'
        /\ stored' = stored /\ unsent' = unsent
    BY <1>7 DEF Settle
  <2>2. CASE InFlight
    <3>1. page' = page
      BY <1>7, <2>2 DEF Settle
    <3> QED
      BY <2>1, <2>2, <3>1, Collect DEF TypeOK
  <2>3. CASE ~InFlight
    <3>1. page' = SchedulePending(page, 0)
      BY <1>7, <2>3 DEF Settle
    <3>2. /\ page' \in Pages /\ Armed(page') /\ page'.pending = page.pending
          /\ page'.allowed = page.allowed
      BY <3>1, Schedules
    <3> QED
      BY <2>1, <3>2, Collect DEF TypeOK
  <2> QED
    BY <2>2, <2>3
<1>8. CASE ManualSync
  BY <1>8, Collect DEF ManualSync, TypeOK
<1> QED
  BY <1>1, <1>2, <1>3, <1>5, <1>6, <1>7, <1>8

-----------------------------------------------------------------------------
(* The theorems.                                                           *)

\* Every step keeps the invariant.
LEMMA NextIInv == IInv /\ [Next]_vars => IInv'
<1> SUFFICES ASSUME IInv, [Next]_vars PROVE IInv'
  OBVIOUS
<1>1. CASE UNCHANGED vars
  BY <1>1 DEF vars, IInv, TypeOK, PauseKept, TriggerHeld, InFlight
<1>2. CASE Next
  BY <1>2, PageSteps, ShowSteps, TickStep, TimerSteps, CycleSteps DEF Next
<1> QED
  BY <1>1, <1>2

\* The strengthened invariant holds in every reachable state.
THEOREM SchedulerInvariant == Spec => []IInv
<1> QED
  BY InitIInv, NextIInv, PTL DEF Spec

\* No trigger is dropped: over failures, pauses, reloads, lost connections and pages in
\* the background, what is pending in a visible page has a timer that is not too late.
THEOREM TriggersKept == Spec => []TriggerHeld
<1>1. IInv => TriggerHeld
  BY DEF IInv
<1> QED
  BY <1>1, SchedulerInvariant, PTL

\* While storage holds a pause the service asked for, no cycle starts on its own.
THEOREM PausesHonoured == Spec => PauseHonoured
<1>1. IInv /\ [Next]_vars => [cycle = "idle" /\ cycle' = "uploading" => stored = 0]_vars
  <2> SUFFICES ASSUME IInv, Next, cycle = "idle", cycle' = "uploading"
               PROVE  stored = 0
    OBVIOUS
  <2>1. TimerFires
    BY DEF Next, LocalEdit, EditElsewhere, GoOffline, GoOnline, Hide, Show, Reload, Tick,
           PeriodicFires, Upload, RecordCompletedSync, Succeed, Fail, FailAtLimit, Settle,
           ManualSync
  <2> DEFINE p == [page EXCEPT !.timer = None]
  <2>2. MayStart(p)
    BY <2>1 DEF TimerFires
  <2>3. p.allowed = page.allowed
    BY Given DEF Pages
  <2> QED
    BY <2>2, <2>3, Given DEF MayStart
<1> QED
  BY <1>1, SchedulerInvariant, PTL DEF Spec, PauseHonoured
=============================================================================
