------------------------- MODULE UsageBudget_proofs -------------------------
(***************************************************************************)
(* Proofs about UsageBudget: while no reconciliation falls inside the      *)
(* maintenance job, the totals are exact (LedgerExact) and the ceilings    *)
(* hold up to overruns (CeilingsHold); a fault is only ever cleared on a   *)
(* ledger without open or unresolved reservations (FaultClearedClean).     *)
(*                                                                         *)
(* Totals are sums over the ledger, so the first part derives the laws of  *)
(* finite sums from the definition of the fold.                            *)
(***************************************************************************)
EXTENDS UsageBudget, FiniteSetTheorems, WellFoundedInduction, TLAPS

-----------------------------------------------------------------------------
(* The inductive invariant.                                                *)

\* What a row of the ledger says of the other tables.
RowFits(i) ==
    LET row == ledger[i] IN
    /\ row.state = "none" => row.reserved = 0 /\ row.committed = 0
    /\ row.state = "reserved" => row.committed = 0
    /\ row.state # "none" => row.day <= day
    /\ row.state # "none" /\ row.day >= FirstDay => <<row.scope, row.day>> \in buckets
    /\ row.state = "reserved" /\ Running(i[1]) => row.day >= day - 1
    /\ row.state = "reserved" /\ row.failure # "none" => request[i[1]].pc = "done"
RowsFit == \A i \in Ids : RowFits(i)

\* Whoever has not reserved has no row; what a request holds is open until it
\* settles.
RequestHolds(q) ==
    LET pc == request[q].pc IN
    /\ pc \in {"new", "route"} =>
          request[q].held = {} /\ \A x \in Suffixes : ledger[<<q, x>>].state = "none"
    /\ pc = "vault" => /\ request[q].vault # None
                       /\ request[q].held \subseteq {"route"}
                       /\ ledger[<<q, "vault">>].state = "none"
    /\ pc \in {"vault", "work", "observe", "batch"} =>
          \A x \in request[q].held : ledger[<<q, x>>].state = "reserved"
RequestsHold == \A q \in Requests : RequestHolds(q)

\* A daily bucket, also one about to expire, is the sum over its day.
BucketsExact ==
    /\ \A s \in Scopes, d \in Days :
          daily[s][d] = IF <<s, d>> \in buckets THEN Charged(ledger, s, d) ELSE 0
    /\ \A b \in buckets : b[2] <= day

RollingExact == \A s \in Scopes : rolling[s] = SumOfDays(daily[s])

\* What the maintenance read is still there, and past the expiry nothing is
\* left to expire.
CronKnows ==
    /\ cron.pc = "expire" =>
          /\ cron.expired = {b \in buckets : b[2] < FirstDay}
          /\ \A s \in Scopes, d \in Days :
                cron.read[s][d] = IF <<s, d>> \in cron.expired THEN daily[s][d] ELSE 0
    /\ cron.pc = "stale" => \A b \in buckets : b[2] >= FirstDay

\* What one row is over by on the days of a scope, and all of them.
OverOf(rows, i, s, days) ==
    IF rows[i].scope = s /\ rows[i].day \in days
    THEN NotBelowZero(rows[i].committed - rows[i].reserved) ELSE 0
OverrunIn(rows, s, days) == SumFunction([i \in Ids |-> OverOf(rows, i, s, days)])

\* The ceilings, day by day: an overrun leaves the total with its bucket.
OverrunsOfDays(s) ==
    [d \in Days |-> IF <<s, d>> \in buckets THEN OverrunIn(ledger, s, {d}) ELSE 0]
CeilingsKept ==
    \A s \in Scopes :
        /\ rolling[s] <= RollingCeiling[s] + SumOfDays(OverrunsOfDays(s))
        /\ daily[s][day] <= DailyCeiling[s] + OverrunIn(ledger, s, {day})

\* What a reconciliation is about to write.
InWindow(d, today) == today - (Window - 1) <= d /\ d <= today
PlanFits ==
    /\ plan.pc = "apply" =>
          /\ plan.day \in Days
          /\ plan.counts \in [Scopes -> [Days -> Nat]]
          /\ plan.totals = [s \in Scopes |-> SumOfDays(plan.counts[s])]
          /\ \A s \in Scopes, d \in Days : ~InWindow(d, plan.day) => plan.counts[s][d] = 0
          /\ plan.rows \subseteq {b \in Scopes \X Days : InWindow(b[2], plan.day)}
          /\ \A b \in plan.buckets : InWindow(b[2], plan.day) => b \in plan.rows
          /\ \A s \in Scopes : /\ plan.totals[s] <= RollingCeiling[s]
                               /\ plan.counts[s][plan.day] <= DailyCeiling[s]
          /\ \A i \in DOMAIN plan.open : Repairable(plan.open[i])
    /\ plan.pc = "rows" => plan.open \subseteq Ids

IInv ==
    /\ TypeOK /\ RowsFit /\ RequestsHold /\ BucketsExact /\ RollingExact
    /\ CronKnows /\ CeilingsKept /\ PlanFits

-----------------------------------------------------------------------------
(* Sums over finite sets.                                                  *)

\* Whatever holds at zero and passes on to the next number holds of all.
LEMMA NumbersInTurn ==
    ASSUME NEW P, 0 \in P, \A n \in Nat : n \in P => n + 1 \in P
    PROVE  Nat \subseteq P
<1> DEFINE R == {ss \in Nat \X Nat : ss[1] < ss[2]}
           S == Nat \ P
<1>1. \A x, y \in Nat : <<y, x>> \in R <=> y < x
  OBVIOUS
<1>2. IsWellFoundedOn(R, Nat)
  BY NatLessThanWellFounded, Zenon DEF OpToRel
<1> HIDE DEF R
<1>3. SUFFICES ASSUME S # {}
               PROVE  FALSE
  OBVIOUS
<1>4. \E x \in S : \A y \in S : ~(<<y, x>> \in R)
  <2>1. S \subseteq Nat
    OBVIOUS
  <2> HIDE DEF S
  <2> QED
    BY <1>2, <1>3, <2>1, WFMin
<1>5. PICK x \in S : \A y \in S : ~(<<y, x>> \in R)
  BY <1>4
<1>6. x \in Nat /\ x # 0 /\ x - 1 \in Nat /\ x - 1 < x
  OBVIOUS
<1>7. x - 1 \in P
  BY <1>1, <1>5, <1>6
<1> QED
  BY <1>6, <1>7

\* Whatever holds of the empty set and passes on when one element is added
\* holds of a finite set.
LEMMA ElementsInTurn ==
    ASSUME NEW S, IsFiniteSet(S), NEW P, {} \in P,
           \A T \in SUBSET S, x \in S : T \in P /\ x \notin T => T \cup {x} \in P
    PROVE  S \in P
<1> DEFINE Q == {n \in Nat : \A T \in SUBSET S : Cardinality(T) = n => T \in P}
<1>1. 0 \in Q
  <2>1. ASSUME NEW T \in SUBSET S, Cardinality(T) = 0
        PROVE  T \in P
    <3>1. IsFiniteSet(T)
      BY FS_Subset
    <3> QED
      BY <2>1, <3>1, FS_EmptySet
  <2> QED
    BY <2>1
<1>2. ASSUME NEW n \in Nat, n \in Q
      PROVE  n + 1 \in Q
  <2>1. ASSUME NEW T \in SUBSET S, Cardinality(T) = n + 1
        PROVE  T \in P
    <3>1. IsFiniteSet(T) /\ T # {}
      BY <2>1, FS_Subset, FS_EmptySet
    <3>2. PICK x \in T : TRUE
      BY <3>1
    <3>3. Cardinality(T \ {x}) = Cardinality(T) - 1
      BY ONLY <3>1, <3>2, FS_RemoveElement
    <3>4. T \ {x} \in P
      BY <1>2, <2>1, <3>3
    <3>5. (T \ {x}) \cup {x} \in P
      BY <3>4
    <3> QED
      BY <3>5
  <2> QED
    BY <2>1
<1> HIDE DEF Q
<1>3. Nat \subseteq Q
  BY <1>1, <1>2, NumbersInTurn
<1>4. Cardinality(S) \in Q
  BY <1>3, FS_CardinalityType
<1> QED
  BY <1>4 DEF Q

\* The function the fold is defined by, on the parts of a set.
Pick(s) == CHOOSE x \in s : TRUE
Partial(f, U, h) ==
    h = [s \in U |-> IF s = {} THEN 0 ELSE f[Pick(s)] + h[s \ {Pick(s)}]]

\* A sum is what that function gives for the whole set.
LEMMA SumIs ==
    ASSUME NEW f, NEW T
    PROVE  SumFunctionOnSet(f, T) = (CHOOSE h : Partial(f, SUBSET T, h))[T]
BY DEF SumFunctionOnSet, FoldFunctionOnSet, MapThenFoldSet, Partial, Pick

\* There is one.
LEMMA PartialExists ==
    ASSUME NEW f, NEW T, IsFiniteSet(T)
    PROVE  \E h : Partial(f, SUBSET T, h)
<1> DEFINE U(n) == {s \in SUBSET T : Cardinality(s) <= n}
           P == {n \in Nat : \E h : Partial(f, U(n), h)}
<1>1. 0 \in P
  <2> DEFINE h == [s \in U(0) |-> 0]
  <2>1. \A s \in U(0) : s = {}
    BY FS_Subset, FS_EmptySet, FS_CardinalityType
  <2>2. Partial(f, U(0), h)
    BY <2>1 DEF Partial
  <2> QED
    BY <2>2
<1>2. ASSUME NEW n \in Nat, n \in P
      PROVE  n + 1 \in P
  <2>1. PICK h : Partial(f, U(n), h)
    BY <1>2
  <2> DEFINE g == [s \in U(n + 1) |-> IF s = {} THEN 0 ELSE f[Pick(s)] + h[s \ {Pick(s)}]]
  <2>2. ASSUME NEW s \in U(n + 1), s # {}
        PROVE  s \ {Pick(s)} \in U(n)
    <3>1. Pick(s) \in s
      BY <2>2 DEF Pick
    <3>2. IsFiniteSet(s)
      BY FS_Subset
    <3>3. Cardinality(s \ {Pick(s)}) = Cardinality(s) - 1 /\ Cardinality(s) \in Nat
      BY <3>1, <3>2, FS_RemoveElement, FS_CardinalityType
    <3> QED
      BY <3>3
  <2>3. U(n) \subseteq U(n + 1)
    BY FS_Subset, FS_CardinalityType
  <2>4. ASSUME NEW s \in U(n)
        PROVE  g[s] = h[s]
    <3>1. s \in U(n + 1)
      BY <2>3
    <3>2. h[s] = IF s = {} THEN 0 ELSE f[Pick(s)] + h[s \ {Pick(s)}]
      <4> HIDE DEF U
      <4> QED
        BY <2>1 DEF Partial
    <3> HIDE DEF U
    <3> QED
      BY <3>1, <3>2
  <2>5. Partial(f, U(n + 1), g)
    <3>1. ASSUME NEW s \in U(n + 1)
          PROVE  (IF s = {} THEN 0 ELSE f[Pick(s)] + h[s \ {Pick(s)}])
                 = (IF s = {} THEN 0 ELSE f[Pick(s)] + g[s \ {Pick(s)}])
      <4>1. s # {} => g[s \ {Pick(s)}] = h[s \ {Pick(s)}]
        <5> HIDE DEF U, g
        <5> QED
          BY <2>2, <2>4
      <4> HIDE DEF U, g
      <4> QED
        BY <4>1
    <3>2. g = [s \in U(n + 1) |-> IF s = {} THEN 0 ELSE f[Pick(s)] + h[s \ {Pick(s)}]]
      OBVIOUS
    <3> HIDE DEF U, g
    <3> QED
      <4> DEFINE V == U(n + 1)
                 G == [s \in V |-> IF s = {} THEN 0 ELSE f[Pick(s)] + g[s \ {Pick(s)}]]
      <4>1. \A s \in V : g[s] = G[s]
        BY <3>1, <3>2
      <4>2. g = [s \in V |-> g[s]] /\ G = [s \in V |-> G[s]]
        BY <3>2
      <4>3. g = G
        <5> HIDE DEF G, V
        <5> QED
          BY <4>1, <4>2
      <4> QED
        BY <4>3 DEF Partial
  <2> HIDE DEF U, g
  <2> QED
    BY <2>5
<1> HIDE DEF P
<1>3. Cardinality(T) \in P
  BY <1>1, <1>2, NumbersInTurn, FS_CardinalityType
<1>4. U(Cardinality(T)) = SUBSET T
  BY FS_Subset, FS_CardinalityType
<1> QED
  BY <1>3, <1>4 DEF P

\* And no other: two of them agree wherever both are defined.
LEMMA PartialUnique ==
    ASSUME NEW f, NEW T, IsFiniteSet(T), NEW S \in SUBSET T, NEW h, NEW g,
           Partial(f, SUBSET T, h), Partial(f, SUBSET S, g)
    PROVE  h[S] = g[S]
<1> DEFINE P == {n \in Nat : \A s \in SUBSET S : Cardinality(s) = n => h[s] = g[s]}
<1>1. ASSUME NEW s \in SUBSET S
      PROVE  /\ h[s] = IF s = {} THEN 0 ELSE f[Pick(s)] + h[s \ {Pick(s)}]
             /\ g[s] = IF s = {} THEN 0 ELSE f[Pick(s)] + g[s \ {Pick(s)}]
             /\ IsFiniteSet(s)
  <2>1. s \in SUBSET T
    OBVIOUS
  <2>2. h[s] = IF s = {} THEN 0 ELSE f[Pick(s)] + h[s \ {Pick(s)}]
    BY <2>1 DEF Partial
  <2>3. g[s] = IF s = {} THEN 0 ELSE f[Pick(s)] + g[s \ {Pick(s)}]
    BY DEF Partial
  <2> QED
    BY <2>1, <2>2, <2>3, FS_Subset
<1>2. 0 \in P
  BY <1>1, FS_EmptySet
<1>3. ASSUME NEW n \in Nat, n \in P
      PROVE  n + 1 \in P
  <2>1. ASSUME NEW s \in SUBSET S, Cardinality(s) = n + 1
        PROVE  h[s] = g[s]
    <3>1. s # {}
      BY <2>1, FS_EmptySet
    <3>2. Pick(s) \in s
      BY <3>1 DEF Pick
    <3>3. Cardinality(s \ {Pick(s)}) = Cardinality(s) - 1
      BY <1>1, <3>2, FS_RemoveElement
    <3>4. h[s \ {Pick(s)}] = g[s \ {Pick(s)}]
      BY <1>3, <2>1, <3>3
    <3> QED
      BY <1>1, <3>1, <3>4
  <2> QED
    BY <2>1
<1> HIDE DEF P
<1>4. Nat \subseteq P
  BY <1>2, <1>3, NumbersInTurn
<1>5. Cardinality(S) \in P /\ S \in SUBSET S
  BY <1>1, <1>4, FS_CardinalityType
<1> QED
  BY <1>5 DEF P

\* The sum over nothing; and over a set, from the element the fold picks.
LEMMA SumPicks ==
    ASSUME NEW f, NEW T, IsFiniteSet(T)
    PROVE  SumFunctionOnSet(f, T) =
               IF T = {} THEN 0
               ELSE f[Pick(T)] + SumFunctionOnSet(f, T \ {Pick(T)})
<1> DEFINE S == T \ {Pick(T)}
           h == CHOOSE k : Partial(f, SUBSET T, k)
           g == CHOOSE k : Partial(f, SUBSET S, k)
<1>1. S \in SUBSET T /\ IsFiniteSet(S)
  BY FS_Subset
<1>2. Partial(f, SUBSET T, h)
  BY PartialExists, Zenon
<1>3. Partial(f, SUBSET S, g)
  <2> HIDE DEF S
  <2> QED
    BY <1>1, PartialExists, Zenon
<1>4. SumFunctionOnSet(f, T) = h[T] /\ SumFunctionOnSet(f, S) = g[S]
  <2> HIDE DEF S
  <2> QED
    BY SumIs, Zenon
<1> HIDE DEF h, g
<1>5. h[S] = g[S]
  <2> HIDE DEF S
  <2> QED
    BY <1>1, <1>2, <1>3, PartialUnique
<1>6. h[T] = IF T = {} THEN 0 ELSE f[Pick(T)] + h[T \ {Pick(T)}]
  BY <1>2 DEF Partial
<1> QED
  BY <1>4, <1>5, <1>6

\* A sum of integers is one, and any element may be taken first.
LEMMA SumTakes ==
    ASSUME NEW T, IsFiniteSet(T), NEW f, \A i \in T : f[i] \in Int
    PROVE  /\ SumFunctionOnSet(f, T) \in Int
           /\ \A x \in T : SumFunctionOnSet(f, T) = f[x] + SumFunctionOnSet(f, T \ {x})
<1> DEFINE Good(s) == /\ SumFunctionOnSet(f, s) \in Int
                      /\ \A x \in s :
                            SumFunctionOnSet(f, s) = f[x] + SumFunctionOnSet(f, s \ {x})
           P == {n \in Nat : \A s \in SUBSET T : Cardinality(s) <= n => Good(s)}
<1>1. ASSUME NEW s \in SUBSET T
      PROVE  /\ IsFiniteSet(s)
             /\ SumFunctionOnSet(f, s) = IF s = {} THEN 0
                   ELSE f[Pick(s)] + SumFunctionOnSet(f, s \ {Pick(s)})
  BY SumPicks, FS_Subset
<1>2. 0 \in P
  <2>1. ASSUME NEW s \in SUBSET T, Cardinality(s) <= 0
        PROVE  Good(s)
    <3>1. s = {}
      <4>1. IsFiniteSet(s) /\ Cardinality(s) \in Nat
        BY <1>1, FS_CardinalityType
      <4>2. Cardinality(s) = 0
        BY <2>1, <4>1
      <4> QED
        BY <4>1, <4>2, FS_EmptySet
    <3>2. SumFunctionOnSet(f, s) = 0
      BY <1>1, <3>1
    <3> QED
      BY <3>1, <3>2
  <2> QED
    BY <2>1
<1>3. ASSUME NEW n \in Nat, n \in P
      PROVE  n + 1 \in P
  <2>1. ASSUME NEW s \in SUBSET T, Cardinality(s) <= n + 1, s # {}
        PROVE  Good(s)
    <3> DEFINE p == Pick(s)
    <3>1. s # {} /\ p \in s
      BY <2>1 DEF Pick
    <3>2. SumFunctionOnSet(f, s) = f[p] + SumFunctionOnSet(f, s \ {p})
      BY <1>1, <3>1
    <3> HIDE DEF p
    <3>3. ASSUME NEW x \in s
          PROVE  Good(s \ {x})
      <4>1. Cardinality(s \ {x}) = Cardinality(s) - 1 /\ Cardinality(s) \in Nat
        BY <1>1, FS_RemoveElement, FS_CardinalityType
      <4> HIDE DEF Good
      <4> QED
        BY <1>3, <2>1, <4>1
    <3>4. SumFunctionOnSet(f, s) \in Int
      BY <3>1, <3>2, <3>3
    <3>5. ASSUME NEW x \in s
          PROVE  SumFunctionOnSet(f, s) = f[x] + SumFunctionOnSet(f, s \ {x})
      <4>1. CASE x = p
        BY <3>2, <4>1
      <4>2. CASE x # p
        <5> DEFINE r == s \ {p, x}
        <5>1. (s \ {p}) \ {x} = r /\ (s \ {x}) \ {p} = r
          OBVIOUS
        <5>2. SumFunctionOnSet(f, s \ {p}) = f[x] + SumFunctionOnSet(f, r)
          BY <3>1, <3>3, <4>2, <5>1
        <5>3. SumFunctionOnSet(f, s \ {x}) = f[p] + SumFunctionOnSet(f, r)
          BY <3>1, <3>3, <4>2, <5>1
        <5>5. SumFunctionOnSet(f, r) \in Int
          <6>1. IsFiniteSet(s \ {x}) /\ p \in s \ {x}
            BY <1>1, <3>1, <4>2
          <6>2. Cardinality(r) = Cardinality(s \ {x}) - 1
            BY ONLY <5>1, <6>1, FS_RemoveElement
          <6>3. /\ Cardinality(s \ {x}) = Cardinality(s) - 1
                /\ Cardinality(s) \in Nat
            BY <1>1, FS_RemoveElement, FS_CardinalityType
          <6>4. r \in SUBSET T /\ Cardinality(r) <= n
            BY <2>1, <6>2, <6>3
          <6>5. Good(r)
            <7> HIDE DEF Good
            <7> QED
              BY <1>3, <6>4
          <6> QED
            BY <6>5
        <5> QED
          BY <3>1, <3>2, <5>2, <5>3, <5>5
      <4> QED
        BY <4>1, <4>2
    <3> QED
      BY <3>4, <3>5
  <2>2. ASSUME NEW s \in SUBSET T, s = {}
        PROVE  Good(s)
    <3>1. SumFunctionOnSet(f, s) = 0
      BY <1>1, <2>2
    <3> QED
      BY <2>2, <3>1
  <2> HIDE DEF Good
  <2> QED
    BY <2>1, <2>2
<1> HIDE DEF P
<1>4. Cardinality(T) \in P
  BY <1>2, <1>3, NumbersInTurn, FS_CardinalityType
<1> QED
  BY <1>4 DEF P

\* One element more.
LEMMA SumStep ==
    ASSUME NEW T, IsFiniteSet(T), NEW f, \A i \in T : f[i] \in Int,
           NEW x, x \notin T, f[x] \in Int
    PROVE  /\ SumFunctionOnSet(f, {}) = 0
           /\ SumFunctionOnSet(f, T) \in Int
           /\ SumFunctionOnSet(f, T \cup {x}) = f[x] + SumFunctionOnSet(f, T)
<1> DEFINE S == T \cup {x}
<1>1. IsFiniteSet(S) /\ IsFiniteSet({}) /\ S \ {x} = T /\ x \in S
  BY FS_AddElement, FS_EmptySet
<1>2. SumFunctionOnSet(f, {}) = 0
  BY <1>1, SumPicks
<1>3. SumFunctionOnSet(f, T) \in Int
  BY SumTakes
<1>4. \A i \in S : f[i] \in Int
  OBVIOUS
<1> HIDE DEF S
<1>5. SumFunctionOnSet(f, S) = f[x] + SumFunctionOnSet(f, S \ {x})
  BY <1>1, <1>4, SumTakes
<1> QED
  BY <1>1, <1>2, <1>3, <1>5 DEF S

\* Sums add up.
LEMMA SumAdds ==
    ASSUME NEW D, IsFiniteSet(D), NEW f \in [D -> Int], NEW g \in [D -> Int],
           NEW h \in [D -> Int], \A i \in D : h[i] = f[i] + g[i]
    PROVE  /\ SumFunction(h) = SumFunction(f) + SumFunction(g)
           /\ SumFunction(f) \in Int /\ SumFunction(g) \in Int
<1> DEFINE P == {T \in SUBSET D : SumFunctionOnSet(h, T)
                                    = SumFunctionOnSet(f, T) + SumFunctionOnSet(g, T)}
<1>1. {} \in P
  <2>1. \A k : SumFunctionOnSet(k, {}) = 0
    BY SumPicks, FS_EmptySet
  <2> QED
    BY <2>1
<1>2. ASSUME NEW T \in SUBSET D, NEW x \in D, T \in P, x \notin T
      PROVE  T \cup {x} \in P
  <2>1. IsFiniteSet(T)
    BY FS_Subset
  <2>2. /\ SumFunctionOnSet(f, T) \in Int
        /\ SumFunctionOnSet(f, T \cup {x}) = f[x] + SumFunctionOnSet(f, T)
    BY <1>2, <2>1, SumStep
  <2>3. /\ SumFunctionOnSet(g, T) \in Int
        /\ SumFunctionOnSet(g, T \cup {x}) = g[x] + SumFunctionOnSet(g, T)
    BY <1>2, <2>1, SumStep
  <2>4. SumFunctionOnSet(h, T \cup {x}) = h[x] + SumFunctionOnSet(h, T)
    BY <1>2, <2>1, SumStep
  <2> QED
    BY <1>2, <2>2, <2>3, <2>4
<1> HIDE DEF P
<1>3. D \in P
  BY <1>1, <1>2, ElementsInTurn
<1>4. SumFunctionOnSet(f, D) \in Int /\ SumFunctionOnSet(g, D) \in Int
  BY SumTakes
<1>5. DOMAIN f = D /\ DOMAIN g = D /\ DOMAIN h = D
  OBVIOUS
<1> QED
  BY <1>3, <1>4, <1>5 DEF P, SumFunction

\* A sum of integers is an integer, of numbers a number.
LEMMA SumTypes ==
    ASSUME NEW D, IsFiniteSet(D), NEW f \in [D -> Int]
    PROVE  /\ SumFunction(f) \in Int
           /\ (\A i \in D : f[i] >= 0) => SumFunction(f) >= 0
<1>1. SumFunctionOnSet(f, D) \in Int
  BY SumTakes
<1>2. ASSUME \A i \in D : f[i] >= 0
      PROVE  SumFunctionOnSet(f, D) >= 0
  <2> DEFINE P == {T \in SUBSET D : SumFunctionOnSet(f, T) >= 0}
  <2>1. {} \in P
    <3>1. SumFunctionOnSet(f, {}) = 0
      BY SumPicks, FS_EmptySet
    <3> QED
      BY <3>1
  <2>2. ASSUME NEW T \in SUBSET D, NEW x \in D, T \in P, x \notin T
        PROVE  T \cup {x} \in P
    <3>1. IsFiniteSet(T)
      BY FS_Subset
    <3>2. /\ SumFunctionOnSet(f, T) \in Int
          /\ SumFunctionOnSet(f, T \cup {x}) = f[x] + SumFunctionOnSet(f, T)
      BY <2>2, <3>1, SumStep
    <3> QED
      BY <1>2, <2>2, <3>2
  <2> HIDE DEF P
  <2>3. D \in P
    BY <2>1, <2>2, ElementsInTurn
  <2> QED
    BY <2>3 DEF P
<1>3. DOMAIN f = D
  OBVIOUS
<1> QED
  BY <1>1, <1>2, <1>3 DEF SumFunction

\* A sum of no more is no more.
LEMMA SumMonotone ==
    ASSUME NEW D, IsFiniteSet(D), NEW f \in [D -> Int], NEW g \in [D -> Int],
           \A i \in D : f[i] <= g[i]
    PROVE  SumFunction(f) <= SumFunction(g)
<1> DEFINE h == [i \in D |-> g[i] - f[i]]
<1>1. h \in [D -> Int] /\ \A i \in D : g[i] = f[i] + h[i] /\ h[i] >= 0
  OBVIOUS
<1> HIDE DEF h
<1>2. SumFunction(g) = SumFunction(f) + SumFunction(h)
  BY <1>1, SumAdds
<1>3. SumFunction(h) >= 0 /\ SumFunction(h) \in Int /\ SumFunction(f) \in Int
  BY <1>1, SumTypes
<1> QED
  BY <1>2, <1>3

\* A sum over what is zero but in one place.
LEMMA SumSingle ==
    ASSUME NEW D, IsFiniteSet(D), NEW f \in [D -> Int], NEW e \in D,
           \A i \in D : i # e => f[i] = 0
    PROVE  SumFunction(f) = f[e]
<1> DEFINE P == {T \in SUBSET D : SumFunctionOnSet(f, T) = IF e \in T THEN f[e] ELSE 0}
<1>1. {} \in P
  BY SumPicks, FS_EmptySet
<1>2. ASSUME NEW T \in SUBSET D, NEW x \in D, T \in P, x \notin T
      PROVE  T \cup {x} \in P
  <2>1. IsFiniteSet(T)
    BY FS_Subset
  <2>2. SumFunctionOnSet(f, T \cup {x}) = f[x] + SumFunctionOnSet(f, T)
    BY <1>2, <2>1, SumStep
  <2> QED
    BY <1>2, <2>2
<1> HIDE DEF P
<1>3. D \in P
  BY <1>1, <1>2, ElementsInTurn
<1>4. DOMAIN f = D
  OBVIOUS
<1> QED
  BY <1>3, <1>4 DEF P, SumFunction

\* Zeros add up to zero.
LEMMA SumZero ==
    ASSUME NEW D, IsFiniteSet(D), NEW f \in [D -> Int], \A i \in D : f[i] = 0
    PROVE  SumFunction(f) = 0
<1>1. CASE D = {}
  <2>1. DOMAIN f = {} /\ SumFunctionOnSet(f, {}) = 0
    BY <1>1, SumPicks, FS_EmptySet
  <2> QED
    BY <2>1 DEF SumFunction
<1>2. CASE D # {}
  <2>1. PICK e \in D : TRUE
    BY <1>2
  <2>2. SumFunction(f) = f[e]
    BY SumSingle
  <2> QED
    BY <2>2
<1> QED
  BY <1>1, <1>2

\* One term changes.
LEMMA SumChanges ==
    ASSUME NEW D, IsFiniteSet(D), NEW f \in [D -> Int], NEW e \in D, NEW x \in Int
    PROVE  SumFunction([f EXCEPT ![e] = x]) = SumFunction(f) + x - f[e]
<1> DEFINE g == [i \in D |-> IF i = e THEN x - f[e] ELSE 0]
           h == [f EXCEPT ![e] = x]
<1>1. g \in [D -> Int] /\ h \in [D -> Int]
  OBVIOUS
<1>2. \A i \in D : h[i] = f[i] + g[i]
  OBVIOUS
<1>3. g[e] = x - f[e] /\ \A i \in D : i # e => g[i] = 0
  OBVIOUS
<1> HIDE DEF g, h
<1>4. SumFunction(h) = SumFunction(f) + SumFunction(g) /\ SumFunction(f) \in Int
  BY <1>1, <1>2, SumAdds
<1>5. SumFunction(g) = x - f[e]
  BY <1>1, <1>3, SumSingle
<1> QED
  BY <1>4, <1>5 DEF h

-----------------------------------------------------------------------------
(* The sums of the model.                                                  *)

\* What one row adds to the charge of a scope and day, to the correction of
\* it by a request that settles.
ChargeOf(rows, i, s, d) ==
    IF rows[i].scope = s /\ rows[i].day = d THEN Charge(rows[i]) ELSE 0
CorrectionOf(q, i, s, d) ==
    IF i \in Held(q) /\ ledger[i].scope = s /\ ledger[i].day = d
    THEN Actual(q, i) - ledger[i].reserved ELSE 0

\* The sums of the model, row by row.
LEMMA SumsAre ==
    /\ \A rows, s, d : Charged(rows, s, d) = SumFunction([i \in Ids |-> ChargeOf(rows, i, s, d)])
    /\ \A q, s, d : Correction(q, s, d) = SumFunction([i \in Ids |-> CorrectionOf(q, i, s, d)])
    /\ \A s, days : Overrun(s, days) = OverrunIn(ledger, s, days)
BY DEF Charged, Correction, Overrun, OverrunIn, ChargeOf, CorrectionOf, OverOf

\* There are finitely many rows and days.
LEMMA FiniteSets ==
    IsFiniteSet(Ids) /\ IsFiniteSet(Days)
<1>1. IsFiniteSet(Suffixes)
  <2>1. IsFiniteSet({"route"}) /\ IsFiniteSet({"vault"})
    BY FS_Singleton
  <2>2. IsFiniteSet({"route"} \cup {"vault"})
    BY <2>1, FS_Union
  <2>3. Suffixes = {"route"} \cup {"vault"}
    BY DEF Suffixes
  <2> QED
    BY <2>2, <2>3
<1>2. IsFiniteSet(Ids)
  BY <1>1, BudgetAssumption, FS_Product DEF BudgetAssumption, Ids
<1>3. IsFiniteSet(Days)
  BY BudgetAssumption, FS_Interval DEF BudgetAssumption, Days
<1> QED
  BY <1>2, <1>3

\* The members of Rows.
LEMMA RowTypes ==
    ASSUME NEW row \in Rows
    PROVE  /\ row.state \in {"none", "reserved", "settled"} /\ row.scope \in Scopes
           /\ row.day \in Days /\ row.day \in Nat /\ row.kind \in AllKinds
           /\ row.reserved \in Nat /\ row.committed \in Nat /\ Charge(row) \in Nat
           /\ row.failure \in Reasons \cup {"none"} /\ row.reconciled \in BOOLEAN
<1>1. Days \subseteq Nat
  BY BudgetAssumption DEF BudgetAssumption, Days
<1> QED
  BY <1>1 DEF Rows, Charge

\* A charge is a number.
LEMMA ChargedTypes ==
    ASSUME NEW rows \in [Ids -> Rows], NEW s, NEW d
    PROVE  Charged(rows, s, d) \in Nat
<1> DEFINE f == [i \in Ids |-> ChargeOf(rows, i, s, d)]
<1>1. \A i \in Ids : ChargeOf(rows, i, s, d) \in Nat
  BY RowTypes DEF ChargeOf
<1>2. f \in [Ids -> Int] /\ \A i \in Ids : f[i] >= 0
  BY <1>1
<1>3. Charged(rows, s, d) = SumFunction(f)
  BY SumsAre
<1> HIDE DEF f
<1> QED
  BY <1>2, <1>3, FiniteSets, SumTypes

\* A charge depends on what the rows add to it, and goes where they go.
LEMMA ChargedMoves ==
    ASSUME NEW rows \in [Ids -> Rows], NEW new \in [Ids -> Rows], NEW s, NEW d,
           NEW g \in [Ids -> Int],
           \A i \in Ids : ChargeOf(new, i, s, d) = ChargeOf(rows, i, s, d) + g[i]
    PROVE  Charged(new, s, d) = Charged(rows, s, d) + SumFunction(g)
<1> DEFINE f == [i \in Ids |-> ChargeOf(rows, i, s, d)]
           h == [i \in Ids |-> ChargeOf(new, i, s, d)]
<1>1. \A i \in Ids : ChargeOf(rows, i, s, d) \in Nat /\ ChargeOf(new, i, s, d) \in Nat
  BY RowTypes DEF ChargeOf
<1>2. f \in [Ids -> Int] /\ h \in [Ids -> Int] /\ \A i \in Ids : h[i] = f[i] + g[i]
  BY <1>1
<1>3. Charged(rows, s, d) = SumFunction(f) /\ Charged(new, s, d) = SumFunction(h)
  BY SumsAre
<1> HIDE DEF f, h
<1>4. SumFunction(h) = SumFunction(f) + SumFunction(g)
  BY <1>2, FiniteSets, SumAdds
<1> QED
  BY <1>3, <1>4

\* One row changes.
LEMMA ChargedMovesOnce ==
    ASSUME NEW rows \in [Ids -> Rows], NEW new \in [Ids -> Rows], NEW s, NEW d,
           NEW e \in Ids, \A i \in Ids : i # e => new[i] = rows[i]
    PROVE  Charged(new, s, d)
             = Charged(rows, s, d) + ChargeOf(new, e, s, d) - ChargeOf(rows, e, s, d)
<1> DEFINE g == [i \in Ids |-> ChargeOf(new, i, s, d) - ChargeOf(rows, i, s, d)]
<1>1. \A i \in Ids : ChargeOf(rows, i, s, d) \in Nat /\ ChargeOf(new, i, s, d) \in Nat
  BY RowTypes DEF ChargeOf
<1>2. g \in [Ids -> Int]
  BY <1>1
<1>3. \A i \in Ids : ChargeOf(new, i, s, d) = ChargeOf(rows, i, s, d) + g[i]
  BY <1>1
<1>4. \A i \in Ids : i # e => g[i] = 0
  <2>1. ASSUME NEW i \in Ids, i # e
        PROVE  ChargeOf(new, i, s, d) = ChargeOf(rows, i, s, d)
    BY <2>1 DEF ChargeOf
  <2> QED
    BY <1>1, <2>1
<1>5. g[e] = ChargeOf(new, e, s, d) - ChargeOf(rows, e, s, d)
  OBVIOUS
<1> HIDE DEF g
<1>6. SumFunction(g) = g[e]
  BY <1>2, <1>4, FiniteSets, SumSingle
<1>7. Charged(new, s, d) = Charged(rows, s, d) + SumFunction(g)
  BY <1>2, <1>3, ChargedMoves
<1>8. Charged(rows, s, d) \in Nat
  BY ChargedTypes
<1> QED
  BY <1>1, <1>5, <1>6, <1>7, <1>8

\* No row counts differently: same charge.
LEMMA ChargedStays ==
    ASSUME NEW rows \in [Ids -> Rows], NEW new \in [Ids -> Rows], NEW s, NEW d,
           \A i \in Ids : ChargeOf(new, i, s, d) = ChargeOf(rows, i, s, d)
    PROVE  Charged(new, s, d) = Charged(rows, s, d)
BY SumsAre, Zenon

\* No row counts: no charge.
LEMMA ChargedNone ==
    ASSUME NEW rows \in [Ids -> Rows], NEW s, NEW d,
           \A i \in Ids : ChargeOf(rows, i, s, d) = 0
    PROVE  Charged(rows, s, d) = 0
<1> DEFINE f == [i \in Ids |-> ChargeOf(rows, i, s, d)]
<1>1. f \in [Ids -> Int] /\ \A i \in Ids : f[i] = 0
  OBVIOUS
<1>2. Charged(rows, s, d) = SumFunction(f)
  BY SumsAre
<1> HIDE DEF f
<1> QED
  BY <1>1, <1>2, FiniteSets, SumZero

\* What is over is a number.
LEMMA OverTypes ==
    ASSUME NEW rows \in [Ids -> Rows], NEW i \in Ids, NEW s, NEW days
    PROVE  OverOf(rows, i, s, days) \in Nat
BY RowTypes DEF OverOf, NotBelowZero

\* What all are over is a number as well.
LEMMA OverrunTypes ==
    ASSUME NEW rows \in [Ids -> Rows], NEW s, NEW days
    PROVE  OverrunIn(rows, s, days) \in Nat
<1> DEFINE f == [i \in Ids |-> OverOf(rows, i, s, days)]
<1>1. f \in [Ids -> Int] /\ \A i \in Ids : f[i] >= 0
  BY OverTypes
<1>2. OverrunIn(rows, s, days) = SumFunction(f)
  BY DEF OverrunIn
<1> HIDE DEF f
<1> QED
  BY <1>1, <1>2, FiniteSets, SumTypes

\* Overruns grow with what the rows are over by g and more.
LEMMA OverrunGrows ==
    ASSUME NEW rows \in [Ids -> Rows], NEW new \in [Ids -> Rows], NEW s, NEW days,
           NEW other, NEW g \in [Ids -> Int],
           \A i \in Ids : OverOf(new, i, s, other) >= OverOf(rows, i, s, days) + g[i]
    PROVE  OverrunIn(new, s, other) >= OverrunIn(rows, s, days) + SumFunction(g)
<1> DEFINE f == [i \in Ids |-> OverOf(rows, i, s, days)]
           h == [i \in Ids |-> OverOf(new, i, s, other)]
           k == [i \in Ids |-> OverOf(rows, i, s, days) + g[i]]
<1>1. f \in [Ids -> Int] /\ h \in [Ids -> Int] /\ k \in [Ids -> Int]
  BY OverTypes
<1>2. \A i \in Ids : k[i] = f[i] + g[i] /\ k[i] <= h[i]
  OBVIOUS
<1>3. OverrunIn(rows, s, days) = SumFunction(f) /\ OverrunIn(new, s, other) = SumFunction(h)
  BY DEF OverrunIn
<1> HIDE DEF f, h, k
<1>4. SumFunction(k) = SumFunction(f) + SumFunction(g)
  BY <1>1, <1>2, FiniteSets, SumAdds
<1>5. SumFunction(k) <= SumFunction(h)
  BY <1>1, <1>2, FiniteSets, SumMonotone
<1> QED
  BY <1>3, <1>4, <1>5

\* Rows that are over by no less: an overrun that is no less.
LEMMA OverrunMonotone ==
    ASSUME NEW rows \in [Ids -> Rows], NEW new \in [Ids -> Rows], NEW s, NEW days, NEW other,
           \A i \in Ids : OverOf(new, i, s, other) >= OverOf(rows, i, s, days)
    PROVE  OverrunIn(new, s, other) >= OverrunIn(rows, s, days)
<1> DEFINE g == [i \in Ids |-> 0]
<1>1. g \in [Ids -> Int] /\ \A i \in Ids : g[i] = 0
  OBVIOUS
<1> HIDE DEF g
<1>2. SumFunction(g) = 0
  BY <1>1, FiniteSets, SumZero
<1>3. \A i \in Ids : OverOf(new, i, s, other) >= OverOf(rows, i, s, days) + g[i]
  BY <1>1, OverTypes
<1>4. OverrunIn(new, s, other) >= OverrunIn(rows, s, days) + SumFunction(g)
  BY <1>1, <1>3, OverrunGrows
<1> QED
  BY <1>2, <1>4, OverrunTypes

\* What a day's rows are over by, they charge.
LEMMA OverrunCharged ==
    ASSUME NEW rows \in [Ids -> Rows], NEW s, NEW d,
           \A i \in Ids : rows[i].state = "none" => rows[i].committed = 0,
           \A i \in Ids : rows[i].state = "reserved" => rows[i].committed = 0
    PROVE  OverrunIn(rows, s, {d}) <= Charged(rows, s, d)
<1> DEFINE f == [i \in Ids |-> OverOf(rows, i, s, {d})]
           h == [i \in Ids |-> ChargeOf(rows, i, s, d)]
<1>1. ASSUME NEW i \in Ids
      PROVE  OverOf(rows, i, s, {d}) <= ChargeOf(rows, i, s, d) /\ ChargeOf(rows, i, s, d) \in Nat
  BY RowTypes DEF OverOf, ChargeOf, Charge, NotBelowZero
<1>2. f \in [Ids -> Int] /\ h \in [Ids -> Int] /\ \A i \in Ids : f[i] <= h[i]
  BY <1>1, OverTypes
<1>3. OverrunIn(rows, s, {d}) = SumFunction(f) /\ Charged(rows, s, d) = SumFunction(h)
  BY SumsAre DEF OverrunIn
<1> HIDE DEF f, h
<1> QED
  BY <1>2, <1>3, FiniteSets, SumMonotone

\* The overruns of a set of days are those of its days.
LEMMA OverrunByDays ==
    ASSUME NEW rows \in [Ids -> Rows], NEW s, NEW f \in [Days -> Int],
           \A d \in Days : f[d] <= OverrunIn(rows, s, {d})
    PROVE  SumFunction(f) <= OverrunIn(rows, s, Days)
<1> DEFINE Part(E) == [d \in Days |-> IF d \in E THEN f[d] ELSE 0]
           P == {E \in SUBSET Days : SumFunction(Part(E)) <= OverrunIn(rows, s, E)}
<1>0. ASSUME NEW E \in SUBSET Days
      PROVE  Part(E) \in [Days -> Int] /\ SumFunction(Part(E)) \in Int
  <2>1. Part(E) \in [Days -> Int]
    OBVIOUS
  <2> HIDE DEF Part
  <2> QED
    BY <2>1, FiniteSets, SumTypes
<1>1. {} \in P
  <2>1. Part({}) \in [Days -> Int] /\ \A d \in Days : Part({})[d] = 0
    OBVIOUS
  <2> HIDE DEF Part
  <2>2. SumFunction(Part({})) = 0
    BY <2>1, FiniteSets, SumZero
  <2> QED
    BY <2>2, OverrunTypes
<1>2. ASSUME NEW E \in SUBSET Days, NEW e \in Days, E \in P, e \notin E
      PROVE  E \cup {e} \in P
  <2> DEFINE one == [d \in Days |-> IF d = e THEN f[d] ELSE 0]
             g == [i \in Ids |-> OverOf(rows, i, s, {e})]
  <2>1. one \in [Days -> Int] /\ one[e] = f[e] /\ \A d \in Days : d # e => one[d] = 0
    OBVIOUS
  <2>2. \A d \in Days : Part(E \cup {e})[d] = Part(E)[d] + one[d]
    BY <1>2
  <2>3. g \in [Ids -> Int]
    BY OverTypes
  <2>4. \A i \in Ids : OverOf(rows, i, s, E \cup {e}) >= OverOf(rows, i, s, E) + g[i]
    <3>1. ASSUME NEW i \in Ids
          PROVE  OverOf(rows, i, s, E \cup {e}) >= OverOf(rows, i, s, E) + OverOf(rows, i, s, {e})
      <4>1. NotBelowZero(rows[i].committed - rows[i].reserved) \in Nat
        BY RowTypes DEF NotBelowZero
      <4> QED
        BY <1>2, <4>1 DEF OverOf
    <3> QED
      BY <3>1
  <2>5. SumFunction(g) = OverrunIn(rows, s, {e})
    BY DEF OverrunIn
  <2> HIDE DEF one, g
  <2>6. OverrunIn(rows, s, E \cup {e}) >= OverrunIn(rows, s, E) + SumFunction(g)
    BY <2>3, <2>4, OverrunGrows
  <2>7. Part(E) \in [Days -> Int] /\ Part(E \cup {e}) \in [Days -> Int]
    OBVIOUS
  <2> HIDE DEF Part
  <2>8. SumFunction(Part(E \cup {e})) = SumFunction(Part(E)) + SumFunction(one)
    <3> DEFINE a == Part(E)
               b == Part(E \cup {e})
    <3>1. a \in [Days -> Int] /\ b \in [Days -> Int] /\ \A d \in Days : b[d] = a[d] + one[d]
      BY <2>2, <2>7
    <3> HIDE DEF a, b
    <3>2. SumFunction(b) = SumFunction(a) + SumFunction(one)
      BY ONLY <2>1, <3>1, FiniteSets, SumAdds
    <3> QED
      BY <3>2 DEF a, b
  <2>9. SumFunction(one) = f[e]
    BY <2>1, FiniteSets, SumSingle
  <2>10. /\ OverrunIn(rows, s, E) \in Int /\ OverrunIn(rows, s, {e}) \in Int
         /\ OverrunIn(rows, s, E \cup {e}) \in Int
    BY OverrunTypes
  <2>11. SumFunction(Part(E)) \in Int /\ f[e] \in Int
    BY <1>0
  <2>12. SumFunction(Part(E)) <= OverrunIn(rows, s, E)
    BY <1>2
  <2>13. SumFunction(Part(E \cup {e})) <= OverrunIn(rows, s, E \cup {e})
    BY <2>5, <2>6, <2>8, <2>9, <2>10, <2>11, <2>12
  <2> QED
    BY <2>13
<1>3. Part(Days) = f
  OBVIOUS
<1> HIDE DEF P, Part
<1>4. Days \in P
  BY <1>1, <1>2, FiniteSets, ElementsInTurn
<1> QED
  BY <1>3, <1>4 DEF P

-----------------------------------------------------------------------------
(* The accounts: what each action that writes them keeps.                  *)

AccountsTyped ==
    /\ ledger \in [Ids -> Rows]
    /\ daily \in [Scopes -> [Days -> Nat]] /\ buckets \subseteq Scopes \X Days
    /\ rolling \in [Scopes -> Nat]
Money == AccountsTyped /\ BucketsExact /\ RollingExact /\ CeilingsKept

\* The constants, as sets of numbers.
LEMMA ConstantTypes ==
    /\ \A kind \in AllKinds : Cost[kind] \in Nat
    /\ \A s \in Scopes : RollingCeiling[s] \in Nat /\ DailyCeiling[s] \in Nat
    /\ Window \in Nat /\ Window >= 2 /\ Retention \in Nat /\ Retention + 1 >= Window
    /\ MaxDay \in Nat /\ Days \subseteq Nat /\ Days = 0 .. MaxDay
    /\ Service \in Scopes /\ Vaults \subseteq Scopes
BY BudgetAssumption DEF BudgetAssumption, Scopes, Days

\* The totals a ceiling is compared with, day by day.
LEMMA OverrunsTypes ==
    ASSUME AccountsTyped, NEW s \in Scopes
    PROVE  /\ OverrunsOfDays(s) \in [Days -> Int]
           /\ \A d \in Days : OverrunsOfDays(s)[d] >= 0
           /\ SumOfDays(OverrunsOfDays(s)) \in Nat
<1>1. /\ OverrunsOfDays(s) \in [Days -> Int]
      /\ \A d \in Days : OverrunsOfDays(s)[d] >= 0
  BY OverrunTypes DEF OverrunsOfDays, AccountsTyped
<1>2. SumFunction(OverrunsOfDays(s)) \in Int /\ SumFunction(OverrunsOfDays(s)) >= 0
  BY <1>1, FiniteSets, SumTypes
<1> QED
  BY <1>1, <1>2 DEF SumOfDays

\* The row a request is about to write is free.
LEMMA EnterWrites ==
    ASSUME TypeOK, RequestsHold, NEW q \in Requests, NEW x \in Suffixes,
           request[q].pc = x, Enter(q, x, ScopeOf(q, x))
    PROVE  LET s == ScopeOf(q, x)
               e == <<q, x>>
               cost == Cost[request[q].kind]
           IN
           /\ s \in Scopes /\ e \in Ids /\ cost \in Nat
           /\ ledger[e].state = "none" /\ x \notin request[q].held
           /\ buckets' = buckets \cup {<<s, day>>}
           /\ ledger' \in [Ids -> Rows]
           /\ \A i \in Ids : i # e => ledger'[i] = ledger[i]
           /\ \/ UNCHANGED <<ledger, daily, rolling>> /\ ~Admits(request[q].kind, s)
              \/ /\ Admits(request[q].kind, s)
                 /\ ledger'[e].state = "reserved" /\ ledger'[e].scope = s
                 /\ ledger'[e].day = day /\ ledger'[e].reserved = cost
                 /\ ledger'[e].committed = 0 /\ ledger'[e].failure = "none"
                 /\ daily' = [daily EXCEPT ![s][day] = @ + cost]
                 /\ rolling' = [rolling EXCEPT ![s] = @ + cost]
<1> DEFINE s == ScopeOf(q, x)
           e == <<q, x>>
           cost == Cost[request[q].kind]
           row == [NoRow EXCEPT !.state = "reserved", !.scope = s, !.kind = request[q].kind,
                                !.day = day, !.reserved = cost]
<1>1. request[q].kind \in AllKinds /\ request[q].vault \in Vaults \cup {None}
  BY DEF TypeOK
<1>2. RequestHolds(q)
  BY DEF RequestsHold
<1>3. s \in Scopes /\ ledger[e].state = "none" /\ x \notin request[q].held
  BY <1>1, <1>2, ConstantTypes DEF RequestHolds, ScopeOf, Suffixes
<1>4. e \in Ids /\ cost \in Nat
  BY <1>1, ConstantTypes DEF Ids
<1>5. row \in Rows
  BY <1>1, <1>3, <1>4, ConstantTypes DEF TypeOK, Rows, NoRow
<1>6. row.state = "reserved" /\ row.scope = s /\ row.day = day /\ row.reserved = cost
      /\ row.committed = 0 /\ row.failure = "none"
  BY DEF NoRow
<1>7. ledger \in [Ids -> Rows]
  BY DEF TypeOK
<1> HIDE DEF row, s, e, cost
<1>8. buckets' = buckets \cup {<<s, day>>}
  BY DEF Enter, s
<1>9. CASE Admits(request[q].kind, s)
  <2>1. /\ ledger' = [ledger EXCEPT ![e] = row]
        /\ daily' = [daily EXCEPT ![s][day] = @ + cost]
        /\ rolling' = [rolling EXCEPT ![s] = @ + cost]
    BY <1>9 DEF Enter, s, e, cost, row
  <2>2. /\ ledger' \in [Ids -> Rows] /\ ledger'[e] = row
        /\ \A i \in Ids : i # e => ledger'[i] = ledger[i]
    BY <1>4, <1>5, <1>7, <2>1
  <2> QED
    BY <1>3, <1>4, <1>6, <1>8, <1>9, <2>1, <2>2 DEF s, e, cost
<1>10. CASE ~Admits(request[q].kind, s)
  <2>1. UNCHANGED <<ledger, daily, rolling>>
    BY <1>10 DEF Enter, s
  <2> QED
    BY <1>3, <1>4, <1>7, <1>8, <1>10, <2>1 DEF s, e, cost
<1> QED
  BY <1>9, <1>10

\* A day of the window without a bucket has no charge.
LEMMA NoBucketNoCharge ==
    ASSUME TypeOK, RowsFit, NEW s \in Scopes, NEW d \in Days, <<s, d>> \notin buckets, d >= FirstDay
    PROVE  Charged(ledger, s, d) = 0
<1>1. ledger \in [Ids -> Rows]
  BY DEF TypeOK
<1>2. ASSUME NEW i \in Ids
      PROVE  ChargeOf(ledger, i, s, d) = 0
  <2>1. RowFits(i)
    BY DEF RowsFit
  <2> QED
    BY <2>1 DEF RowFits, ChargeOf, Charge
<1> QED
  BY <1>1, <1>2, ChargedNone

\* The overruns by day, after a step.
LEMMA OverrunsGrow ==
    ASSUME AccountsTyped, AccountsTyped', NEW s \in Scopes,
           \A d \in Days : OverrunsOfDays(s)'[d] >= OverrunsOfDays(s)[d]
    PROVE  SumOfDays(OverrunsOfDays(s))' >= SumOfDays(OverrunsOfDays(s))
<1>1. OverrunsOfDays(s) \in [Days -> Int]
  BY OverrunsTypes
<1>2. OverrunsOfDays(s)' \in [Days -> Int]
  BY OverrunTypes DEF OverrunsOfDays, AccountsTyped
<1> DEFINE f == OverrunsOfDays(s)
           g == OverrunsOfDays(s)'
<1> HIDE DEF f, g
<1>3. SumFunction(f) <= SumFunction(g)
  BY <1>1, <1>2, FiniteSets, SumMonotone DEF f, g
<1>4. SumFunction(f) \in Int /\ SumFunction(g) \in Int
  BY <1>1, <1>2, FiniteSets, SumTypes DEF f, g
<1> QED
  BY <1>3, <1>4 DEF f, g, SumOfDays

\* A reservation keeps the accounts.
LEMMA EnterKeeps ==
    ASSUME TypeOK, RowsFit, RequestsHold, Money, NEW q \in Requests, NEW x \in Suffixes,
           request[q].pc = x, Enter(q, x, ScopeOf(q, x)), UNCHANGED day
    PROVE  Money'
<1> DEFINE s == ScopeOf(q, x)
           e == <<q, x>>
           cost == Cost[request[q].kind]
<1>1. /\ s \in Scopes /\ e \in Ids /\ cost \in Nat
      /\ ledger[e].state = "none"
      /\ buckets' = buckets \cup {<<s, day>>}
      /\ ledger' \in [Ids -> Rows]
      /\ \A i \in Ids : i # e => ledger'[i] = ledger[i]
  BY EnterWrites
<1>2. \/ UNCHANGED <<ledger, daily, rolling>> /\ ~Admits(request[q].kind, s)
      \/ /\ Admits(request[q].kind, s)
         /\ ledger'[e].state = "reserved" /\ ledger'[e].scope = s
         /\ ledger'[e].day = day /\ ledger'[e].reserved = cost
         /\ ledger'[e].committed = 0
         /\ daily' = [daily EXCEPT ![s][day] = @ + cost]
         /\ rolling' = [rolling EXCEPT ![s] = @ + cost]
  BY EnterWrites
<1>3. /\ day \in Days /\ day \in Nat /\ day >= FirstDay
      /\ ledger \in [Ids -> Rows] /\ daily \in [Scopes -> [Days -> Nat]]
      /\ buckets \subseteq Scopes \X Days /\ rolling \in [Scopes -> Nat]
  BY ConstantTypes DEF TypeOK, FirstDay
<1>4. RowFits(e)
  BY <1>1 DEF RowsFit
<1>5. Admits(request[q].kind, s) =>
         /\ rolling[s] + cost <= RollingCeiling[s]
         /\ daily[s][day] + cost <= DailyCeiling[s]
  BY DEF Admits, Fits
<1> HIDE DEF s, e, cost
<1>6. AccountsTyped'
  BY <1>1, <1>2, <1>3 DEF AccountsTyped
<1>7. \A b \in Scopes, d \in Days : OverrunIn(ledger', b, {d}) >= OverrunIn(ledger, b, {d})
  <2> TAKE b \in Scopes, d \in Days
  <2>1. \A i \in Ids : OverOf(ledger', i, b, {d}) >= OverOf(ledger, i, b, {d})
    <3> TAKE i \in Ids
    <3>1. CASE i = e
      <4>1. OverOf(ledger, i, b, {d}) = 0
        BY <1>1, <1>3, <1>4, <3>1, RowTypes DEF RowFits, OverOf, NotBelowZero
      <4> QED
        BY <1>1, <4>1, OverTypes
    <3>2. CASE i # e
      <4>1. ledger'[i] = ledger[i]
        BY <1>1, <3>2
      <4>2. OverOf(ledger', i, b, {d}) = OverOf(ledger, i, b, {d})
        BY <4>1 DEF OverOf
      <4> QED
        BY <1>3, <4>2, OverTypes
    <3> QED
      BY <3>1, <3>2
  <2> QED
    BY <1>1, <1>3, <2>1, OverrunMonotone
<1>8. \A b \in Scopes : SumOfDays(OverrunsOfDays(b))' >= SumOfDays(OverrunsOfDays(b))
  <2> TAKE b \in Scopes
  <2>1. \A d \in Days : OverrunsOfDays(b)'[d] >= OverrunsOfDays(b)[d]
    <3> TAKE d \in Days
    <3>1. /\ OverrunIn(ledger', b, {d}) >= OverrunIn(ledger, b, {d})
          /\ OverrunIn(ledger', b, {d}) \in Nat /\ OverrunIn(ledger, b, {d}) \in Nat
      BY <1>1, <1>3, <1>7, OverrunTypes
    <3>2. <<b, d>> \in buckets => <<b, d>> \in buckets'
      BY <1>1
    <3> QED
      BY <3>1, <3>2 DEF OverrunsOfDays
  <2> QED
    BY <1>6, <2>1, OverrunsGrow DEF Money
<1>9. \A b \in Scopes : /\ SumOfDays(OverrunsOfDays(b)) \in Nat
                        /\ SumOfDays(OverrunsOfDays(b))' \in Nat
                        /\ OverrunIn(ledger, b, {day}) \in Nat
                        /\ OverrunIn(ledger', b, {day}) \in Nat
  <2>1. \A b \in Scopes : SumOfDays(OverrunsOfDays(b)) \in Nat
    BY OverrunsTypes DEF Money
  <2>2. ASSUME NEW b \in Scopes
        PROVE  SumOfDays(OverrunsOfDays(b))' \in Nat
    <3>1. SumOfDays(OverrunsOfDays(b))' >= SumOfDays(OverrunsOfDays(b))
      BY <1>8
    <3>2. OverrunsOfDays(b)' \in [Days -> Int]
      BY <1>6, OverrunTypes DEF OverrunsOfDays, AccountsTyped
    <3> DEFINE g == OverrunsOfDays(b)'
    <3> HIDE DEF g
    <3>3. SumFunction(g) \in Int
      BY <3>2, FiniteSets, SumTypes DEF g
    <3> QED
      BY <2>1, <3>1, <3>3 DEF g, SumOfDays
  <2> QED
    BY <1>1, <1>3, <2>1, <2>2, OverrunTypes
<1>10. BucketsExact'
  <2>1. ASSUME NEW b \in Scopes, NEW d \in Days
        PROVE  daily'[b][d] = IF <<b, d>> \in buckets' THEN Charged(ledger', b, d) ELSE 0
    <3>1. Charged(ledger', b, d)
            = Charged(ledger, b, d) + ChargeOf(ledger', e, b, d) - ChargeOf(ledger, e, b, d)
      BY <1>1, <1>3, ChargedMovesOnce
    <3>2. ChargeOf(ledger, e, b, d) = 0
      BY <1>1, <1>4 DEF RowFits, ChargeOf, Charge
    <3>3. Charged(ledger, b, d) \in Nat
      BY <1>3, ChargedTypes
    <3>4. daily[b][d] = IF <<b, d>> \in buckets THEN Charged(ledger, b, d) ELSE 0
      BY DEF Money, BucketsExact
    <3>5. b = s /\ d = day => daily[b][d] = Charged(ledger, b, d)
      BY <1>3, <3>4, NoBucketNoCharge
    <3>6. CASE UNCHANGED <<ledger, daily, rolling>>
      BY <1>1, <3>4, <3>5, <3>6
    <3>7. CASE /\ ledger'[e].state = "reserved" /\ ledger'[e].scope = s
               /\ ledger'[e].day = day /\ ledger'[e].reserved = cost
               /\ daily' = [daily EXCEPT ![s][day] = @ + cost]
      <4>1. ChargeOf(ledger', e, b, d) = IF b = s /\ d = day THEN cost ELSE 0
        BY <3>7 DEF ChargeOf, Charge
      <4>2. daily'[b][d] = IF b = s /\ d = day THEN daily[b][d] + cost ELSE daily[b][d]
        BY <1>1, <1>3, <3>7
      <4>3. <<b, d>> \in buckets' <=> <<b, d>> \in buckets \/ (b = s /\ d = day)
        BY <1>1
      <4> QED
        BY <1>1, <3>1, <3>2, <3>3, <3>4, <3>5, <4>1, <4>2, <4>3
    <3> QED
      BY <1>2, <3>6, <3>7
  <2>2. \A b \in buckets' : b[2] <= day'
    BY <1>1, <1>3 DEF Money, BucketsExact
  <2> QED
    BY <2>1, <2>2 DEF BucketsExact
<1>11. RollingExact'
  <2>1. ASSUME NEW b \in Scopes
        PROVE  rolling'[b] = SumFunction(daily'[b])
    <3>1. rolling[b] = SumFunction(daily[b])
      BY DEF Money, RollingExact, SumOfDays
    <3>2. CASE UNCHANGED <<ledger, daily, rolling>>
      BY <3>1, <3>2
    <3>3. CASE /\ daily' = [daily EXCEPT ![s][day] = @ + cost]
               /\ rolling' = [rolling EXCEPT ![s] = @ + cost]
      <4>1. CASE b # s
        BY <1>1, <1>3, <3>1, <3>3, <4>1
      <4>2. CASE b = s
        <5>1. daily'[b] = [daily[b] EXCEPT ![day] = daily[b][day] + cost]
          BY <1>1, <1>3, <3>3, <4>2
        <5>2. daily[b] \in [Days -> Int] /\ daily[b][day] \in Nat
          BY <1>3
        <5>3. SumFunction([daily[b] EXCEPT ![day] = daily[b][day] + cost])
                = SumFunction(daily[b]) + (daily[b][day] + cost) - daily[b][day]
          <6> DEFINE f == daily[b]
                     c == daily[b][day] + cost
          <6>1. f \in [Days -> Int] /\ c \in Int /\ day \in Days
            BY <1>1, <1>3, <5>2
          <6> HIDE DEF f, c
          <6>2. SumFunction([f EXCEPT ![day] = c]) = SumFunction(f) + c - f[day]
            BY ONLY <6>1, FiniteSets, SumChanges
          <6> QED
            BY <6>2 DEF f, c
        <5>4. rolling'[b] = rolling[b] + cost /\ rolling[b] \in Nat
          BY <1>1, <1>3, <3>3, <4>2
        <5> QED
          BY <1>1, <3>1, <5>1, <5>2, <5>3, <5>4
      <4> QED
        BY <4>1, <4>2
    <3> QED
      BY <1>2, <3>2, <3>3
  <2> QED
    BY <2>1 DEF RollingExact, SumOfDays
<1>12. CeilingsKept'
  <2>1. ASSUME NEW b \in Scopes
        PROVE  /\ rolling'[b] <= RollingCeiling[b] + SumOfDays(OverrunsOfDays(b))'
               /\ daily'[b][day] <= DailyCeiling[b] + OverrunIn(ledger', b, {day})
    <3>1. /\ rolling[b] <= RollingCeiling[b] + SumOfDays(OverrunsOfDays(b))
          /\ daily[b][day] <= DailyCeiling[b] + OverrunIn(ledger, b, {day})
      BY DEF Money, CeilingsKept
    <3>2. /\ SumOfDays(OverrunsOfDays(b))' >= SumOfDays(OverrunsOfDays(b))
          /\ OverrunIn(ledger', b, {day}) >= OverrunIn(ledger, b, {day})
      BY <1>3, <1>7, <1>8
    <3>3. /\ rolling[b] \in Nat /\ daily[b][day] \in Nat
          /\ RollingCeiling[b] \in Nat /\ DailyCeiling[b] \in Nat
      BY <1>3, ConstantTypes
    <3> DEFINE over == SumOfDays(OverrunsOfDays(b))
               overs == SumOfDays(OverrunsOfDays(b))'
               today == OverrunIn(ledger, b, {day})
               todays == OverrunIn(ledger', b, {day})
    <3>0. over \in Nat /\ overs \in Nat /\ today \in Nat /\ todays \in Nat
      BY <1>9
    <3> HIDE DEF over, overs, today, todays
    <3>7. /\ rolling[b] <= RollingCeiling[b] + over
          /\ daily[b][day] <= DailyCeiling[b] + today
          /\ overs >= over /\ todays >= today
      BY <3>1, <3>2 DEF over, overs, today, todays
    <3>8. SUFFICES /\ rolling'[b] <= RollingCeiling[b] + overs
                   /\ daily'[b][day] <= DailyCeiling[b] + todays
      BY DEF overs, todays
    <3>4. CASE rolling'[b] = rolling[b] /\ daily'[b][day] = daily[b][day]
      BY <3>0, <3>3, <3>4, <3>7
    <3>5. CASE b = s /\ rolling'[b] <= RollingCeiling[b] /\ daily'[b][day] <= DailyCeiling[b]
               /\ rolling'[b] \in Nat /\ daily'[b][day] \in Nat
      BY <3>0, <3>3, <3>5
    <3>6. \/ rolling'[b] = rolling[b] /\ daily'[b][day] = daily[b][day]
          \/ b = s /\ rolling'[b] <= RollingCeiling[b] /\ daily'[b][day] <= DailyCeiling[b]
             /\ rolling'[b] \in Nat /\ daily'[b][day] \in Nat
      BY <1>1, <1>2, <1>3, <1>5, <3>3
    <3> QED
      BY <3>4, <3>5, <3>6
  <2> QED
    BY <2>1 DEF CeilingsKept
<1> QED
  BY <1>6, <1>10, <1>11, <1>12 DEF Money

\* What a request that settles holds.
LEMMA HeldRows ==
    ASSUME TypeOK, RowsFit, RequestsHold, NEW q \in Requests,
           request[q].pc = "batch", NEW i \in Held(q)
    PROVE  /\ i \in Ids /\ ledger[i].state = "reserved" /\ ledger[i].committed = 0
           /\ <<ledger[i].scope, ledger[i].day>> \in buckets
           /\ Actual(q, i) \in Nat /\ i[1] = q
<1>1. PICK x \in request[q].held : i = <<q, x>>
  BY DEF Held
<1>2. request[q].held \subseteq Suffixes /\ request[q].used \in Nat \cup {None}
  BY DEF TypeOK
<1>3. i \in Ids /\ i[1] = q /\ ledger[i] \in Rows
  BY <1>1, <1>2 DEF Ids, TypeOK
<1>4. ledger[i].state = "reserved"
  BY <1>1 DEF RequestsHold, RequestHolds
<1>5. RowFits(i)
  BY <1>3 DEF RowsFit
<1>6. ledger[i].day >= day - 1 /\ ledger[i].committed = 0
  BY <1>3, <1>4, <1>5 DEF RowFits, Running
<1>7. day \in Nat /\ ledger[i].day \in Nat /\ ledger[i].reserved \in Nat
  BY <1>3, RowTypes, ConstantTypes DEF TypeOK
<1>8. ledger[i].day >= FirstDay
  BY <1>6, <1>7, ConstantTypes DEF FirstDay
<1>9. <<ledger[i].scope, ledger[i].day>> \in buckets
  BY <1>4, <1>5, <1>8 DEF RowFits
<1>10. Actual(q, i) \in Nat
  BY <1>2, <1>7 DEF Actual
<1> QED
  BY <1>3, <1>4, <1>6, <1>9, <1>10

\* What a settlement does to the rows it settles, and to no others.
LEMMA SettleWrites ==
    ASSUME TypeOK, RowsFit, RequestsHold, NEW q \in Requests, NEW after, SettleBatch(q, after)
    PROVE  /\ ledger' \in [Ids -> Rows]
           /\ \A i \in Held(q) :
                 /\ ledger'[i].state = "settled" /\ ledger'[i].committed = Actual(q, i)
                 /\ ledger'[i].scope = ledger[i].scope /\ ledger'[i].day = ledger[i].day
                 /\ ledger'[i].reserved = ledger[i].reserved
           /\ \A i \in Ids : i \notin Held(q) => ledger'[i] = ledger[i]
<1>1. /\ request[q].pc = "batch"
      /\ ledger' = [i \in Ids |->
            IF i \in Held(q)
            THEN [ledger[i] EXCEPT !.state = "settled", !.committed = Actual(q, i),
                     !.failure = IF Underestimated(q, i)
                                 THEN "USAGE_RESERVATION_UNDERESTIMATED" ELSE @]
            ELSE ledger[i]]
  BY DEF SettleBatch
<1>2. ASSUME NEW i \in Ids
      PROVE  ledger[i] \in Rows
  BY DEF TypeOK
<1>3. ASSUME NEW i \in Held(q)
      PROVE  /\ i \in Ids /\ ledger'[i] \in Rows
             /\ ledger'[i].state = "settled" /\ ledger'[i].committed = Actual(q, i)
             /\ ledger'[i].scope = ledger[i].scope /\ ledger'[i].day = ledger[i].day
             /\ ledger'[i].reserved = ledger[i].reserved
  <2>1. i \in Ids /\ Actual(q, i) \in Nat
    BY <1>1, HeldRows
  <2>2. ledger'[i] = [ledger[i] EXCEPT !.state = "settled", !.committed = Actual(q, i),
                     !.failure = IF Underestimated(q, i)
                                 THEN "USAGE_RESERVATION_UNDERESTIMATED" ELSE @]
    BY <1>1, <2>1
  <2>3. ledger[i] \in Rows
    BY <1>2, <2>1
  <2> QED
    BY <2>1, <2>2, <2>3 DEF Rows, Reasons
<1>4. ASSUME NEW i \in Ids, i \notin Held(q)
      PROVE  ledger'[i] = ledger[i]
  BY <1>1, <1>4
<1>5. ledger' \in [Ids -> Rows]
  <2>1. \A i \in Ids : ledger'[i] \in Rows
    BY <1>2, <1>3, <1>4
  <2>2. ledger' = [i \in Ids |-> ledger'[i]]
    BY <1>1
  <2> QED
    BY <2>1, <2>2
<1> QED
  BY <1>3, <1>4, <1>5

\* A settlement keeps the accounts.
LEMMA SettleKeeps ==
    ASSUME TypeOK, RowsFit, RequestsHold, Money, NEW q \in Requests, NEW after,
           SettleBatch(q, after)
    PROVE  Money'
<1> DEFINE corr(s) == [d \in Days |-> Correction(q, s, d)]
<1>1. /\ request[q].pc = "batch" /\ UNCHANGED <<day, buckets>>
      /\ daily' = [s \in Scopes |-> [d \in Days |->
                     IF <<s, d>> \in buckets THEN daily[s][d] + Correction(q, s, d) ELSE 0]]
      /\ rolling' = [s \in Scopes |-> rolling[s] + SumOfDays(corr(s))]
  BY DEF SettleBatch, Totals
<1>2. /\ ledger' \in [Ids -> Rows]
      /\ \A i \in Held(q) :
            /\ ledger'[i].state = "settled" /\ ledger'[i].committed = Actual(q, i)
            /\ ledger'[i].scope = ledger[i].scope /\ ledger'[i].day = ledger[i].day
            /\ ledger'[i].reserved = ledger[i].reserved
      /\ \A i \in Ids : i \notin Held(q) => ledger'[i] = ledger[i]
  BY SettleWrites
<1>3. /\ day \in Days /\ day \in Nat
      /\ ledger \in [Ids -> Rows] /\ daily \in [Scopes -> [Days -> Nat]]
      /\ buckets \subseteq Scopes \X Days /\ rolling \in [Scopes -> Nat]
  BY ConstantTypes DEF TypeOK
<1>4. ASSUME NEW i \in Ids, NEW s \in Scopes, NEW d \in Days
      PROVE  /\ CorrectionOf(q, i, s, d) \in Int
             /\ ChargeOf(ledger', i, s, d) = ChargeOf(ledger, i, s, d) + CorrectionOf(q, i, s, d)
             /\ OverOf(ledger', i, s, {d}) >= OverOf(ledger, i, s, {d}) + CorrectionOf(q, i, s, d)
             /\ <<s, d>> \notin buckets => CorrectionOf(q, i, s, d) = 0
  <2>1. ledger[i].reserved \in Nat /\ ledger[i].committed \in Nat /\ Charge(ledger[i]) \in Nat
    BY <1>3, RowTypes
  <2>2. CASE i \notin Held(q)
    <3>1. ledger'[i] = ledger[i] /\ CorrectionOf(q, i, s, d) = 0
      BY <1>2, <2>2 DEF CorrectionOf
    <3> QED
      BY <2>1, <3>1 DEF ChargeOf, OverOf, NotBelowZero
  <2>3. CASE i \in Held(q)
    <3>1. /\ ledger[i].state = "reserved" /\ ledger[i].committed = 0
          /\ <<ledger[i].scope, ledger[i].day>> \in buckets /\ Actual(q, i) \in Nat
      BY <1>1, <2>3, HeldRows
    <3>2. /\ ledger'[i].state = "settled" /\ ledger'[i].committed = Actual(q, i)
          /\ ledger'[i].scope = ledger[i].scope /\ ledger'[i].day = ledger[i].day
          /\ ledger'[i].reserved = ledger[i].reserved
      BY <1>2, <2>3
    <3>3. CASE ledger[i].scope = s /\ ledger[i].day = d
      <4>1. CorrectionOf(q, i, s, d) = Actual(q, i) - ledger[i].reserved
        BY <2>3, <3>3 DEF CorrectionOf
      <4>2. /\ ChargeOf(ledger', i, s, d) = Actual(q, i)
            /\ ChargeOf(ledger, i, s, d) = ledger[i].reserved
        BY <3>1, <3>2, <3>3 DEF ChargeOf, Charge
      <4>3. /\ OverOf(ledger', i, s, {d}) = NotBelowZero(Actual(q, i) - ledger[i].reserved)
            /\ OverOf(ledger, i, s, {d}) = NotBelowZero(0 - ledger[i].reserved)
        BY <3>1, <3>2, <3>3 DEF OverOf
      <4>4. NotBelowZero(0 - ledger[i].reserved) = 0
        BY <2>1 DEF NotBelowZero
      <4>5. NotBelowZero(Actual(q, i) - ledger[i].reserved) >= Actual(q, i) - ledger[i].reserved
        BY <2>1, <3>1 DEF NotBelowZero
      <4> QED
        BY <2>1, <3>1, <3>3, <4>1, <4>2, <4>3, <4>4, <4>5
    <3>4. CASE ~(ledger[i].scope = s /\ ledger[i].day = d)
      <4>1. /\ CorrectionOf(q, i, s, d) = 0
            /\ ChargeOf(ledger', i, s, d) = 0 /\ ChargeOf(ledger, i, s, d) = 0
            /\ OverOf(ledger', i, s, {d}) = 0 /\ OverOf(ledger, i, s, {d}) = 0
        BY <3>2, <3>4 DEF CorrectionOf, ChargeOf, OverOf
      <4> QED
        BY <4>1
    <3> QED
      BY <3>3, <3>4
  <2> QED
    BY <2>2, <2>3
<1>5. ASSUME NEW s \in Scopes, NEW d \in Days
      PROVE  /\ Correction(q, s, d) \in Int
             /\ Charged(ledger', s, d) = Charged(ledger, s, d) + Correction(q, s, d)
             /\ OverrunIn(ledger', s, {d}) >= OverrunIn(ledger, s, {d}) + Correction(q, s, d)
             /\ <<s, d>> \notin buckets => Correction(q, s, d) = 0
  <2> DEFINE g == [i \in Ids |-> CorrectionOf(q, i, s, d)]
  <2>1. g \in [Ids -> Int]
    BY <1>4
  <2>2. /\ \A i \in Ids : ChargeOf(ledger', i, s, d) = ChargeOf(ledger, i, s, d) + g[i]
        /\ \A i \in Ids : OverOf(ledger', i, s, {d}) >= OverOf(ledger, i, s, {d}) + g[i]
        /\ <<s, d>> \notin buckets => \A i \in Ids : g[i] = 0
    BY <1>4
  <2>3. Correction(q, s, d) = SumFunction(g)
    BY SumsAre
  <2> HIDE DEF g
  <2>4. Charged(ledger', s, d) = Charged(ledger, s, d) + SumFunction(g)
    BY <1>2, <1>3, <2>1, <2>2, ChargedMoves
  <2>5. OverrunIn(ledger', s, {d}) >= OverrunIn(ledger, s, {d}) + SumFunction(g)
    BY <1>2, <1>3, <2>1, <2>2, OverrunGrows
  <2>6. SumFunction(g) \in Int
    BY <2>1, FiniteSets, SumTypes
  <2>7. <<s, d>> \notin buckets => SumFunction(g) = 0
    BY <2>1, <2>2, FiniteSets, SumZero
  <2> QED
    BY <2>3, <2>4, <2>5, <2>6, <2>7
<1>6. ASSUME NEW s \in Scopes, NEW d \in Days
      PROVE  /\ daily'[s][d] = daily[s][d] + Correction(q, s, d)
             /\ daily'[s][d] = IF <<s, d>> \in buckets' THEN Charged(ledger', s, d) ELSE 0
             /\ daily'[s][d] \in Nat
  <2>1. daily[s][d] = IF <<s, d>> \in buckets THEN Charged(ledger, s, d) ELSE 0
    BY DEF Money, BucketsExact
  <2>2. daily'[s][d] = IF <<s, d>> \in buckets THEN daily[s][d] + Correction(q, s, d) ELSE 0
    BY <1>1
  <2>3. Charged(ledger', s, d) \in Nat /\ Charged(ledger, s, d) \in Nat
    BY <1>2, <1>3, ChargedTypes
  <2>4. /\ Correction(q, s, d) \in Int
        /\ Charged(ledger', s, d) = Charged(ledger, s, d) + Correction(q, s, d)
        /\ <<s, d>> \notin buckets => Correction(q, s, d) = 0
    BY <1>5
  <2>5. buckets' = buckets
    BY <1>1
  <2>6. CASE <<s, d>> \in buckets
    BY <2>1, <2>2, <2>3, <2>4, <2>5, <2>6
  <2>7. CASE <<s, d>> \notin buckets
    BY <2>1, <2>2, <2>4, <2>5, <2>7
  <2> QED
    BY <2>6, <2>7
<1>7. daily' \in [Scopes -> [Days -> Nat]]
  <2>1. \A s \in Scopes : daily'[s] \in [Days -> Nat]
    <3> TAKE s \in Scopes
    <3>1. daily'[s] = [d \in Days |-> daily'[s][d]]
      BY <1>1
    <3> QED
      BY <1>6, <3>1
  <2>2. daily' = [s \in Scopes |-> daily'[s]]
    BY <1>1
  <2> QED
    BY <2>1, <2>2
<1>8. ASSUME NEW s \in Scopes
      PROVE  /\ corr(s) \in [Days -> Int] /\ SumFunction(corr(s)) \in Int
             /\ rolling'[s] = SumFunction(daily'[s])
             /\ rolling'[s] = rolling[s] + SumFunction(corr(s)) /\ rolling'[s] \in Nat
  <2>1. corr(s) \in [Days -> Int]
    BY <1>5
  <2>2. \A d \in Days : daily'[s][d] = daily[s][d] + corr(s)[d]
    BY <1>6
  <2>3. rolling'[s] = rolling[s] + SumFunction(corr(s))
    BY <1>1 DEF SumOfDays
  <2>4. rolling[s] = SumFunction(daily[s])
    BY DEF Money, RollingExact, SumOfDays
  <2> DEFINE c == corr(s)
             f == daily[s]
             h == daily'[s]
  <2>5. c \in [Days -> Int] /\ f \in [Days -> Int] /\ h \in [Days -> Int]
        /\ \A d \in Days : h[d] = f[d] + c[d] /\ h[d] >= 0
    BY <1>3, <1>7, <2>1, <2>2
  <2> HIDE DEF c, f, h
  <2>6. SumFunction(h) = SumFunction(f) + SumFunction(c) /\ SumFunction(c) \in Int
    BY ONLY <2>5, FiniteSets, SumAdds
  <2>7. SumFunction(h) \in Int /\ SumFunction(h) >= 0
    BY ONLY <2>5, FiniteSets, SumTypes
  <2> QED
    BY <2>1, <2>3, <2>4, <2>6, <2>7 DEF c, f, h
<1> HIDE DEF corr
<1>9. AccountsTyped'
  <2>1. rolling' = [s \in Scopes |-> rolling'[s]]
    BY <1>1
  <2>2. rolling' \in [Scopes -> Nat]
    BY <1>8, <2>1
  <2> QED
    BY <1>1, <1>2, <1>3, <1>7, <2>2 DEF AccountsTyped
<1>10. BucketsExact'
  <2>1. \A b \in buckets' : b[2] <= day'
    BY <1>1 DEF Money, BucketsExact
  <2> QED
    BY <1>6, <2>1 DEF BucketsExact
<1>11. RollingExact'
  BY <1>8 DEF RollingExact, SumOfDays
<1>12. CeilingsKept'
  <2>1. ASSUME NEW s \in Scopes
        PROVE  rolling'[s] <= RollingCeiling[s] + SumOfDays(OverrunsOfDays(s))'
    <3> DEFINE f == OverrunsOfDays(s)
               h == OverrunsOfDays(s)'
               k == [d \in Days |-> OverrunsOfDays(s)[d] + corr(s)[d]]
    <3>1. f \in [Days -> Int] /\ SumFunction(f) \in Int
      BY OverrunsTypes DEF Money, SumOfDays
    <3>2. h \in [Days -> Int]
      BY <1>2, OverrunTypes DEF OverrunsOfDays
    <3>3. k \in [Days -> Int] /\ \A d \in Days : k[d] = f[d] + corr(s)[d]
      BY <1>8, <3>1
    <3>4. \A d \in Days : k[d] <= h[d]
      <4> TAKE d \in Days
      <4>1. corr(s)[d] = Correction(q, s, d)
        BY DEF corr
      <4>2. /\ OverrunIn(ledger', s, {d}) >= OverrunIn(ledger, s, {d}) + Correction(q, s, d)
            /\ <<s, d>> \notin buckets => Correction(q, s, d) = 0
        BY <1>5
      <4>3. k[d] = OverrunsOfDays(s)[d] + Correction(q, s, d)
        BY <4>1
      <4>4. /\ OverrunsOfDays(s)[d] = IF <<s, d>> \in buckets THEN OverrunIn(ledger, s, {d}) ELSE 0
            /\ h[d] = IF <<s, d>> \in buckets THEN OverrunIn(ledger', s, {d}) ELSE 0
        BY <1>1 DEF OverrunsOfDays
      <4> QED
        BY <4>2, <4>3, <4>4
    <3> HIDE DEF f, h, k
    <3>5. SumFunction(k) = SumFunction(f) + SumFunction(corr(s))
      <4> DEFINE c == corr(s)
      <4>1. c \in [Days -> Int] /\ \A d \in Days : k[d] = f[d] + c[d]
        BY <1>8, <3>3
      <4> HIDE DEF c
      <4>2. SumFunction(k) = SumFunction(f) + SumFunction(c)
        BY ONLY <3>1, <3>3, <4>1, FiniteSets, SumAdds
      <4> QED
        BY <4>2 DEF c
    <3>6. SumFunction(k) <= SumFunction(h)
      BY ONLY <3>2, <3>3, <3>4, FiniteSets, SumMonotone
    <3>7. SumFunction(h) \in Int
      BY ONLY <3>2, FiniteSets, SumTypes
    <3>8. rolling[s] <= RollingCeiling[s] + SumFunction(f)
      BY DEF Money, CeilingsKept, SumOfDays, f
    <3>9. rolling[s] \in Nat /\ RollingCeiling[s] \in Nat
      BY <1>3, ConstantTypes
    <3>10. rolling'[s] <= RollingCeiling[s] + SumFunction(h)
      BY <1>8, <3>1, <3>5, <3>6, <3>7, <3>8, <3>9
    <3> QED
      BY <3>10 DEF SumOfDays, h
  <2>2. ASSUME NEW s \in Scopes
        PROVE  daily'[s][day] <= DailyCeiling[s] + OverrunIn(ledger', s, {day})
    <3>1. daily[s][day] <= DailyCeiling[s] + OverrunIn(ledger, s, {day})
      BY DEF Money, CeilingsKept
    <3>2. /\ OverrunIn(ledger', s, {day}) >= OverrunIn(ledger, s, {day}) + Correction(q, s, day)
          /\ Correction(q, s, day) \in Int
          /\ daily'[s][day] = daily[s][day] + Correction(q, s, day)
      BY <1>3, <1>5, <1>6
    <3>3. /\ OverrunIn(ledger, s, {day}) \in Nat /\ OverrunIn(ledger', s, {day}) \in Nat
          /\ daily[s][day] \in Nat /\ DailyCeiling[s] \in Nat
      BY <1>2, <1>3, OverrunTypes, ConstantTypes
    <3> QED
      BY <3>1, <3>2, <3>3
  <2> QED
    BY <1>1, <2>1, <2>2 DEF CeilingsKept
<1> QED
  BY <1>9, <1>10, <1>11, <1>12 DEF Money

\* The expiry takes off what the buckets hold, and with it what they are over.
LEMMA ExpireKeeps ==
    ASSUME TypeOK, RowsFit, Money, CronKnows, ExpireBuckets
    PROVE  Money'
<1>1. /\ cron.pc = "expire" /\ UNCHANGED <<day, ledger>>
      /\ rolling' = [s \in Scopes |-> NotBelowZero(rolling[s] - SumFunction(cron.read[s]))]
      /\ daily' = [s \in Scopes |-> [d \in Days |->
                     IF <<s, d>> \in cron.expired THEN 0 ELSE daily[s][d]]]
      /\ buckets' = buckets \ cron.expired
  BY DEF ExpireBuckets, SumOfDays
<1>2. /\ day \in Days /\ day \in Nat
      /\ ledger \in [Ids -> Rows] /\ daily \in [Scopes -> [Days -> Nat]]
      /\ buckets \subseteq Scopes \X Days /\ rolling \in [Scopes -> Nat]
      /\ cron.read \in [Scopes -> [Days -> Nat]]
  BY ConstantTypes DEF TypeOK
<1>3. /\ cron.expired \subseteq buckets
      /\ \A s \in Scopes, d \in Days :
            cron.read[s][d] = IF <<s, d>> \in cron.expired THEN daily[s][d] ELSE 0
  BY <1>1 DEF CronKnows
<1>4. ASSUME NEW s \in Scopes, NEW d \in Days
      PROVE  /\ daily'[s][d] = IF <<s, d>> \in cron.expired THEN 0 ELSE daily[s][d]
             /\ daily[s][d] = daily'[s][d] + cron.read[s][d]
             /\ daily'[s][d] \in Nat
  BY <1>1, <1>2, <1>3
<1>5. daily' \in [Scopes -> [Days -> Nat]]
  BY <1>1, <1>2
<1>6. ASSUME NEW s \in Scopes
      PROVE  /\ rolling'[s] = SumFunction(daily'[s]) /\ rolling'[s] \in Nat
             /\ rolling[s] = rolling'[s] + SumFunction(cron.read[s])
             /\ SumFunction(cron.read[s]) \in Int
  <2> DEFINE f == daily'[s]
             g == cron.read[s]
             h == daily[s]
  <2>1. /\ f \in [Days -> Int] /\ g \in [Days -> Int] /\ h \in [Days -> Int]
        /\ \A d \in Days : h[d] = f[d] + g[d]
        /\ \A d \in Days : f[d] >= 0
    <3>1. f \in [Days -> Nat] /\ g \in [Days -> Nat] /\ h \in [Days -> Nat]
      BY <1>2, <1>5
    <3>2. \A d \in Days : h[d] = f[d] + g[d]
      BY <1>4
    <3> HIDE DEF f, g, h
    <3> QED
      BY <3>1, <3>2
  <2>2. rolling[s] = SumFunction(h)
    BY DEF Money, RollingExact, SumOfDays
  <2>3. rolling'[s] = NotBelowZero(rolling[s] - SumFunction(g))
    BY <1>1
  <2> HIDE DEF f, g, h
  <2>4. SumFunction(h) = SumFunction(f) + SumFunction(g) /\ SumFunction(g) \in Int
    BY ONLY <2>1, FiniteSets, SumAdds
  <2>5. SumFunction(f) \in Int /\ SumFunction(f) >= 0
    BY ONLY <2>1, FiniteSets, SumTypes
  <2>6. rolling'[s] = SumFunction(f)
    BY <2>2, <2>3, <2>4, <2>5 DEF NotBelowZero
  <2> QED
    BY <2>2, <2>4, <2>5, <2>6 DEF f, g
<1>7. AccountsTyped'
  <2>1. rolling' = [s \in Scopes |-> rolling'[s]]
    BY <1>1
  <2>2. rolling' \in [Scopes -> Nat]
    BY <1>6, <2>1
  <2> QED
    BY <1>1, <1>2, <1>5, <2>2 DEF AccountsTyped
<1>8. BucketsExact'
  <2>1. ASSUME NEW s \in Scopes, NEW d \in Days
        PROVE  daily'[s][d] = IF <<s, d>> \in buckets' THEN Charged(ledger', s, d) ELSE 0
    <3>1. daily[s][d] = IF <<s, d>> \in buckets THEN Charged(ledger, s, d) ELSE 0
      BY DEF Money, BucketsExact
    <3>2. daily'[s][d] = IF <<s, d>> \in cron.expired THEN 0 ELSE daily[s][d]
      BY <1>4
    <3> QED
      BY <1>1, <3>1, <3>2
  <2>2. \A b \in buckets' : b[2] <= day'
    BY <1>1 DEF Money, BucketsExact
  <2> QED
    BY <2>1, <2>2 DEF BucketsExact
<1>9. RollingExact'
  BY <1>6 DEF RollingExact, SumOfDays
<1>10. CeilingsKept'
  <2>1. ASSUME NEW s \in Scopes
        PROVE  rolling'[s] <= RollingCeiling[s] + SumOfDays(OverrunsOfDays(s))'
    <3> DEFINE f == OverrunsOfDays(s)
               h == OverrunsOfDays(s)'
               g == cron.read[s]
               k == [d \in Days |-> OverrunsOfDays(s)'[d] + cron.read[s][d]]
    <3>1. f \in [Days -> Int] /\ SumFunction(f) \in Int
      BY OverrunsTypes DEF Money, SumOfDays
    <3>2. h \in [Days -> Int] /\ g \in [Days -> Int]
      BY <1>1, <1>2, OverrunTypes DEF OverrunsOfDays
    <3>3. k \in [Days -> Int] /\ \A d \in Days : k[d] = h[d] + g[d]
      BY <3>2
    <3>4. \A d \in Days : f[d] <= k[d]
      <4> TAKE d \in Days
      <4>1. /\ OverrunsOfDays(s)[d] = IF <<s, d>> \in buckets THEN OverrunIn(ledger, s, {d}) ELSE 0
            /\ h[d] = IF <<s, d>> \in buckets \ cron.expired THEN OverrunIn(ledger, s, {d}) ELSE 0
        BY <1>1 DEF OverrunsOfDays
      <4>2. g[d] = IF <<s, d>> \in cron.expired THEN daily[s][d] ELSE 0
        BY <1>3
      <4>3. <<s, d>> \in cron.expired => daily[s][d] = Charged(ledger, s, d)
        BY <1>3 DEF Money, BucketsExact
      <4>4. OverrunIn(ledger, s, {d}) <= Charged(ledger, s, d)
        <5>1. \A i \in Ids : RowFits(i)
          BY DEF RowsFit
        <5>2. /\ \A i \in Ids : ledger[i].state = "none" => ledger[i].committed = 0
              /\ \A i \in Ids : ledger[i].state = "reserved" => ledger[i].committed = 0
          BY <5>1 DEF RowFits
        <5> QED
          BY <1>2, <5>2, OverrunCharged
      <4>5. OverrunIn(ledger, s, {d}) \in Nat /\ Charged(ledger, s, d) \in Nat
        BY <1>2, OverrunTypes, ChargedTypes
      <4>6. k[d] = h[d] + g[d]
        BY <3>3
      <4> HIDE DEF k, h, g
      <4>7. CASE <<s, d>> \in cron.expired
        BY <1>3, <4>1, <4>2, <4>3, <4>4, <4>5, <4>6, <4>7 DEF f
      <4>8. CASE <<s, d>> \notin cron.expired
        BY <4>1, <4>2, <4>5, <4>6, <4>8 DEF f
      <4> QED
        BY <4>7, <4>8
    <3>8. rolling[s] <= RollingCeiling[s] + SumFunction(f)
      BY DEF Money, CeilingsKept, SumOfDays
    <3>9. rolling'[s] \in Nat /\ rolling[s] = rolling'[s] + SumFunction(g) /\ SumFunction(g) \in Int
      BY <1>6
    <3> HIDE DEF f, g, h, k
    <3>5. SumFunction(k) = SumFunction(h) + SumFunction(g)
      BY ONLY <3>2, <3>3, FiniteSets, SumAdds
    <3>6. SumFunction(f) <= SumFunction(k)
      BY ONLY <3>1, <3>3, <3>4, FiniteSets, SumMonotone
    <3>7. SumFunction(h) \in Int
      BY ONLY <3>2, FiniteSets, SumTypes
    <3>10. RollingCeiling[s] \in Nat
      BY ConstantTypes
    <3>11. rolling'[s] <= RollingCeiling[s] + SumFunction(h)
      BY <3>1, <3>5, <3>6, <3>7, <3>8, <3>9, <3>10
    <3> QED
      BY <3>11 DEF SumOfDays, h
  <2>2. ASSUME NEW s \in Scopes
        PROVE  daily'[s][day] <= DailyCeiling[s] + OverrunIn(ledger', s, {day})
    <3>1. daily[s][day] <= DailyCeiling[s] + OverrunIn(ledger, s, {day})
      BY DEF Money, CeilingsKept
    <3>5. OverrunIn(ledger, s, {day}) \in Nat
      BY <1>2, OverrunTypes
    <3>6. daily[s][day] \in Nat
      BY <1>2
    <3>2. /\ OverrunIn(ledger, s, {day}) \in Nat /\ daily[s][day] \in Nat
          /\ DailyCeiling[s] \in Nat
      BY <3>5, <3>6, ConstantTypes
    <3>3. daily'[s][day] = 0 \/ daily'[s][day] = daily[s][day]
      BY <1>2, <1>4
    <3>4. ledger' = ledger
      BY <1>1
    <3> QED
      BY <3>1, <3>2, <3>3, <3>4
  <2> QED
    BY <1>1, <2>1, <2>2 DEF CeilingsKept
<1> QED
  BY <1>7, <1>8, <1>9, <1>10 DEF Money

\* Rows that change without a change of what the buckets there are charge.
LEMMA RowsMoveKeeps ==
    ASSUME TypeOK, RowsFit, Money, ledger' \in [Ids -> Rows],
           UNCHANGED <<day, daily, buckets, rolling>>,
           \A i \in Ids, s \in Scopes, d \in Days : <<s, d>> \in buckets =>
                 ChargeOf(ledger', i, s, d) = ChargeOf(ledger, i, s, d),
           \A i \in Ids, s \in Scopes, d \in Days : <<s, d>> \in buckets \/ d = day =>
                 OverOf(ledger', i, s, {d}) >= OverOf(ledger, i, s, {d})
    PROVE  Money'
<1>1. /\ day \in Days /\ day \in Nat
      /\ ledger \in [Ids -> Rows] /\ daily \in [Scopes -> [Days -> Nat]]
      /\ buckets \subseteq Scopes \X Days /\ rolling \in [Scopes -> Nat]
  BY ConstantTypes DEF TypeOK
<1>2. AccountsTyped'
  BY <1>1 DEF AccountsTyped
<1>3. BucketsExact'
  <2>1. ASSUME NEW s \in Scopes, NEW d \in Days
        PROVE  daily'[s][d] = IF <<s, d>> \in buckets' THEN Charged(ledger', s, d) ELSE 0
    <3>1. daily[s][d] = IF <<s, d>> \in buckets THEN Charged(ledger, s, d) ELSE 0
      BY DEF Money, BucketsExact
    <3>2. <<s, d>> \in buckets => Charged(ledger', s, d) = Charged(ledger, s, d)
      BY <1>1, ChargedStays
    <3> QED
      BY <3>1, <3>2
  <2>2. \A b \in buckets' : b[2] <= day'
    BY DEF Money, BucketsExact
  <2> QED
    BY <2>1, <2>2 DEF BucketsExact
<1>4. RollingExact'
  BY DEF Money, RollingExact
<1>5. ASSUME NEW s \in Scopes, NEW d \in Days, <<s, d>> \in buckets \/ d = day
      PROVE  /\ OverrunIn(ledger', s, {d}) >= OverrunIn(ledger, s, {d})
             /\ OverrunIn(ledger', s, {d}) \in Nat /\ OverrunIn(ledger, s, {d}) \in Nat
  <2>1. \A i \in Ids : OverOf(ledger', i, s, {d}) >= OverOf(ledger, i, s, {d})
    BY <1>5
  <2> QED
    BY <1>1, <2>1, OverrunMonotone, OverrunTypes
<1>6. CeilingsKept'
  <2>1. ASSUME NEW s \in Scopes
        PROVE  rolling'[s] <= RollingCeiling[s] + SumOfDays(OverrunsOfDays(s))'
    <3>1. \A d \in Days : OverrunsOfDays(s)'[d] >= OverrunsOfDays(s)[d]
      <4> TAKE d \in Days
      <4>1. CASE <<s, d>> \in buckets
        <5>1. /\ OverrunsOfDays(s)'[d] = OverrunIn(ledger', s, {d})
              /\ OverrunsOfDays(s)[d] = OverrunIn(ledger, s, {d})
          BY <4>1 DEF OverrunsOfDays
        <5> QED
          BY <1>5, <4>1, <5>1
      <4>2. CASE <<s, d>> \notin buckets
        <5>1. OverrunsOfDays(s)'[d] = 0 /\ OverrunsOfDays(s)[d] = 0
          BY <4>2 DEF OverrunsOfDays
        <5> QED
          BY <5>1
      <4> QED
        BY <4>1, <4>2
    <3> DEFINE over == SumOfDays(OverrunsOfDays(s))
               overs == SumOfDays(OverrunsOfDays(s))'
    <3>2. overs >= over
      BY <1>2, <3>1, OverrunsGrow DEF Money
    <3>3. over \in Nat
      BY OverrunsTypes DEF Money
    <3>4. overs \in Int
      <4>1. OverrunsOfDays(s)' \in [Days -> Int]
        BY OverrunTypes DEF OverrunsOfDays
      <4> DEFINE g == OverrunsOfDays(s)'
      <4> HIDE DEF g
      <4>2. SumFunction(g) \in Int
        BY <4>1, FiniteSets, SumTypes DEF g
      <4> QED
        BY <4>2 DEF g, SumOfDays
    <3>5. rolling[s] <= RollingCeiling[s] + over
      BY DEF Money, CeilingsKept
    <3>6. rolling'[s] = rolling[s] /\ rolling[s] \in Nat /\ RollingCeiling[s] \in Nat
      BY <1>1, ConstantTypes
    <3> HIDE DEF over, overs
    <3>7. rolling'[s] <= RollingCeiling[s] + overs
      BY <3>2, <3>3, <3>4, <3>5, <3>6
    <3> QED
      BY <3>7 DEF overs
  <2>2. ASSUME NEW s \in Scopes
        PROVE  daily'[s][day] <= DailyCeiling[s] + OverrunIn(ledger', s, {day})
    <3>1. daily[s][day] <= DailyCeiling[s] + OverrunIn(ledger, s, {day})
      BY DEF Money, CeilingsKept
    <3>2. daily'[s][day] = daily[s][day] /\ daily[s][day] \in Nat /\ DailyCeiling[s] \in Nat
      BY <1>1, ConstantTypes
    <3>3. /\ OverrunIn(ledger', s, {day}) >= OverrunIn(ledger, s, {day})
          /\ OverrunIn(ledger', s, {day}) \in Nat /\ OverrunIn(ledger, s, {day}) \in Nat
      BY <1>1, <1>5
    <3> QED
      BY <3>1, <3>2, <3>3
  <2> QED
    BY <2>1, <2>2 DEF CeilingsKept
<1> QED
  BY <1>2, <1>3, <1>4, <1>6 DEF Money

\* A repaired row counts what it counted.
LEMMA RepairedCounts ==
    ASSUME NEW row \in Rows, row.state = "reserved" => row.committed = 0
    PROVE  /\ Repairable(row) => ~Unresolved(Repaired(row))
           /\ Repaired(row) \in Rows
           /\ Repaired(row).scope = row.scope /\ Repaired(row).day = row.day
           /\ Charge(Repaired(row)) = Charge(row)
           /\ NotBelowZero(Repaired(row).committed - Repaired(row).reserved)
                >= NotBelowZero(row.committed - row.reserved)
<1>1. row.reserved \in Nat /\ row.committed \in Nat
  BY RowTypes
<1>2. CASE StaleRead(row)
  <2> DEFINE new == [row EXCEPT !.state = "settled", !.committed = row.reserved,
                                !.reconciled = TRUE]
  <2>1. Repaired(row) = new
    BY <1>2 DEF Repaired
  <2>2. /\ new \in Rows /\ new.scope = row.scope /\ new.day = row.day
        /\ new.state = "settled" /\ new.committed = row.reserved /\ new.reserved = row.reserved
        /\ new.reconciled = TRUE
    BY <1>1 DEF Rows
  <2>3. row.state = "reserved" /\ row.committed = 0
    BY <1>2 DEF StaleRead
  <2> HIDE DEF new
  <2> QED
    BY <1>1, <2>1, <2>2, <2>3 DEF Charge, NotBelowZero, Unresolved
<1>3. CASE ~StaleRead(row)
  <2> DEFINE new == [row EXCEPT !.reconciled = TRUE]
  <2>1. Repaired(row) = new
    BY <1>3 DEF Repaired
  <2>2. /\ new \in Rows /\ new.scope = row.scope /\ new.day = row.day
        /\ new.state = row.state /\ new.committed = row.committed
        /\ new.reserved = row.reserved /\ new.reconciled = TRUE
    BY DEF Rows
  <2>3. Repairable(row) => new.state = "settled"
    BY <1>3, <2>2 DEF Repairable, CleanupOverrun
  <2>4. Charge(new) = Charge(row)
    BY <2>2 DEF Charge
  <2>5. NotBelowZero(new.committed - new.reserved) = NotBelowZero(row.committed - row.reserved)
        /\ NotBelowZero(row.committed - row.reserved) \in Nat
    BY <1>1, <2>2 DEF NotBelowZero
  <2> HIDE DEF new
  <2> QED
    BY <2>1, <2>2, <2>3, <2>4, <2>5 DEF Unresolved
<1> QED
  BY <1>2, <1>3

\* A reconciliation writes what the ledger implies.
LEMMA ApplyKeeps ==
    ASSUME TypeOK, RowsFit, Money, PlanFits, ApplyReconciliation
    PROVE  Money'
<1>1. /\ plan.pc = "apply" /\ day = plan.day /\ buckets = plan.buckets
      /\ \A s \in Scopes, d \in WindowDays : Charged(ledger, s, d) = plan.counts[s][d]
      /\ ledger' = [i \in Ids |-> IF i \in DOMAIN plan.open THEN Repaired(ledger[i]) ELSE ledger[i]]
      /\ daily' = plan.counts /\ rolling' = plan.totals /\ buckets' = plan.rows /\ day' = day
  BY DEF ApplyReconciliation, Unmoved
<1>2. /\ plan.counts \in [Scopes -> [Days -> Nat]]
      /\ plan.totals = [s \in Scopes |-> SumOfDays(plan.counts[s])]
      /\ \A s \in Scopes, d \in Days : ~InWindow(d, day) => plan.counts[s][d] = 0
      /\ plan.rows \subseteq {b \in Scopes \X Days : InWindow(b[2], day)}
      /\ \A b \in buckets : InWindow(b[2], day) => b \in plan.rows
      /\ \A s \in Scopes : /\ plan.totals[s] <= RollingCeiling[s]
                           /\ plan.counts[s][day] <= DailyCeiling[s]
  BY <1>1 DEF PlanFits
<1>3. /\ day \in Days /\ day \in Nat
      /\ ledger \in [Ids -> Rows] /\ buckets \subseteq Scopes \X Days
  BY ConstantTypes DEF TypeOK
<1>4. \A d \in Days : InWindow(d, day) <=> d \in WindowDays /\ d >= FirstDay
  BY <1>3, ConstantTypes DEF InWindow, WindowDays, FirstDay
<1>5. ASSUME NEW i \in Ids, NEW s, NEW d
      PROVE  /\ ledger'[i] \in Rows
             /\ ChargeOf(ledger', i, s, d) = ChargeOf(ledger, i, s, d)
  <2>1. ledger[i] \in Rows /\ (ledger[i].state = "reserved" => ledger[i].committed = 0)
    BY <1>3 DEF RowsFit, RowFits
  <2>2. ledger'[i] = ledger[i] \/ ledger'[i] = Repaired(ledger[i])
    BY <1>1
  <2>3. /\ ledger'[i] \in Rows
        /\ ledger'[i].scope = ledger[i].scope /\ ledger'[i].day = ledger[i].day
        /\ Charge(ledger'[i]) = Charge(ledger[i])
    BY <2>1, <2>2, RepairedCounts
  <2> QED
    BY <2>3 DEF ChargeOf
<1>6. ledger' \in [Ids -> Rows]
  BY <1>1, <1>5
<1>7. \A s \in Scopes, d \in Days : Charged(ledger', s, d) = Charged(ledger, s, d)
  BY <1>3, <1>5, <1>6, ChargedStays
<1>8. \A s \in Scopes : rolling'[s] = SumFunction(daily'[s]) /\ rolling'[s] \in Nat
  <2> TAKE s \in Scopes
  <2> DEFINE f == plan.counts[s]
  <2>1. f \in [Days -> Nat]
    BY <1>2
  <2>2. rolling'[s] = SumFunction(f)
    BY <1>1, <1>2 DEF SumOfDays
  <2> HIDE DEF f
  <2>3. SumFunction(f) \in Int /\ SumFunction(f) >= 0
    BY <2>1, FiniteSets, SumTypes
  <2> QED
    BY <1>1, <2>2, <2>3 DEF f
<1>9. AccountsTyped'
  <2>1. rolling' = [s \in Scopes |-> rolling'[s]]
    BY <1>1, <1>2
  <2>2. rolling' \in [Scopes -> Nat]
    BY <1>8, <2>1
  <2>3. buckets' \subseteq Scopes \X Days /\ daily' \in [Scopes -> [Days -> Nat]]
    BY <1>1, <1>2
  <2> QED
    BY <1>6, <2>2, <2>3 DEF AccountsTyped
<1>10. BucketsExact'
  <2>1. ASSUME NEW s \in Scopes, NEW d \in Days
        PROVE  daily'[s][d] = IF <<s, d>> \in buckets' THEN Charged(ledger', s, d) ELSE 0
    <3>1. daily'[s][d] = plan.counts[s][d] /\ Charged(ledger', s, d) = Charged(ledger, s, d)
      BY <1>1, <1>7
    <3>2. CASE <<s, d>> \in buckets'
      <4>1. InWindow(d, day)
        BY <1>1, <1>2, <3>2
      <4>2. Charged(ledger, s, d) = plan.counts[s][d]
        BY <1>1, <1>4, <4>1
      <4> QED
        BY <3>1, <3>2, <4>2
    <3>3. CASE <<s, d>> \notin buckets' /\ InWindow(d, day)
      <4>1. <<s, d>> \notin buckets
        BY <1>1, <1>2, <3>3
      <4>2. Charged(ledger, s, d) = 0
        BY <1>4, <3>3, <4>1, NoBucketNoCharge
      <4>3. Charged(ledger, s, d) = plan.counts[s][d]
        BY <1>1, <1>4, <3>3
      <4> QED
        BY <3>1, <3>3, <4>2, <4>3
    <3>4. CASE <<s, d>> \notin buckets' /\ ~InWindow(d, day)
      BY <1>2, <3>1, <3>4
    <3> QED
      BY <3>2, <3>3, <3>4
  <2>2. \A b \in buckets' : b[2] <= day'
    BY <1>1, <1>2 DEF InWindow
  <2> QED
    BY <2>1, <2>2 DEF BucketsExact
<1>11. RollingExact'
  BY <1>8 DEF RollingExact, SumOfDays
<1>12. CeilingsKept'
  <2>1. ASSUME NEW s \in Scopes
        PROVE  /\ rolling'[s] <= RollingCeiling[s] + SumOfDays(OverrunsOfDays(s))'
               /\ daily'[s][day] <= DailyCeiling[s] + OverrunIn(ledger', s, {day})
    <3>1. OverrunsOfDays(s)' \in [Days -> Int] /\ \A d \in Days : OverrunsOfDays(s)'[d] >= 0
      BY <1>6, OverrunTypes DEF OverrunsOfDays
    <3> DEFINE h == OverrunsOfDays(s)'
    <3> HIDE DEF h
    <3>2. SumFunction(h) \in Int /\ SumFunction(h) >= 0
      BY <3>1, FiniteSets, SumTypes DEF h
    <3>3. rolling'[s] <= RollingCeiling[s] /\ daily'[s][day] <= DailyCeiling[s]
      BY <1>1, <1>2
    <3>4. rolling'[s] \in Nat /\ RollingCeiling[s] \in Nat /\ DailyCeiling[s] \in Nat
      BY <1>8, ConstantTypes
    <3>5. daily'[s][day] \in Nat
      BY <1>1, <1>2, <1>3
    <3>6. OverrunIn(ledger', s, {day}) \in Nat
      BY <1>6, OverrunTypes
    <3>7. rolling'[s] <= RollingCeiling[s] + SumFunction(h)
      BY <3>2, <3>3, <3>4
    <3>8. daily'[s][day] <= DailyCeiling[s] + OverrunIn(ledger', s, {day})
      BY <3>3, <3>4, <3>5, <3>6
    <3> QED
      BY <3>7, <3>8 DEF h, SumOfDays
  <2> QED
    BY <1>1, <2>1 DEF CeilingsKept
<1> QED
  BY <1>9, <1>10, <1>11, <1>12 DEF Money

\* What the maintenance does to a row: it marks a reservation whose request
\* is gone, or prunes a settled row whose day has left the window.
LEMMA StaleWrites ==
    ASSUME TypeOK, RowsFit, RequestsHold, NEW old, old \subseteq Abandoned, MarkStale(old),
           NEW i \in Ids
    PROVE  /\ ledger'[i] \in Rows
           /\ \/ ledger'[i] = ledger[i]
              \/ /\ ledger[i].state = "reserved" /\ request[i[1]].pc = "done"
                 /\ \E failure \in Reasons : ledger'[i] = [ledger[i] EXCEPT !.failure = failure]
              \/ /\ ledger[i].state = "settled" /\ ledger[i].day < FirstDay
                 /\ ledger'[i] = NoRow
<1>1. ledger'[i] = IF i \in Stale(old) /\ ledger[i].failure = "none"
           THEN [ledger[i] EXCEPT !.failure = "STALE_RESERVATION_REQUIRES_RECONCILIATION"]
           ELSE IF Prunable(ledger[i]) THEN NoRow ELSE ledger[i]
  BY DEF MarkStale
<1>2. ledger[i] \in Rows
  BY DEF TypeOK
<1>3. CASE i \in Stale(old) /\ ledger[i].failure = "none"
  <2>1. ledger'[i] = [ledger[i] EXCEPT !.failure = "STALE_RESERVATION_REQUIRES_RECONCILIATION"]
    BY <1>1, <1>3
  <2>2. i \in Abandoned
    BY <1>3 DEF Stale
  <2>3. ledger[i].state = "reserved" /\ request[i[1]].pc \in {"new", "done"}
    BY <2>2 DEF Abandoned, Running
  <2>4. request[i[1]].pc # "new"
    <3>1. i[1] \in Requests /\ i[2] \in Suffixes /\ i = <<i[1], i[2]>>
      BY DEF Ids
    <3>2. RequestHolds(i[1])
      BY <3>1 DEF RequestsHold
    <3> QED
      BY <2>3, <3>1, <3>2 DEF RequestHolds
  <2>5. "STALE_RESERVATION_REQUIRES_RECONCILIATION" \in Reasons
    BY DEF Reasons
  <2>6. ledger'[i] \in Rows
    BY <1>2, <2>1, <2>5 DEF Rows
  <2> QED
    BY <2>1, <2>3, <2>4, <2>5, <2>6
<1>4. CASE ~(i \in Stale(old) /\ ledger[i].failure = "none") /\ Prunable(ledger[i])
  <2>1. ledger'[i] = NoRow
    BY <1>1, <1>4
  <2>2. ledger[i].day \in Nat /\ day \in Nat
    BY <1>2, RowTypes, ConstantTypes DEF TypeOK
  <2>3. ledger[i].state = "settled" /\ ledger[i].day + Retention < day
    BY <1>4 DEF Prunable
  <2>4. ledger[i].day < FirstDay
    BY <2>2, <2>3, ConstantTypes DEF FirstDay
  <2>5. NoRow \in Rows
    BY ConstantTypes DEF NoRow, Rows, AllKinds
  <2> QED
    BY <2>1, <2>3, <2>4, <2>5
<1>5. CASE ~(i \in Stale(old) /\ ledger[i].failure = "none") /\ ~Prunable(ledger[i])
  BY <1>1, <1>2, <1>5
<1> QED
  BY <1>3, <1>4, <1>5

\* What is marked or pruned no bucket counts differently.
LEMMA MarkStaleKeeps ==
    ASSUME TypeOK, RowsFit, RequestsHold, CronKnows, Money,
           NEW old, old \subseteq Abandoned, MarkStale(old)
    PROVE  Money'
<1>1. cron.pc = "stale" /\ UNCHANGED <<day, daily, buckets, rolling>>
  BY DEF MarkStale
<1>2. \A b \in buckets : b[2] >= FirstDay
  BY <1>1 DEF CronKnows
<1>3. /\ ledger \in [Ids -> Rows] /\ day \in Days /\ day \in Nat /\ FirstDay <= day
      /\ FirstDay \in Int
  BY ConstantTypes DEF TypeOK, FirstDay
<1>4. ledger' \in [Ids -> Rows]
  <2>1. \A i \in Ids : ledger'[i] \in Rows
    BY StaleWrites
  <2>2. ledger' = [i \in Ids |-> ledger'[i]]
    BY DEF MarkStale
  <2> QED
    BY <2>1, <2>2
<1>5. ASSUME NEW i \in Ids, NEW s \in Scopes, NEW d \in Days, <<s, d>> \in buckets \/ d = day
      PROVE  /\ ChargeOf(ledger', i, s, d) = ChargeOf(ledger, i, s, d)
             /\ OverOf(ledger', i, s, {d}) = OverOf(ledger, i, s, {d})
  <2>1. ledger[i] \in Rows
    BY <1>3
  <2>2. CASE ledger'[i] = ledger[i]
    BY <2>2 DEF ChargeOf, OverOf
  <2>3. CASE \E failure \in Reasons : ledger'[i] = [ledger[i] EXCEPT !.failure = failure]
    <3>1. /\ ledger'[i].state = ledger[i].state /\ ledger'[i].scope = ledger[i].scope
          /\ ledger'[i].day = ledger[i].day /\ ledger'[i].reserved = ledger[i].reserved
          /\ ledger'[i].committed = ledger[i].committed
      BY <2>1, <2>3 DEF Rows
    <3>2. Charge(ledger'[i]) = Charge(ledger[i])
      BY <3>1 DEF Charge
    <3> QED
      BY <3>1, <3>2 DEF ChargeOf, OverOf
  <2>4. CASE ledger[i].day < FirstDay /\ ledger'[i] = NoRow
    <3>1. ledger[i].day \in Nat
      BY <2>1, RowTypes
    <3>2. ledger[i].day # d
      <4>1. d \in Nat
        BY ConstantTypes
      <4>2. d >= FirstDay
        BY <1>2, <1>3, <1>5
      <4> QED
        BY <1>3, <2>4, <3>1, <4>1, <4>2
    <3>3. ChargeOf(ledger, i, s, d) = 0 /\ OverOf(ledger, i, s, {d}) = 0
      BY <3>2 DEF ChargeOf, OverOf
    <3>4. /\ ledger'[i].state = "none" /\ ledger'[i].committed = 0 /\ ledger'[i].reserved = 0
      BY <2>4 DEF NoRow
    <3>5. ChargeOf(ledger', i, s, d) = 0
      BY <3>4 DEF ChargeOf, Charge
    <3>6. OverOf(ledger', i, s, {d}) = 0
      BY <3>4 DEF OverOf, NotBelowZero
    <3> QED
      BY <3>3, <3>5, <3>6
  <2> QED
    BY <2>2, <2>3, <2>4, StaleWrites
<1>6. \A i \in Ids, s \in Scopes, d \in Days :
         OverOf(ledger, i, s, {d}) >= OverOf(ledger, i, s, {d})
  BY <1>3, OverTypes
<1> QED
  BY <1>1, <1>4, <1>5, <1>6, RowsMoveKeeps

\* Marking a row reconciled changes no account.
LEMMA RepairRowKeeps ==
    ASSUME TypeOK, RowsFit, Money, PlanFits, RepairRow
    PROVE  Money'
<1>1. PICK e \in plan.open : /\ CleanupOverrun(ledger[e])
                             /\ ledger' = [ledger EXCEPT ![e].reconciled = TRUE]
  BY DEF RepairRow
<1>2. UNCHANGED <<day, daily, buckets, rolling>> /\ e \in Ids
  BY <1>1 DEF RepairRow, PlanFits
<1>3. ledger \in [Ids -> Rows]
  BY DEF TypeOK
<1>4. ASSUME NEW i \in Ids
      PROVE  /\ ledger'[i] \in Rows
             /\ ledger'[i].state = ledger[i].state /\ ledger'[i].scope = ledger[i].scope
             /\ ledger'[i].day = ledger[i].day /\ ledger'[i].reserved = ledger[i].reserved
             /\ ledger'[i].committed = ledger[i].committed
  BY <1>1, <1>2, <1>3 DEF Rows
<1>5. ledger' \in [Ids -> Rows]
  BY <1>1, <1>3, <1>4
<1>6. ASSUME NEW i \in Ids, NEW s \in Scopes, NEW d \in Days
      PROVE  /\ ChargeOf(ledger', i, s, d) = ChargeOf(ledger, i, s, d)
             /\ OverOf(ledger', i, s, {d}) >= OverOf(ledger, i, s, {d})
  <2>1. Charge(ledger'[i]) = Charge(ledger[i])
    BY <1>4 DEF Charge
  <2>2. OverOf(ledger', i, s, {d}) = OverOf(ledger, i, s, {d})
    BY <1>4 DEF OverOf
  <2>3. OverOf(ledger, i, s, {d}) \in Nat
    BY <1>3, OverTypes
  <2> QED
    BY <1>4, <2>1, <2>2, <2>3 DEF ChargeOf
<1> QED
  BY <1>2, <1>5, <1>6, RowsMoveKeeps

\* Nothing is counted on a day that has just begun.
LEMMA NewDayKeeps ==
    ASSUME TypeOK, Money, NewDay
    PROVE  Money'
<1>1. day' = day + 1 /\ day < MaxDay /\ UNCHANGED accounts
  BY DEF NewDay
<1>2. UNCHANGED <<ledger, daily, buckets, rolling>>
  BY <1>1 DEF accounts
<1>3. day \in Nat /\ day' \in Days
  BY <1>1, ConstantTypes DEF TypeOK
<1>4. AccountsTyped' /\ RollingExact'
  BY <1>2 DEF Money, AccountsTyped, RollingExact
<1>5. BucketsExact'
  <2>1. \A b \in buckets' : b[2] <= day'
    <3> TAKE b \in buckets'
    <3>1. b[2] \in Nat /\ b[2] <= day
      BY <1>2, ConstantTypes DEF Money, BucketsExact, AccountsTyped
    <3> QED
      BY <1>1, <1>3, <3>1
  <2> QED
    BY <1>2, <2>1 DEF Money, BucketsExact
<1>6. ASSUME NEW s \in Scopes
      PROVE  daily'[s][day'] = 0 /\ OverrunIn(ledger', s, {day'}) \in Nat
  <2>1. <<s, day'>> \notin buckets
    <3>1. \A b \in buckets : b[2] <= day
      BY DEF Money, BucketsExact
    <3> QED
      BY <1>1, <1>3, <3>1
  <2>2. OverrunIn(ledger', s, {day'}) \in Nat
    BY <1>4, OverrunTypes DEF AccountsTyped
  <2> QED
    BY <1>2, <1>3, <2>1, <2>2 DEF Money, BucketsExact
<1>7. CeilingsKept'
  <2>1. \A s \in Scopes : rolling'[s] <= RollingCeiling[s] + SumOfDays(OverrunsOfDays(s))'
    BY <1>2 DEF Money, CeilingsKept, OverrunsOfDays
  <2>2. \A s \in Scopes : daily'[s][day'] <= DailyCeiling[s] + OverrunIn(ledger', s, {day'})
    BY <1>6, ConstantTypes
  <2> QED
    BY <2>1, <2>2 DEF CeilingsKept
<1> QED
  BY <1>4, <1>5, <1>7 DEF Money

\* Steps that leave the day and the accounts alone.
LEMMA QuietKeeps ==
    ASSUME Money, UNCHANGED <<day, accounts>>
    PROVE  Money'
BY DEF Money, AccountsTyped, BucketsExact, RollingExact, CeilingsKept, OverrunsOfDays, accounts

\* Every step keeps the accounts.
LEMMA MoneyStep ==
    ASSUME IInv, [Next]_vars
    PROVE  Money'
<1>1. TypeOK /\ RowsFit /\ RequestsHold /\ CronKnows /\ PlanFits /\ Money
  BY DEF IInv, Money, AccountsTyped, TypeOK
<1>2. ASSUME NEW q \in Requests, Arrive(q) \/ RequestStep(q)
      PROVE  Money'
  <2>1. CASE Arrive(q)
    BY <1>1, <2>1, QuietKeeps DEF Arrive
  <2>2. ASSUME NEW x \in Suffixes, Reserve(q, x) \/ ReserveFails(q, x)
        PROVE  Money'
    <3>1. request[q].pc = x /\ UNCHANGED day
      BY <2>2 DEF Reserve, ReserveFails
    <3>2. CASE Enter(q, x, ScopeOf(q, x))
      BY <1>1, <3>1, <3>2, EnterKeeps
    <3>3. CASE UNCHANGED <<ledger, daily, buckets, rolling>>
      BY <1>1, <3>1, <3>3, QuietKeeps DEF accounts
    <3> QED
      BY <2>2, <3>2, <3>3 DEF Reserve, ReserveFails
  <2>3. CASE Settle(q) \/ SettleUnknown(q)
    BY <1>1, <2>3, SettleKeeps DEF Settle, SettleUnknown
  <2>4. CASE Work(q) \/ ObserveSize(q) \/ SettleFails(q) \/ MarkFault(q) \/ Stop(q)
    <3>1. UNCHANGED <<day, accounts>>
      BY <2>4 DEF Work, ObserveSize, SettleFails, MarkFault, Stop
    <3> QED
      BY <1>1, <3>1, QuietKeeps
  <2> QED
    BY <1>2, <2>1, <2>2, <2>3, <2>4 DEF RequestStep
<1>3. CASE NewDay
  BY <1>1, <1>3, NewDayKeeps
<1>4. CASE CronStep
  <2>1. CASE ReadExpired \/ CronEnds
    BY <1>1, <2>1, QuietKeeps DEF ReadExpired, CronEnds
  <2>2. CASE ExpireBuckets
    BY <1>1, <2>2, ExpireKeeps
  <2>3. ASSUME NEW old \in SUBSET Abandoned, MarkStale(old)
        PROVE  Money'
    BY <1>1, <2>3, MarkStaleKeeps
  <2> QED
    BY <1>4, <2>1, <2>2, <2>3 DEF CronStep
<1>5. CASE OperatorStep
  <2>1. CASE ApplyReconciliation
    BY <1>1, <2>1, ApplyKeeps
  <2>2. CASE RepairRow
    BY <1>1, <2>2, RepairRowKeeps
  <2>3. CASE PlanReconciliation \/ PlanRepair \/ ClearFault \/ ToolStops
    <3>1. UNCHANGED <<day, accounts>>
      BY <2>3 DEF PlanReconciliation, PlanRepair, ClearFault, ToolStops
    <3> QED
      BY <1>1, <3>1, QuietKeeps
  <2> QED
    BY <1>5, <2>1, <2>2, <2>3 DEF OperatorStep
<1>6. CASE UNCHANGED vars
  BY <1>1, <1>6, QuietKeeps DEF vars
<1> QED
  BY <1>2, <1>3, <1>4, <1>5, <1>6 DEF Next

-----------------------------------------------------------------------------
(* The types of the rest.                                                  *)

RequestRecords == [pc : Pcs, kind : AllKinds, vault : Vaults \cup {None},
                   held : SUBSET Suffixes, used : Nat \cup {None}]
FlagRecords == [newVaults : BOOLEAN, writes : BOOLEAN, fault : BOOLEAN,
                reason : Reasons, origin : Requests \cup {None}]

\* The records a step may put in a request's place, and the flags after a
\* fault has been raised.
LEMMA RecordTypes ==
    /\ NewRequest \in RequestRecords /\ Done \in RequestRecords
    /\ \A r \in RequestRecords, pc \in Pcs : [r EXCEPT !.pc = pc] \in RequestRecords
    /\ \A f \in FlagRecords, reason \in Reasons, q \in Requests :
          Raise(f, reason, q) \in FlagRecords
<1>1. NewRequest \in RequestRecords /\ Done \in RequestRecords
  BY DEF NewRequest, Done, RequestRecords, Pcs, AllKinds
<1>2. ASSUME NEW r \in RequestRecords, NEW pc \in Pcs
      PROVE  [r EXCEPT !.pc = pc] \in RequestRecords
  BY DEF RequestRecords
<1>3. ASSUME NEW f \in FlagRecords, NEW reason \in Reasons, NEW q \in Requests
      PROVE  Raise(f, reason, q) \in FlagRecords
  BY DEF FlagRecords, Raise
<1> QED
  BY <1>1, <1>2, <1>3

\* Everything but the accounts and the maintenance; a request has the vault of
\* its second reservation.
ControlTyped ==
    /\ day \in Days /\ full \in BOOLEAN /\ flags \in FlagRecords
    /\ request \in [Requests -> RequestRecords]
    /\ plan.pc \in {"none", "apply", "rows", "flags"}

\* How a step moves one request: only one that is not done.
RequestMoves(q) ==
    /\ request[q].pc # "done"
    /\ request' = [request EXCEPT ![q] = request'[q]]
    /\ request'[q] \in RequestRecords

\* Every request step moves one request.
LEMMA RequestsMove ==
    ASSUME ControlTyped, NEW q \in Requests, Arrive(q) \/ RequestStep(q)
    PROVE  RequestMoves(q)
<1>1. request \in [Requests -> RequestRecords] /\ request[q] \in RequestRecords
  BY DEF ControlTyped
<1>2. request[q].kind \in AllKinds /\ request[q].vault \in Vaults \cup {None}
      /\ request[q].held \subseteq Suffixes /\ request[q].used \in Nat \cup {None}
  BY <1>1 DEF RequestRecords
<1>3. CASE Arrive(q)
  <2>1. PICK kind \in Kinds \ {"cleanup"}, v \in Vaults \cup {None} :
           request' = [request EXCEPT ![q].pc = "route", ![q].kind = kind, ![q].vault = v]
    BY <1>3 DEF Arrive
  <2>2. kind \in AllKinds
    BY BudgetAssumption DEF BudgetAssumption
  <2>3. request'[q] = [request[q] EXCEPT !.pc = "route", !.kind = kind, !.vault = v]
    BY <1>1, <2>1
  <2>4. request'[q] \in RequestRecords
    BY <1>1, <2>2, <2>3 DEF RequestRecords, Pcs
  <2>5. request[q].pc = "new"
    BY <1>3 DEF Arrive
  <2>6. request' = [request EXCEPT ![q] = request'[q]]
    BY <1>1, <2>1
  <2> QED
    BY <2>4, <2>5, <2>6 DEF RequestMoves
<1>4. ASSUME NEW x \in Suffixes, Proceeds(q, x), request[q].pc = x
      PROVE  RequestMoves(q)
  <2>1. PICK pc \in {"vault", "work"} :
           request' = [request EXCEPT ![q].pc = pc, ![q].held = @ \cup {x}]
    BY <1>4 DEF Proceeds
  <2>2. request'[q] = [request[q] EXCEPT !.pc = pc, !.held = @ \cup {x}]
    BY <1>1, <2>1
  <2>3. request'[q] \in RequestRecords
    <3> DEFINE held == request[q].held \cup {x}
    <3>1. held \in SUBSET Suffixes
      BY <1>2
    <3>2. request'[q] = [request[q] EXCEPT !.pc = pc, !.held = held]
      BY <2>2
    <3> HIDE DEF held
    <3> QED
      BY <1>1, <3>1, <3>2 DEF RequestRecords, Pcs
  <2>4. request' = [request EXCEPT ![q] = request'[q]]
    BY <1>1, <2>1
  <2> QED
    BY <1>4, <2>3, <2>4 DEF RequestMoves, Suffixes
<1>5. ASSUME NEW x \in Suffixes, GivesUp(q), request[q].pc = x
      PROVE  RequestMoves(q)
  <2>1. request' = [request EXCEPT ![q] =
                      IF @.held = {} THEN Done ELSE [@ EXCEPT !.pc = "observe"]]
    BY <1>5 DEF GivesUp
  <2>2. request'[q] = Done \/ request'[q] = [request[q] EXCEPT !.pc = "observe"]
    BY <1>1, <2>1
  <2>3. request'[q] \in RequestRecords
    BY <1>1, <2>2, RecordTypes DEF Pcs
  <2>4. request' = [request EXCEPT ![q] = request'[q]]
    BY <1>1, <2>1
  <2> QED
    BY <1>5, <2>3, <2>4 DEF RequestMoves, Suffixes
<1>6. ASSUME NEW x \in Suffixes, Reserve(q, x) \/ ReserveFails(q, x)
      PROVE  RequestMoves(q)
  BY <1>4, <1>5, <1>6 DEF Reserve, ReserveFails
<1>7. CASE Work(q)
  <2>1. PICK used \in Uses \cup {None} :
           request' = [request EXCEPT ![q].pc = "observe", ![q].used = used]
    BY <1>7 DEF Work
  <2>2. used \in Nat \cup {None}
    BY BudgetAssumption DEF BudgetAssumption
  <2>3. request'[q] = [request[q] EXCEPT !.pc = "observe", !.used = used]
    BY <1>1, <2>1
  <2>4. request'[q] \in RequestRecords
    BY <1>1, <2>2, <2>3 DEF RequestRecords, Pcs
  <2>5. request[q].pc = "work"
    BY <1>7 DEF Work
  <2>6. request' = [request EXCEPT ![q] = request'[q]]
    BY <1>1, <2>1
  <2> QED
    BY <2>4, <2>5, <2>6 DEF RequestMoves
<1>8. ASSUME NEW r \in RequestRecords, request' = [request EXCEPT ![q] = r],
             request[q].pc # "done"
      PROVE  RequestMoves(q)
  <2>1. request'[q] = r
    BY <1>1, <1>8
  <2> QED
    BY <1>8, <2>1 DEF RequestMoves
<1>9. CASE ObserveSize(q) \/ SettleFails(q)
  <2>1. PICK pc \in {"batch", "fault"} : request' = [request EXCEPT ![q].pc = pc]
    BY <1>9 DEF ObserveSize, SettleFails
  <2>2. request' = [request EXCEPT ![q] = [request[q] EXCEPT !.pc = pc]]
    BY <1>1, <2>1
  <2>3. [request[q] EXCEPT !.pc = pc] \in RequestRecords
    BY <1>1, RecordTypes DEF Pcs
  <2>4. request[q].pc # "done"
    BY <1>9 DEF ObserveSize, SettleFails
  <2> QED
    BY <1>8, <2>2, <2>3, <2>4
<1>10. ASSUME NEW after \in RequestRecords, SettleBatch(q, after)
       PROVE  RequestMoves(q)
  <2>1. request' = [request EXCEPT ![q] = after]
        \/ request' = [request EXCEPT ![q] = [request[q] EXCEPT !.pc = "fault"]]
    BY <1>1, <1>10 DEF SettleBatch
  <2>2. [request[q] EXCEPT !.pc = "fault"] \in RequestRecords
    BY <1>1, RecordTypes DEF Pcs
  <2>3. request[q].pc # "done"
    BY <1>10 DEF SettleBatch
  <2> QED
    BY <1>8, <2>1, <2>2, <2>3
<1>11. CASE Settle(q) \/ SettleUnknown(q)
  <2>1. [request[q] EXCEPT !.pc = "fault"] \in RequestRecords /\ Done \in RequestRecords
    BY <1>1, RecordTypes DEF Pcs
  <2> QED
    BY <1>10, <1>11, <2>1 DEF Settle, SettleUnknown
<1>12. CASE MarkFault(q) \/ Stop(q)
  <2>1. request' = [request EXCEPT ![q] = Done] /\ request[q].pc # "done"
    BY <1>12 DEF MarkFault, Stop
  <2> QED
    BY <1>8, <2>1, RecordTypes
<1> QED
  BY <1>3, <1>6, <1>7, <1>9, <1>11, <1>12 DEF RequestStep

\* The requests after one of them moved.
LEMMA RequestsTyped ==
    ASSUME ControlTyped, NEW q \in Requests, RequestMoves(q)
    PROVE  request' \in [Requests -> RequestRecords]
BY DEF ControlTyped, RequestMoves

\* The maintenance job may enter its own request, and touches no other.
LEMMA CleanupArrives ==
    ASSUME ControlTyped, NEW old, MarkStale(old)
    PROVE  \/ UNCHANGED request
           \/ \E q \in Requests : RequestMoves(q) /\ request[q].pc = "new"
                 /\ request'[q].pc = "route" /\ request'[q].held = request[q].held
<1>1. SUFFICES ASSUME NEW q \in Requests, request[q].pc = "new",
                      request' = [request EXCEPT ![q].pc = "route", ![q].kind = "cleanup"]
               PROVE  RequestMoves(q) /\ request[q].pc = "new"
                      /\ request'[q].pc = "route" /\ request'[q].held = request[q].held
  BY DEF MarkStale
<1>2. request \in [Requests -> RequestRecords] /\ request[q] \in RequestRecords
  BY DEF ControlTyped
<1>3. request'[q] = [request[q] EXCEPT !.pc = "route", !.kind = "cleanup"]
  BY <1>1, <1>2
<1>4. /\ request'[q] \in RequestRecords /\ request'[q].pc = "route"
      /\ request'[q].held = request[q].held
  BY <1>2, <1>3 DEF RequestRecords, Pcs, AllKinds
<1>5. request' = [request EXCEPT ![q] = request'[q]]
  BY <1>1, <1>2
<1> QED
  BY <1>1, <1>4, <1>5 DEF RequestMoves

\* Every step keeps the types of these.
LEMMA ControlStep ==
    ASSUME ControlTyped, [Next]_vars
    PROVE  ControlTyped'
<1>0. /\ day \in Days /\ full \in BOOLEAN /\ flags \in FlagRecords
      /\ request \in [Requests -> RequestRecords]
      /\ plan.pc \in {"none", "apply", "rows", "flags"}
  BY DEF ControlTyped
<1>1. ASSUME NEW q \in Requests, Arrive(q) \/ RequestStep(q)
      PROVE  /\ UNCHANGED <<day, plan>> /\ full' \in BOOLEAN /\ flags' \in FlagRecords
             /\ request' \in [Requests -> RequestRecords]
  <2>1. request' \in [Requests -> RequestRecords]
    BY <1>1, RequestsMove, RequestsTyped
  <2>2. CASE Arrive(q)
    BY <1>0, <2>1, <2>2 DEF Arrive
  <2>3. ASSUME NEW x \in Suffixes, Reserve(q, x) \/ ReserveFails(q, x)
        PROVE  UNCHANGED <<day, flags, full, plan>>
    BY <2>3 DEF Reserve, ReserveFails
  <2>4. CASE Work(q) \/ SettleFails(q) \/ Stop(q)
    BY <1>0, <2>1, <2>4 DEF Work, SettleFails, Stop
  <2>5. CASE ObserveSize(q)
    <3>1. UNCHANGED <<day, plan>>
      BY <2>5 DEF ObserveSize
    <3>2. \/ UNCHANGED <<full, flags>>
          \/ /\ full' = TRUE
             /\ flags' = [flags EXCEPT !.newVaults = FALSE, !.writes = FALSE,
                               !.reason = "D1_STORAGE_LIMIT_REACHED", !.origin = None]
      BY <2>5 DEF ObserveSize
    <3>3. full' \in BOOLEAN /\ flags' \in FlagRecords
      BY <1>0, <3>2 DEF FlagRecords, Reasons
    <3> QED
      BY <2>1, <3>1, <3>3
  <2>6. ASSUME NEW after, SettleBatch(q, after)
        PROVE  UNCHANGED <<day, full, plan>> /\ flags' \in FlagRecords
    <3>1. "USAGE_RESERVATION_UNDERESTIMATED" \in Reasons
      BY DEF Reasons
    <3>2. /\ UNCHANGED <<day, full, plan>>
          /\ \/ flags' = flags
             \/ flags' = Raise(flags, "USAGE_RESERVATION_UNDERESTIMATED", q)
      BY <2>6 DEF SettleBatch
    <3> QED
      BY <1>0, <3>1, <3>2, RecordTypes
  <2>7. CASE MarkFault(q)
    <3>1. "USAGE_SETTLEMENT_FAILED" \in Reasons
      BY DEF Reasons
    <3>2. /\ UNCHANGED <<day, full, plan>>
          /\ flags' \in {flags, Raise(flags, "USAGE_SETTLEMENT_FAILED", q)}
      BY <2>7 DEF MarkFault
    <3> QED
      BY <1>0, <2>1, <3>1, <3>2, RecordTypes
  <2> QED
    BY <1>0, <1>1, <2>1, <2>2, <2>3, <2>4, <2>5, <2>6, <2>7
       DEF RequestStep, Settle, SettleUnknown
<1>2. CASE NewDay
  <2>1. day' = day + 1 /\ day < MaxDay /\ UNCHANGED <<flags, full, request, plan>>
    BY <1>2 DEF NewDay
  <2>2. day' \in Days
    BY <1>0, <2>1, ConstantTypes
  <2> QED
    BY <1>0, <2>1, <2>2 DEF ControlTyped
<1>3. CASE ReadExpired \/ ExpireBuckets \/ CronEnds \/ UNCHANGED vars
  <2>1. UNCHANGED <<day, flags, full, request, plan>>
    BY <1>3 DEF ReadExpired, ExpireBuckets, CronEnds, vars
  <2> QED
    BY <1>0, <2>1 DEF ControlTyped
<1>4. ASSUME NEW old \in SUBSET Abandoned, MarkStale(old)
      PROVE  /\ UNCHANGED <<day, full, plan>> /\ flags' \in FlagRecords
             /\ request' \in [Requests -> RequestRecords]
  <2>1. UNCHANGED <<day, full, plan>>
    BY <1>4 DEF MarkStale
  <2>2. \A i \in Stale(old) : i[1] \in Requests
    BY DEF Stale, Abandoned, Ids
  <2>3. "STALE_RESERVATION_REQUIRES_RECONCILIATION" \in Reasons
    BY DEF Reasons
  <2>4. flags' \in FlagRecords
    BY <1>0, <1>4, <2>2, <2>3, RecordTypes DEF MarkStale
  <2>5. request' \in [Requests -> RequestRecords]
    BY <1>0, <1>4, CleanupArrives, RequestsTyped
  <2> QED
    BY <2>1, <2>4, <2>5
<1>5. CASE OperatorStep
  <2>1. UNCHANGED <<day, full, request>>
    BY <1>5 DEF OperatorStep, PlanReconciliation, ApplyReconciliation, PlanRepair, RepairRow,
                ClearFault, ToolStops
  <2>2. \/ flags' = flags
        \/ flags' = [flags EXCEPT !.fault = FALSE, !.reason = "NONE", !.origin = None]
    BY <1>5 DEF OperatorStep, PlanReconciliation, ApplyReconciliation, PlanRepair, RepairRow,
                ClearFault, ToolStops
  <2>3. flags' \in FlagRecords
    BY <1>0, <2>2 DEF FlagRecords, Reasons
  <2>4. plan'.pc \in {"none", "apply", "rows", "flags"}
    <3>1. CASE PlanReconciliation \/ PlanRepair
      BY <3>1 DEF PlanReconciliation, PlanRepair
    <3>2. CASE ApplyReconciliation \/ ClearFault \/ ToolStops
      BY <3>2 DEF ApplyReconciliation, ClearFault, ToolStops, NoPlan
    <3>3. CASE RepairRow
      <4>1. PICK i \in plan.open :
               plan' = IF plan.open = {i}
                  THEN [pc |-> "flags", origin |-> plan.origin, day |-> plan.day]
                  ELSE [plan EXCEPT !.open = @ \ {i}]
        BY <3>3 DEF RepairRow
      <4>2. [plan EXCEPT !.open = @ \ {i}].pc = plan.pc
        BY <3>3 DEF RepairRow
      <4> QED
        BY <1>0, <4>1, <4>2
    <3> QED
      BY <1>5, <3>1, <3>2, <3>3 DEF OperatorStep
  <2> QED
    BY <1>0, <2>1, <2>3, <2>4 DEF ControlTyped
<1> QED
  BY <1>0, <1>1, <1>2, <1>3, <1>4, <1>5 DEF Next, CronStep, ControlTyped

\* Every step keeps the types.
LEMMA TypeStep ==
    ASSUME IInv, [Next]_vars
    PROVE  TypeOK'
<1>1. TypeOK /\ ControlTyped
  BY DEF IInv, TypeOK, ControlTyped, FlagRecords, RequestRecords
<1>2. AccountsTyped' /\ ControlTyped'
  BY <1>1, MoneyStep, ControlStep DEF Money
<1> DEFINE CronRecords == [pc : {"idle", "expire", "stale"},
                           read : [Scopes -> [Days -> Nat]], expired : SUBSET (Scopes \X Days)]
<1>3. /\ buckets \subseteq Scopes \X Days /\ daily \in [Scopes -> [Days -> Nat]]
      /\ cron \in CronRecords
  BY <1>1 DEF TypeOK
<1>4. cron' \in CronRecords
  <2>1. CASE UNCHANGED cron
    BY <1>3, <2>1
  <2>2. CASE ReadExpired
    <3>1. PICK expired \in SUBSET buckets :
             cron' = [pc |-> IF expired = {} THEN "stale" ELSE "expire",
                      read |-> [s \in Scopes |-> [d \in Days |->
                                  IF <<s, d>> \in expired THEN daily[s][d] ELSE 0]],
                      expired |-> expired]
      BY <2>2 DEF ReadExpired
    <3>2. [s \in Scopes |-> [d \in Days |->
             IF <<s, d>> \in expired THEN daily[s][d] ELSE 0]] \in [Scopes -> [Days -> Nat]]
      BY <1>3
    <3> QED
      BY <1>3, <3>1, <3>2
  <2>3. CASE cron' \in {CronIdle, [CronIdle EXCEPT !.pc = "stale"]}
    <3>1. [s \in Scopes |-> [d \in Days |-> 0]] \in [Scopes -> [Days -> Nat]]
      OBVIOUS
    <3> QED
      BY <2>3, <3>1 DEF CronIdle
  <2>4. CASE ExpireBuckets \/ CronEnds \/ \E old \in SUBSET Abandoned : MarkStale(old)
    BY <2>3, <2>4 DEF ExpireBuckets, CronEnds, MarkStale
  <2>5. ASSUME NEW q \in Requests, Arrive(q) \/ RequestStep(q)
        PROVE  UNCHANGED cron
    BY <2>5 DEF Arrive, RequestStep, Reserve, ReserveFails, Work, ObserveSize, Settle,
                SettleUnknown, SettleBatch, SettleFails, MarkFault, Stop
  <2>6. CASE NewDay \/ OperatorStep \/ UNCHANGED vars
    <3>1. UNCHANGED cron
      BY <2>6 DEF NewDay, OperatorStep, PlanReconciliation, ApplyReconciliation, PlanRepair,
                  RepairRow, ClearFault, ToolStops, vars
    <3> QED
      BY <2>1, <3>1
  <2> QED
    BY <2>1, <2>2, <2>4, <2>5, <2>6 DEF Next, CronStep
<1> QED
  BY <1>2, <1>4 DEF TypeOK, AccountsTyped, ControlTyped, FlagRecords, RequestRecords

-----------------------------------------------------------------------------
(* Rows, requests, the maintenance and the plan.                           *)

\* A row that stays keeps fitting while requests move on.
LEMMA RowKept ==
    ASSUME TypeOK, RowsFit, RequestsHold, UNCHANGED day, NEW i \in Ids, ledger'[i] = ledger[i],
           ledger[i].day >= FirstDay /\ <<ledger[i].scope, ledger[i].day>> \in buckets
              => <<ledger[i].scope, ledger[i].day>> \in buckets',
           request'[i[1]].pc = request[i[1]].pc \/ request[i[1]].pc # "done"
    PROVE  RowFits(i)'
<1>1. RowFits(i)
  BY DEF RowsFit
<1>2. i[1] \in Requests /\ i[2] \in Suffixes /\ i = <<i[1], i[2]>>
  BY DEF Ids
<1>3. RequestHolds(i[1])
  BY <1>2 DEF RequestsHold
<1>4. request[i[1]].pc = "new" => ledger[i].state = "none"
  BY <1>2, <1>3 DEF RequestHolds
<1>5. ledger[i].state = "reserved" /\ Running(i[1])' => Running(i[1])
  BY <1>4 DEF Running
<1>6. ledger[i].state = "reserved" /\ ledger[i].failure # "none" => request'[i[1]].pc = "done"
  BY <1>1 DEF RowFits
<1>7. FirstDay' = FirstDay
  BY DEF FirstDay
<1> QED
  BY <1>1, <1>5, <1>6, <1>7 DEF RowFits

\* Who moves is known.
LEMMA MovesOne ==
    ASSUME ControlTyped, NEW q \in Requests, RequestMoves(q), NEW p \in Requests
    PROVE  /\ request'[p].pc = request[p].pc \/ request[p].pc # "done"
           /\ p # q => request'[p] = request[p]
<1>1. request \in [Requests -> RequestRecords]
  BY DEF ControlTyped
<1> QED
  BY <1>1 DEF RequestMoves

\* Every step keeps the rows fitting.
LEMMA RowsStep ==
    ASSUME IInv, [Next]_vars
    PROVE  RowsFit'
<1>1. TypeOK /\ RowsFit /\ RequestsHold /\ CronKnows /\ PlanFits /\ TypeOK' /\ ControlTyped
  BY TypeStep DEF IInv, TypeOK, ControlTyped, FlagRecords, RequestRecords
<1>2. /\ ledger \in [Ids -> Rows] /\ day \in Nat /\ FirstDay \in Int /\ FirstDay <= day
      /\ buckets \subseteq Scopes \X Days
  BY <1>1, ConstantTypes DEF TypeOK, FirstDay
<1>3. \A i \in Ids : i[1] \in Requests
  BY DEF Ids
<1>4. ASSUME NEW q \in Requests, Arrive(q) \/ RequestStep(q)
      PROVE  RowsFit'
  <2>1. RequestMoves(q)
    BY <1>1, <1>4, RequestsMove
  <2>2. UNCHANGED day
    BY <1>4 DEF Arrive, RequestStep, Reserve, ReserveFails, Work, ObserveSize, Settle,
                SettleUnknown, SettleBatch, SettleFails, MarkFault, Stop
  <2>3. ASSUME NEW i \in Ids, ledger'[i] = ledger[i], buckets \subseteq buckets'
        PROVE  RowFits(i)'
    BY <1>1, <1>3, <2>1, <2>2, <2>3, MovesOne, RowKept
  <2>4. CASE UNCHANGED <<ledger, buckets>>
    BY <2>3, <2>4 DEF RowsFit
  <2>5. ASSUME NEW x \in Suffixes, request[q].pc = x, Enter(q, x, ScopeOf(q, x))
        PROVE  RowsFit'
    <3> DEFINE s == ScopeOf(q, x)
               e == <<q, x>>
    <3>1. /\ e \in Ids /\ buckets' = buckets \cup {<<s, day>>}
          /\ ledger[e].state = "none"
          /\ \A i \in Ids : i # e => ledger'[i] = ledger[i]
          /\ \/ ledger' = ledger
             \/ /\ ledger'[e].state = "reserved" /\ ledger'[e].scope = s
                /\ ledger'[e].day = day
                /\ ledger'[e].committed = 0 /\ ledger'[e].failure = "none"
      BY <1>1, <2>5, EnterWrites
    <3> HIDE DEF s, e
    <3>2. ASSUME NEW i \in Ids
          PROVE  RowFits(i)'
      <4>1. CASE ledger'[i] = ledger[i]
        BY <2>3, <3>1, <4>1
      <4>2. CASE ledger'[i] # ledger[i]
        <5>1. i = e /\ ledger'[i].state = "reserved" /\ ledger'[i].scope = s
              /\ ledger'[i].day = day /\ ledger'[i].committed = 0 /\ ledger'[i].failure = "none"
          BY <3>1, <4>2
        <5>2. <<s, day>> \in buckets' /\ day' = day /\ day >= day - 1
          BY <1>2, <2>2, <3>1
        <5> QED
          BY <1>2, <5>1, <5>2 DEF RowFits
      <4> QED
        BY <4>1, <4>2
    <3> QED
      BY <3>2 DEF RowsFit
  <2>6. ASSUME NEW after, SettleBatch(q, after)
        PROVE  RowsFit'
    <3>1. /\ \A i \in Held(q) :
                 /\ ledger'[i].state = "settled"
                 /\ ledger'[i].scope = ledger[i].scope /\ ledger'[i].day = ledger[i].day
          /\ \A i \in Ids : i \notin Held(q) => ledger'[i] = ledger[i]
      BY <1>1, <2>6, SettleWrites
    <3>2. request[q].pc = "batch" /\ buckets' = buckets
      BY <2>6 DEF SettleBatch
    <3>3. ASSUME NEW i \in Ids
          PROVE  RowFits(i)'
      <4>1. CASE i \notin Held(q)
        BY <2>3, <3>1, <3>2, <4>1
      <4>2. CASE i \in Held(q)
        <5>1. ledger[i].state = "reserved" /\ <<ledger[i].scope, ledger[i].day>> \in buckets
          BY <1>1, <3>2, <4>2, HeldRows
        <5>2. RowFits(i)
          BY <1>1 DEF RowsFit
        <5>3. /\ ledger'[i].state = "settled" /\ ledger'[i].day <= day'
              /\ <<ledger'[i].scope, ledger'[i].day>> \in buckets'
          BY <2>2, <3>1, <3>2, <4>2, <5>1, <5>2 DEF RowFits
        <5> QED
          BY <5>3 DEF RowFits
      <4> QED
        BY <4>1, <4>2
    <3> QED
      BY <3>3 DEF RowsFit
  <2>7. CASE Arrive(q)
    BY <2>4, <2>7 DEF Arrive, accounts
  <2>8. ASSUME NEW x \in Suffixes, Reserve(q, x) \/ ReserveFails(q, x)
        PROVE  RowsFit'
    BY <2>4, <2>5, <2>8 DEF Reserve, ReserveFails
  <2>9. CASE Work(q) \/ ObserveSize(q) \/ SettleFails(q) \/ MarkFault(q) \/ Stop(q)
    <3>1. UNCHANGED <<ledger, buckets>>
      BY <2>9 DEF Work, ObserveSize, SettleFails, MarkFault, Stop, accounts
    <3> QED
      BY <2>4, <3>1
  <2> QED
    BY <1>4, <2>6, <2>7, <2>8, <2>9 DEF RequestStep, Settle, SettleUnknown
<1>5. CASE NewDay
  <2>1. /\ day' = day + 1 /\ UNCHANGED <<ledger, buckets, request>>
        /\ \A i \in Ids : Running(i[1]) /\ ledger[i].state = "reserved" => ledger[i].day = day
    BY <1>5 DEF NewDay, accounts
  <2>2. ASSUME NEW i \in Ids
        PROVE  RowFits(i)'
    <3>1. RowFits(i)
      BY <1>1 DEF RowsFit
    <3>2. ledger[i].day \in Nat
      BY <1>2, RowTypes
    <3>3. FirstDay' = FirstDay + 1
      BY <1>2, <2>1, ConstantTypes DEF FirstDay
    <3>4. ledger[i].day >= FirstDay' => ledger[i].day >= FirstDay
      BY <1>2, <3>2, <3>3
    <3>5. /\ ledger[i].day <= day => ledger[i].day <= day'
          /\ ledger[i].day = day => ledger[i].day >= day' - 1
      BY <1>2, <2>1, <3>2
    <3>6. Running(i[1])' = Running(i[1])
      BY <2>1 DEF Running
    <3> QED
      BY <2>1, <3>1, <3>4, <3>5, <3>6 DEF RowFits
  <2> QED
    BY <2>2 DEF RowsFit
<1>6. CASE ReadExpired \/ CronEnds
  BY <1>1, <1>6, RowKept DEF ReadExpired, CronEnds, RowsFit, accounts
<1>7. CASE ExpireBuckets
  <2>1. /\ cron.pc = "expire" /\ UNCHANGED <<day, ledger, request>>
        /\ buckets' = buckets \ cron.expired
    BY <1>7 DEF ExpireBuckets
  <2>2. \A b \in cron.expired : b[2] < FirstDay
    BY <1>1, <2>1 DEF CronKnows
  <2>3. ASSUME NEW i \in Ids
        PROVE  RowFits(i)'
    <3>1. ledger[i].day \in Nat
      BY <1>2, RowTypes
    <3>2. ledger[i].day >= FirstDay => <<ledger[i].scope, ledger[i].day>> \notin cron.expired
      BY <1>2, <2>2, <3>1
    <3> QED
      BY <1>1, <2>1, <3>2, RowKept
  <2> QED
    BY <2>3 DEF RowsFit
<1>8. ASSUME NEW old \in SUBSET Abandoned, MarkStale(old)
      PROVE  RowsFit'
  <2>1. UNCHANGED <<day, buckets>>
    BY <1>8 DEF MarkStale
  <2>2. \A p \in Requests : request'[p].pc = request[p].pc \/ request[p].pc # "done"
    BY <1>1, <1>8, CleanupArrives, MovesOne
  <2>3. ASSUME NEW i \in Ids
        PROVE  RowFits(i)'
    <3>1. CASE ledger'[i] = ledger[i]
      BY <1>1, <1>3, <2>1, <2>2, <3>1, RowKept
    <3>2. CASE /\ ledger[i].state = "reserved" /\ request[i[1]].pc = "done"
               /\ \E failure \in Reasons : ledger'[i] = [ledger[i] EXCEPT !.failure = failure]
      <4>1. ledger[i] \in Rows
        BY <1>2
      <4>2. /\ ledger'[i].state = ledger[i].state /\ ledger'[i].scope = ledger[i].scope
            /\ ledger'[i].day = ledger[i].day /\ ledger'[i].committed = ledger[i].committed
        BY <3>2, <4>1 DEF Rows
      <4>3. request'[i[1]].pc = "done"
        BY <1>3, <2>2, <3>2
      <4>4. RowFits(i)
        BY <1>1 DEF RowsFit
      <4>5. ~Running(i[1])'
        BY <4>3 DEF Running
      <4>6. FirstDay' = FirstDay
        BY <2>1 DEF FirstDay
      <4> QED
        BY <2>1, <3>2, <4>2, <4>3, <4>4, <4>5, <4>6 DEF RowFits
    <3>3. CASE ledger'[i] = NoRow
      BY <3>3 DEF RowFits, NoRow
    <3> QED
      BY <1>1, <1>8, <3>1, <3>2, <3>3, StaleWrites
  <2> QED
    BY <2>3 DEF RowsFit
<1>9. CASE ApplyReconciliation
  <2>1. /\ plan.pc = "apply" /\ day = plan.day /\ buckets = plan.buckets
        /\ \A i \in DOMAIN plan.open : ledger[i] = plan.open[i]
        /\ ledger' = [i \in Ids |-> IF i \in DOMAIN plan.open THEN Repaired(ledger[i])
                                                             ELSE ledger[i]]
        /\ buckets' = plan.rows /\ UNCHANGED <<day, request>>
    BY <1>9 DEF ApplyReconciliation, Unmoved
  <2>2. \A b \in buckets : InWindow(b[2], day) => b \in buckets'
    BY <1>1, <2>1 DEF PlanFits
  <2>3. ASSUME NEW i \in Ids
        PROVE  RowFits(i)'
    <3>1. RowFits(i) /\ ledger[i] \in Rows /\ ledger[i].day \in Nat
      BY <1>1, <1>2, RowTypes DEF RowsFit
    <3>2. ledger[i].state # "none" /\ ledger[i].day >= FirstDay
             => <<ledger[i].scope, ledger[i].day>> \in buckets'
      BY <1>2, <2>2, <3>1 DEF RowFits, InWindow, FirstDay
    <3>3. FirstDay' = FirstDay /\ Running(i[1])' = Running(i[1])
      BY <2>1 DEF FirstDay, Running
    <3>4. CASE ledger'[i] = ledger[i]
      BY <2>1, <3>1, <3>2, <3>3, <3>4 DEF RowFits
    <3>5. CASE ledger'[i] = Repaired(ledger[i]) /\ Repairable(ledger[i])
      <4>1. /\ ledger'[i].state = "settled" /\ ledger'[i].scope = ledger[i].scope
            /\ ledger'[i].day = ledger[i].day /\ ledger[i].state # "none"
        BY <3>1, <3>5 DEF Repaired, Repairable, StaleRead, CleanupOverrun, Rows
      <4> QED
        BY <2>1, <3>1, <3>2, <3>3, <4>1 DEF RowFits
    <3> QED
      BY <1>1, <2>1, <3>4, <3>5 DEF PlanFits
  <2> QED
    BY <2>3 DEF RowsFit
<1>10. CASE RepairRow
  <2>1. PICK e \in plan.open : /\ CleanupOverrun(ledger[e])
                               /\ ledger' = [ledger EXCEPT ![e].reconciled = TRUE]
    BY <1>10 DEF RepairRow
  <2>2. UNCHANGED <<day, buckets, request>>
    BY <1>10 DEF RepairRow
  <2>3. ASSUME NEW i \in Ids
        PROVE  RowFits(i)'
    <3>1. /\ ledger'[i].state = ledger[i].state /\ ledger'[i].scope = ledger[i].scope
          /\ ledger'[i].day = ledger[i].day /\ ledger'[i].failure = ledger[i].failure
          /\ ledger'[i].reserved = ledger[i].reserved
          /\ ledger'[i].committed = ledger[i].committed
      BY <1>2, <2>1 DEF Rows
    <3>2. RowFits(i)
      BY <1>1 DEF RowsFit
    <3>3. FirstDay' = FirstDay /\ Running(i[1])' = Running(i[1])
      BY <2>2 DEF FirstDay, Running
    <3> QED
      BY <2>2, <3>1, <3>2, <3>3 DEF RowFits
  <2> QED
    BY <2>3 DEF RowsFit
<1>11. CASE PlanReconciliation \/ PlanRepair \/ ClearFault \/ ToolStops \/ UNCHANGED vars
  <2>1. UNCHANGED <<day, ledger, buckets, request>>
    BY <1>11 DEF PlanReconciliation, PlanRepair, ClearFault, ToolStops, vars, accounts
  <2> QED
    BY <1>1, <2>1, RowKept DEF RowsFit
<1> QED
  BY <1>4, <1>5, <1>6, <1>7, <1>8, <1>9, <1>10, <1>11 DEF Next, CronStep, OperatorStep

\* A request that stays, and whose open rows stay open and free rows free.
LEMMA RequestKept ==
    ASSUME RequestsHold, NEW q \in Requests, request'[q] = request[q],
           \A x \in Suffixes :
               \/ ledger'[<<q, x>>].state = ledger[<<q, x>>].state
               \/ ledger[<<q, x>>].state = "settled" /\ ledger'[<<q, x>>].state = "none"
               \/ request[q].pc = "done",
           request[q].held \subseteq Suffixes
    PROVE  RequestHolds(q)'
BY DEF RequestsHold, RequestHolds, Suffixes

\* Every step keeps what requests hold.
LEMMA RequestsStep ==
    ASSUME IInv, [Next]_vars
    PROVE  RequestsHold'
<1>1. TypeOK /\ RowsFit /\ RequestsHold /\ PlanFits /\ ControlTyped
  BY DEF IInv, TypeOK, ControlTyped, FlagRecords, RequestRecords
<1>2. /\ ledger \in [Ids -> Rows] /\ request \in [Requests -> RequestRecords]
      /\ \A q \in Requests : request[q].held \subseteq Suffixes
  BY <1>1 DEF TypeOK, RequestRecords
<1>3. \A q \in Requests, x \in Suffixes : <<q, x>> \in Ids
  BY DEF Ids
<1>4. ASSUME NEW q \in Requests, Arrive(q) \/ RequestStep(q)
      PROVE  RequestsHold'
  <2>1. RequestMoves(q) /\ \A p \in Requests : p # q => request'[p] = request[p]
    BY <1>1, <1>4, RequestsMove, MovesOne
  <2>2. RequestHolds(q)
    BY <1>1 DEF RequestsHold
  <2>3. ASSUME RequestHolds(q)',
               \A p \in Requests, x \in Suffixes : p # q => ledger'[<<p, x>>] = ledger[<<p, x>>]
        PROVE  RequestsHold'
    <3>1. ASSUME NEW p \in Requests, p # q
          PROVE  RequestHolds(p)'
      BY <1>1, <1>2, <2>1, <2>3, <3>1, RequestKept
    <3> QED
      BY <2>3, <3>1 DEF RequestsHold
  <2>4. CASE Arrive(q)
    <3>1. UNCHANGED ledger /\ request[q].pc = "new"
      BY <2>4 DEF Arrive, accounts
    <3>2. request'[q].pc = "route" /\ request'[q].held = request[q].held
      BY <1>2, <2>4 DEF Arrive, RequestRecords
    <3>3. RequestHolds(q)'
      BY <2>2, <3>1, <3>2 DEF RequestHolds
    <3> QED
      BY <2>3, <3>1, <3>3
  <2>5. ASSUME NEW x \in Suffixes, Reserve(q, x) \/ ReserveFails(q, x)
        PROVE  RequestsHold'
    <3> DEFINE e == <<q, x>>
    <3>1. request[q].pc = x
      BY <2>5 DEF Reserve, ReserveFails
    <3>2. e \in Ids /\ \A i \in Ids : i # e => ledger'[i] = ledger[i]
      <4>1. CASE Enter(q, x, ScopeOf(q, x))
        BY <1>1, <3>1, <4>1, EnterWrites
      <4>2. CASE UNCHANGED ledger
        BY <1>3, <4>2
      <4> QED
        BY <2>5, <4>1, <4>2 DEF Reserve, ReserveFails
    <3>3. x = "route" => request[q].held = {} /\ ledger[<<q, "vault">>].state = "none"
      BY <2>2, <3>1 DEF RequestHolds, Suffixes
    <3>4. x = "vault" => /\ request[q].held \subseteq {"route"}
                         /\ \A y \in request[q].held : ledger[<<q, y>>].state = "reserved"
      BY <2>2, <3>1 DEF RequestHolds
    <3>5. \A y \in Suffixes : y # x => ledger'[<<q, y>>] = ledger[<<q, y>>]
      BY <1>3, <3>2
    <3>6. CASE GivesUp(q)
      <4>5. \A p \in Requests, y \in Suffixes : p # q => ledger'[<<p, y>>] = ledger[<<p, y>>]
        BY <1>3, <3>2
      <4>4. SUFFICES RequestHolds(q)'
        BY <2>3, <4>5
      <4>1. \/ request'[q] = Done
            \/ request'[q] = [request[q] EXCEPT !.pc = "observe"]
        BY <1>2, <3>6 DEF GivesUp
      <4>2. CASE request'[q] = Done
        BY <4>2 DEF RequestHolds, Done, NewRequest
      <4>3. CASE request'[q] = [request[q] EXCEPT !.pc = "observe"]
        <5>1. request'[q].pc = "observe" /\ request'[q].held = request[q].held
          BY <1>2, <4>3 DEF RequestRecords
        <5>2. \A y \in request[q].held : ledger'[<<q, y>>].state = "reserved"
          BY <3>3, <3>4, <3>5 DEF Suffixes
        <5> QED
          BY <5>1, <5>2 DEF RequestHolds
      <4> QED
        BY <4>1, <4>2, <4>3
    <3>7. CASE Enter(q, x, ScopeOf(q, x)) /\ Admits(request[q].kind, ScopeOf(q, x))
               /\ Proceeds(q, x)
      <4>1. ledger'[e].state = "reserved"
        BY <1>1, <3>1, <3>7, EnterWrites
      <4>2. /\ request'[q].pc = IF x = "route" /\ request[q].pc # "vault" /\ request[q].vault # None
                                THEN "vault" ELSE "work"
            /\ request'[q].held = request[q].held \cup {x}
            /\ request'[q].vault = request[q].vault
        BY <1>2, <3>7 DEF Proceeds, RequestRecords
      <4>3. \A y \in request'[q].held : ledger'[<<q, y>>].state = "reserved"
        BY <3>3, <3>4, <3>5, <4>1, <4>2 DEF Suffixes
      <4>4. request'[q].pc = "vault" => /\ request'[q].vault # None
                                        /\ request'[q].held \subseteq {"route"}
                                        /\ ledger'[<<q, "vault">>].state = "none"
        BY <3>1, <3>3, <3>5, <4>2 DEF Suffixes
      <4>5. request'[q].pc \in {"vault", "work"}
        BY <4>2
      <4>6. RequestHolds(q)'
        BY <4>3, <4>4, <4>5 DEF RequestHolds
      <4>7. \A p \in Requests, y \in Suffixes : p # q => ledger'[<<p, y>>] = ledger[<<p, y>>]
        BY <1>3, <3>2
      <4> QED
        BY <2>3, <4>6, <4>7
    <3> QED
      BY <2>5, <3>6, <3>7 DEF Reserve, ReserveFails
  <2>6. ASSUME NEW after, SettleBatch(q, after), after.pc \in {"done", "fault"}
        PROVE  RequestsHold'
    <3>1. \A i \in Ids : i \notin Held(q) => ledger'[i] = ledger[i]
      BY <1>1, <2>6, SettleWrites
    <3>2. \A p \in Requests, x \in Suffixes : p # q => ledger'[<<p, x>>] = ledger[<<p, x>>]
      BY <1>3, <3>1 DEF Held
    <3>3. request'[q].pc \in {"done", "fault"}
      <4>1. request'[q] = after \/ request'[q] = [request[q] EXCEPT !.pc = "fault"]
        BY <1>2, <2>6 DEF SettleBatch
      <4> QED
        BY <1>2, <2>6, <4>1 DEF RequestRecords
    <3>4. RequestHolds(q)'
      BY <3>3 DEF RequestHolds
    <3> QED
      BY <2>3, <3>2, <3>4
  <2>7. CASE Settle(q) \/ SettleUnknown(q)
    <3>1. Done.pc = "done" /\ [request[q] EXCEPT !.pc = "fault"].pc = "fault"
      BY <1>2 DEF Done, NewRequest, RequestRecords
    <3> QED
      BY <2>6, <2>7, <3>1 DEF Settle, SettleUnknown
  <2>8. CASE Work(q) \/ ObserveSize(q) \/ SettleFails(q) \/ MarkFault(q) \/ Stop(q)
    <3>1. UNCHANGED ledger
      BY <2>8 DEF Work, ObserveSize, SettleFails, MarkFault, Stop, accounts
    <3>2. \/ request'[q].pc \in {"fault", "done"}
          \/ /\ request'[q].pc \in {"observe", "batch"} /\ request'[q].held = request[q].held
             /\ request[q].pc \in {"work", "observe"}
      <4>1. CASE Work(q)
        BY <1>2, <4>1 DEF Work, RequestRecords
      <4>2. CASE ObserveSize(q)
        BY <1>2, <4>2 DEF ObserveSize, RequestRecords
      <4>3. CASE SettleFails(q)
        BY <1>2, <4>3 DEF SettleFails, RequestRecords
      <4>4. CASE MarkFault(q) \/ Stop(q)
        BY <1>2, <4>4 DEF MarkFault, Stop, Done, NewRequest
      <4> QED
        BY <2>8, <4>1, <4>2, <4>3, <4>4
    <3>3. RequestHolds(q)'
      BY <2>2, <3>1, <3>2 DEF RequestHolds
    <3> QED
      BY <2>3, <3>1, <3>3
  <2> QED
    BY <1>4, <2>4, <2>5, <2>7, <2>8 DEF RequestStep
<1>5. ASSUME UNCHANGED <<ledger, request>>
      PROVE  RequestsHold'
  BY <1>1, <1>2, <1>5, RequestKept DEF RequestsHold
<1>6. ASSUME NEW old \in SUBSET Abandoned, MarkStale(old)
      PROVE  RequestsHold'
  <2>1. ASSUME NEW q \in Requests, NEW x \in Suffixes
        PROVE  \/ ledger'[<<q, x>>].state = ledger[<<q, x>>].state
               \/ ledger[<<q, x>>].state = "settled" /\ ledger'[<<q, x>>].state = "none"
    <3>1. <<q, x>> \in Ids /\ ledger[<<q, x>>] \in Rows
      BY <1>2, <1>3
    <3> DEFINE i == <<q, x>>
    <3>2. \/ ledger'[i] = ledger[i]
          \/ \E failure \in Reasons : ledger'[i] = [ledger[i] EXCEPT !.failure = failure]
          \/ ledger[i].state = "settled" /\ ledger'[i] = NoRow
      BY <1>1, <1>6, <3>1, StaleWrites
    <3> HIDE DEF i
    <3>3. ledger[i] \in Rows
      BY <3>1 DEF i
    <3>4. \/ ledger'[i].state = ledger[i].state
          \/ ledger[i].state = "settled" /\ ledger'[i].state = "none"
      <4>1. CASE ledger'[i] = ledger[i]
        BY <4>1
      <4>2. CASE \E failure \in Reasons : ledger'[i] = [ledger[i] EXCEPT !.failure = failure]
        BY <3>3, <4>2 DEF Rows
      <4>3. CASE ledger[i].state = "settled" /\ ledger'[i] = NoRow
        BY <4>3 DEF NoRow
      <4> QED
        BY <3>2, <4>1, <4>2, <4>3
    <3> QED
      BY <3>4 DEF i
  <2>2. ASSUME NEW p \in Requests, request'[p] = request[p]
        PROVE  RequestHolds(p)'
    BY <1>1, <1>2, <2>1, <2>2, RequestKept
  <2>3. CASE UNCHANGED request
    BY <2>2, <2>3 DEF RequestsHold
  <2>4. ASSUME NEW q \in Requests, RequestMoves(q), request[q].pc = "new",
               request'[q].pc = "route", request'[q].held = request[q].held
        PROVE  RequestsHold'
    <3>1. RequestHolds(q)
      BY <1>1 DEF RequestsHold
    <3>2. request'[q].held = {} /\ \A x \in Suffixes : ledger'[<<q, x>>].state = "none"
      BY <2>1, <2>4, <3>1 DEF RequestHolds
    <3>3. RequestHolds(q)'
      BY <2>4, <3>2 DEF RequestHolds
    <3>4. \A p \in Requests : p # q => request'[p] = request[p]
      BY <1>1, <2>4, MovesOne
    <3> QED
      BY <2>2, <3>3, <3>4 DEF RequestsHold
  <2> QED
    BY <1>1, <1>6, <2>3, <2>4, CleanupArrives
<1>7. CASE ApplyReconciliation
  <2>1. /\ \A i \in DOMAIN plan.open : ledger[i] = plan.open[i] /\ Repairable(plan.open[i])
        /\ ledger' = [i \in Ids |-> IF i \in DOMAIN plan.open THEN Repaired(ledger[i])
                                                             ELSE ledger[i]]
        /\ UNCHANGED request
    BY <1>1, <1>7 DEF ApplyReconciliation, Unmoved, PlanFits
  <2>2. ASSUME NEW q \in Requests, NEW x \in Suffixes
        PROVE  \/ ledger'[<<q, x>>].state = ledger[<<q, x>>].state
               \/ request[q].pc = "done"
    <3> DEFINE i == <<q, x>>
    <3>1. i \in Ids /\ ledger[i] \in Rows /\ i[1] = q
      BY <1>2, <1>3
    <3> HIDE DEF i
    <3>2. RowFits(i)
      BY <1>1, <3>1 DEF RowsFit
    <3>3. CASE i \notin DOMAIN plan.open
      BY <2>1, <3>1, <3>3 DEF i
    <3>4. CASE i \in DOMAIN plan.open /\ StaleRead(ledger[i])
      BY <3>1, <3>2, <3>4 DEF RowFits, StaleRead
    <3>5. CASE i \in DOMAIN plan.open /\ ~StaleRead(ledger[i])
      <4>1. ledger'[i] = [ledger[i] EXCEPT !.reconciled = TRUE]
        BY <2>1, <3>1, <3>5 DEF Repaired
      <4>2. ledger'[i].state = ledger[i].state
        BY <3>1, <4>1 DEF Rows
      <4> QED
        BY <4>2 DEF i
    <3> QED
      BY <3>3, <3>4, <3>5
  <2> QED
    BY <1>1, <1>2, <2>1, <2>2, RequestKept DEF RequestsHold
<1>8. CASE RepairRow
  <2>1. PICK e \in plan.open : ledger' = [ledger EXCEPT ![e].reconciled = TRUE]
    BY <1>8 DEF RepairRow
  <2>2. UNCHANGED request
    BY <1>8 DEF RepairRow
  <2>3. \A i \in Ids : ledger'[i].state = ledger[i].state
    BY <1>2, <2>1 DEF Rows
  <2> QED
    BY <1>1, <1>2, <1>3, <2>2, <2>3, RequestKept DEF RequestsHold
<1>9. CASE NewDay \/ ReadExpired \/ ExpireBuckets \/ CronEnds
  <2>1. UNCHANGED <<ledger, request>>
    BY <1>9 DEF NewDay, ReadExpired, ExpireBuckets, CronEnds, accounts
  <2> QED
    BY <1>5, <2>1
<1>10. CASE PlanReconciliation \/ PlanRepair \/ ClearFault \/ ToolStops \/ UNCHANGED vars
  <2>1. UNCHANGED <<ledger, request>>
    BY <1>10 DEF PlanReconciliation, PlanRepair, ClearFault, ToolStops, vars, accounts
  <2> QED
    BY <1>5, <2>1
<1> QED
  BY <1>4, <1>6, <1>7, <1>8, <1>9, <1>10 DEF Next, CronStep, OperatorStep

\* What the maintenance knows stays true while old buckets are left alone.
LEMMA CronKept ==
    ASSUME CronKnows, UNCHANGED <<day, cron>>,
           \A b \in Scopes \X Days : b[2] < FirstDay =>
               /\ b \in buckets' <=> b \in buckets
               /\ daily'[b[1]][b[2]] = daily[b[1]][b[2]],
           buckets \subseteq Scopes \X Days, buckets' \subseteq Scopes \X Days,
           day \in Nat
    PROVE  CronKnows'
<1>1. FirstDay' = FirstDay /\ FirstDay \in Int
  BY ConstantTypes DEF FirstDay
<1>2. {b \in buckets' : b[2] < FirstDay} = {b \in buckets : b[2] < FirstDay}
  OBVIOUS
<1>3. CASE cron.pc = "expire"
  <2>1. cron.expired = {b \in buckets' : b[2] < FirstDay}
    BY <1>2, <1>3 DEF CronKnows
  <2>2. ASSUME NEW s \in Scopes, NEW d \in Days
        PROVE  cron.read[s][d] = IF <<s, d>> \in cron.expired THEN daily'[s][d] ELSE 0
    <3>1. cron.read[s][d] = IF <<s, d>> \in cron.expired THEN daily[s][d] ELSE 0
      BY <1>3 DEF CronKnows
    <3>2. <<s, d>> \in cron.expired => daily'[s][d] = daily[s][d]
      BY <2>1
    <3> QED
      BY <3>1, <3>2
  <2> QED
    BY <1>1, <1>3, <2>1, <2>2 DEF CronKnows
<1>4. CASE cron.pc = "stale"
  <2>1. \A b \in buckets' : b[2] >= FirstDay
    <3> TAKE b \in buckets'
    <3>1. b[2] \in Nat
      BY ConstantTypes
    <3>2. b[2] < FirstDay => b \in buckets
      OBVIOUS
    <3> QED
      BY <1>1, <1>4, <3>1, <3>2 DEF CronKnows
  <2> QED
    BY <1>1, <1>4, <2>1 DEF CronKnows
<1>5. CASE cron.pc \notin {"expire", "stale"}
  BY <1>5 DEF CronKnows
<1> QED
  BY <1>3, <1>4, <1>5

\* Every step keeps what the maintenance knows, unless a reconciliation falls
\* inside it.
LEMMA CronStepKeeps ==
    ASSUME ~Overlaps, IInv, [Next]_vars
    PROVE  CronKnows'
<1>1. TypeOK /\ RowsFit /\ RequestsHold /\ CronKnows /\ PlanFits /\ BucketsExact
      /\ TypeOK' /\ Money'
  BY TypeStep, MoneyStep DEF IInv
<1>2. /\ ledger \in [Ids -> Rows] /\ day \in Days /\ day \in Nat /\ FirstDay \in Int
      /\ FirstDay <= day /\ FirstDay <= day - 1
      /\ buckets \subseteq Scopes \X Days /\ buckets' \subseteq Scopes \X Days
      /\ daily \in [Scopes -> [Days -> Nat]] /\ Days \subseteq Nat
      /\ cron.pc \in {"idle", "expire", "stale"}
  <2>1. /\ ledger \in [Ids -> Rows] /\ day \in Days /\ buckets \subseteq Scopes \X Days
        /\ daily \in [Scopes -> [Days -> Nat]] /\ cron.pc \in {"idle", "expire", "stale"}
    BY <1>1 DEF TypeOK
  <2>2. buckets' \subseteq Scopes \X Days
    BY <1>1 DEF TypeOK
  <2>3. Days \subseteq Nat /\ day \in Nat
    BY <2>1, ConstantTypes
  <2>4. FirstDay \in Int /\ FirstDay <= day /\ FirstDay <= day - 1
    BY <2>3, ConstantTypes DEF FirstDay
  <2> QED
    BY <2>1, <2>2, <2>3, <2>4
<1>3. ASSUME UNCHANGED <<day, cron, daily, buckets>>
      PROVE  CronKnows'
  BY <1>1, <1>2, <1>3, CronKept
<1>4. ASSUME NEW q \in Requests, NEW x \in Suffixes, request[q].pc = x,
             Enter(q, x, ScopeOf(q, x)), UNCHANGED <<day, cron>>
      PROVE  CronKnows'
  <2> DEFINE s == ScopeOf(q, x)
             cost == Cost[request[q].kind]
  <2>1. /\ s \in Scopes /\ buckets' = buckets \cup {<<s, day>>}
        /\ UNCHANGED daily \/ daily' = [daily EXCEPT ![s][day] = @ + cost]
    BY <1>1, <1>4, EnterWrites
  <2> HIDE DEF s, cost
  <2>2. ASSUME NEW c \in Scopes, NEW d \in Days, d < FirstDay
        PROVE  /\ <<c, d>> \in buckets' <=> <<c, d>> \in buckets
               /\ daily'[c][d] = daily[c][d]
    <3>1. d # day
      BY <1>2, <2>2
    <3> QED
      BY <1>2, <2>1, <3>1
  <2>3. \A b \in Scopes \X Days : b[2] < FirstDay =>
            /\ b \in buckets' <=> b \in buckets
            /\ daily'[b[1]][b[2]] = daily[b[1]][b[2]]
    BY <2>2
  <2> QED
    BY <1>1, <1>2, <1>4, <2>3, CronKept
<1>5. ASSUME NEW q \in Requests, NEW after, SettleBatch(q, after)
      PROVE  CronKnows'
  <2>1. UNCHANGED <<day, cron, buckets>> /\ request[q].pc = "batch"
    BY <1>5 DEF SettleBatch
  <2>2. ASSUME NEW s \in Scopes, NEW d \in Days, d < FirstDay
        PROVE  daily'[s][d] = daily[s][d]
    <3>1. ledger' \in [Ids -> Rows]
      BY <1>1 DEF TypeOK
    <3>2. ASSUME NEW i \in Ids
          PROVE  ChargeOf(ledger', i, s, d) = ChargeOf(ledger, i, s, d)
      <4>1. CASE i \notin Held(q)
        <5>1. ledger'[i] = ledger[i]
          BY <1>1, <1>5, <4>1, SettleWrites
        <5> QED
          BY <5>1 DEF ChargeOf
      <4>2. CASE i \in Held(q)
        <5>1. ledger[i].state = "reserved" /\ i[1] = q
          BY <1>1, <2>1, <4>2, HeldRows
        <5>2. RowFits(i) /\ Running(i[1])
          BY <1>1, <2>1, <5>1 DEF RowsFit, Running
        <5>3. ledger[i].day >= day - 1 /\ ledger[i].day \in Nat
          BY <1>2, <5>1, <5>2, RowTypes DEF RowFits
        <5>4. ledger[i].day # d
          BY <1>2, <2>2, <5>3
        <5>5. ledger'[i].day = ledger[i].day
          BY <1>1, <1>5, <4>2, SettleWrites
        <5> QED
          BY <5>4, <5>5 DEF ChargeOf
      <4> QED
        BY <4>1, <4>2
    <3>3. Charged(ledger', s, d) = Charged(ledger, s, d)
      BY <1>2, <3>1, <3>2, ChargedStays
    <3>4. /\ daily[s][d] = IF <<s, d>> \in buckets THEN Charged(ledger, s, d) ELSE 0
          /\ daily'[s][d] = IF <<s, d>> \in buckets' THEN Charged(ledger', s, d) ELSE 0
      BY <1>1 DEF Money, BucketsExact
    <3> QED
      BY <2>1, <3>3, <3>4
  <2>3. \A b \in Scopes \X Days : b[2] < FirstDay =>
            /\ b \in buckets' <=> b \in buckets
            /\ daily'[b[1]][b[2]] = daily[b[1]][b[2]]
    BY <2>1, <2>2
  <2> QED
    BY <1>1, <1>2, <2>1, <2>3, CronKept
<1>6. ASSUME NEW q \in Requests, Arrive(q) \/ RequestStep(q)
      PROVE  CronKnows'
  <2>1. ASSUME NEW x \in Suffixes, Reserve(q, x) \/ ReserveFails(q, x)
        PROVE  CronKnows'
    BY <1>3, <1>4, <2>1 DEF Reserve, ReserveFails
  <2>2. CASE Settle(q) \/ SettleUnknown(q)
    BY <1>5, <2>2 DEF Settle, SettleUnknown
  <2>3. CASE Arrive(q) \/ Work(q) \/ ObserveSize(q) \/ SettleFails(q) \/ MarkFault(q) \/ Stop(q)
    <3>1. UNCHANGED <<day, cron, daily, buckets>>
      BY <2>3 DEF Arrive, Work, ObserveSize, SettleFails, MarkFault, Stop, accounts
    <3> QED
      BY <1>3, <3>1
  <2> QED
    BY <1>6, <2>1, <2>2, <2>3 DEF RequestStep
<1>7. CASE NewDay \/ CronEnds \/ \E old \in SUBSET Abandoned : MarkStale(old)
  <2>1. cron'.pc = "idle"
    BY <1>7 DEF NewDay, CronEnds, MarkStale, CronIdle
  <2> QED
    BY <2>1 DEF CronKnows
<1>8. CASE ReadExpired
  <2> DEFINE expired == {b \in buckets : b[2] < FirstDay}
  <2>1. /\ UNCHANGED <<day, daily, buckets>>
        /\ cron' = [pc |-> IF expired = {} THEN "stale" ELSE "expire",
                    read |-> [s \in Scopes |-> [d \in Days |->
                                IF <<s, d>> \in expired THEN daily[s][d] ELSE 0]],
                    expired |-> expired]
    BY <1>8 DEF ReadExpired, accounts
  <2>2. FirstDay' = FirstDay
    BY <2>1 DEF FirstDay
  <2>3. expired = {} => \A b \in buckets : b[2] >= FirstDay
    <3>1. \A b \in buckets : b[2] \in Nat
      BY <1>2
    <3>2. expired = {} => \A b \in buckets : ~(b[2] < FirstDay)
      OBVIOUS
    <3> QED
      BY <1>2, <3>1, <3>2
  <2>4. expired = {b \in buckets' : b[2] < FirstDay'}
    BY <2>1, <2>2
  <2> HIDE DEF expired
  <2>5. /\ cron'.pc = "expire" \/ expired = {}
        /\ cron'.expired = expired
        /\ cron'.read = [s \in Scopes |-> [d \in Days |->
                           IF <<s, d>> \in expired THEN daily[s][d] ELSE 0]]
    BY <2>1
  <2> QED
    BY <2>1, <2>2, <2>3, <2>4, <2>5 DEF CronKnows
<1>9. CASE ExpireBuckets
  <2>1. /\ cron.pc = "expire" /\ buckets' = buckets \ cron.expired /\ day' = day
        /\ cron'.pc = "stale"
    BY <1>9 DEF ExpireBuckets, CronIdle
  <2>2. cron.expired = {b \in buckets : b[2] < FirstDay} /\ FirstDay' = FirstDay
    BY <1>1, <2>1 DEF CronKnows, FirstDay
  <2>3. \A b \in buckets' : b[2] >= FirstDay
    <3> TAKE b \in buckets'
    <3>1. b \in buckets /\ ~(b[2] < FirstDay)
      BY <2>1, <2>2
    <3>2. b[2] \in Nat
      BY <1>2, <3>1
    <3> QED
      BY <1>2, <3>1, <3>2
  <2> QED
    BY <2>1, <2>2, <2>3 DEF CronKnows
<1>10. CASE ApplyReconciliation
  <2>1. /\ plan.pc = "apply" /\ day = plan.day /\ buckets' = plan.rows
        /\ UNCHANGED <<day, cron>> /\ cron.pc # "expire"
    BY <1>10 DEF ApplyReconciliation, Unmoved
  <2>2. \A b \in buckets' : b[2] >= FirstDay
    BY <1>1, <2>1 DEF PlanFits, InWindow, FirstDay
  <2>3. FirstDay' = FirstDay
    BY <2>1 DEF FirstDay
  <2> QED
    BY <2>1, <2>2, <2>3 DEF CronKnows
<1>11. CASE PlanReconciliation \/ PlanRepair \/ RepairRow \/ ClearFault \/ ToolStops
            \/ UNCHANGED vars
  <2>1. UNCHANGED <<day, cron, daily, buckets>>
    BY <1>11 DEF PlanReconciliation, PlanRepair, RepairRow, ClearFault, ToolStops, vars, accounts
  <2> QED
    BY <1>3, <2>1
<1> QED
  BY <1>6, <1>7, <1>8, <1>9, <1>10, <1>11 DEF Next, CronStep, OperatorStep

\* What a reconciliation plans.
LEMMA PlanMade ==
    ASSUME TypeOK, PlanReconciliation
    PROVE  PlanFits'
<1> DEFINE counts == RebuiltDaily
           totals == [s \in Scopes |-> SumOfDays(RebuiltDaily[s])]
           open == {i \in Ids : Unresolved(ledger[i])}
<1>1. /\ \A i \in open : Repairable(ledger[i])
      /\ BelowLimits(counts, totals)
      /\ plan'.pc = "apply" /\ plan'.day = day /\ plan'.buckets = buckets
      /\ plan'.counts = counts /\ plan'.totals = totals /\ plan'.rows = RebuiltBuckets
      /\ plan'.open = [i \in open |-> ledger[i]]
  BY DEF PlanReconciliation
<1>2. /\ ledger \in [Ids -> Rows] /\ day \in Days /\ day \in Nat
      /\ buckets \subseteq Scopes \X Days
  BY ConstantTypes DEF TypeOK
<1>3. \A d \in Days : d \in WindowDays <=> InWindow(d, day)
  BY DEF WindowDays, InWindow, FirstDay
<1>4. counts \in [Scopes -> [Days -> Nat]]
      /\ \A s \in Scopes, d \in Days : ~InWindow(d, day) => counts[s][d] = 0
  BY <1>2, <1>3, ChargedTypes DEF RebuiltDaily
<1>5. RebuiltBuckets \subseteq {b \in Scopes \X Days : InWindow(b[2], day)}
      /\ \A b \in buckets : InWindow(b[2], day) => b \in RebuiltBuckets
  <2>1. InWindow(day, day)
    BY <1>2, ConstantTypes DEF InWindow
  <2>2. WindowDays \subseteq Days
    BY DEF WindowDays
  <2>3. Service \in Scopes
    BY ConstantTypes
  <2>4. ASSUME NEW b \in RebuiltBuckets
        PROVE  b \in Scopes \X Days /\ InWindow(b[2], day)
    <3>1. CASE b \in buckets /\ b[2] \in WindowDays
      BY <1>2, <1>3, <3>1
    <3>2. CASE b = <<Service, day>>
      BY <1>2, <2>1, <2>3, <3>2
    <3>3. CASE b \in Scopes \X WindowDays
      BY <1>3, <2>2, <3>3
    <3> QED
      BY <2>4, <3>1, <3>2, <3>3 DEF RebuiltBuckets
  <2>5. ASSUME NEW b \in buckets, InWindow(b[2], day)
        PROVE  b \in RebuiltBuckets
    <3>1. b[2] \in WindowDays
      BY <1>2, <1>3, <2>5
    <3> QED
      BY <3>1 DEF RebuiltBuckets
  <2> QED
    BY <2>4, <2>5
<1>6. ASSUME NEW s \in Scopes
      PROVE  totals[s] <= RollingCeiling[s] /\ counts[s][day] <= DailyCeiling[s]
  <2>1. totals[s] < RollingCeiling[s] /\ counts[s][day] < DailyCeiling[s]
    BY <1>1 DEF BelowLimits
  <2> DEFINE f == counts[s]
  <2>2. f \in [Days -> Nat] /\ totals[s] = SumFunction(f)
    BY <1>4 DEF SumOfDays
  <2> HIDE DEF f
  <2>3. SumFunction(f) \in Int
    BY <2>2, FiniteSets, SumTypes
  <2>4. totals[s] \in Int /\ counts[s][day] \in Int
    BY <1>2, <1>4, <2>2, <2>3
  <2> QED
    BY <2>1, <2>4, ConstantTypes
<1> HIDE DEF counts, totals, open
<1>7. \A i \in DOMAIN plan'.open : Repairable(plan'.open[i])
  BY <1>1
<1>8. plan'.totals = [s \in Scopes |-> SumOfDays(plan'.counts[s])]
  BY <1>1 DEF counts, totals
<1> QED
  BY <1>1, <1>2, <1>4, <1>5, <1>6, <1>7, <1>8 DEF PlanFits

\* Every step keeps the plan fit to be carried out.
LEMMA PlanStep ==
    ASSUME IInv, [Next]_vars
    PROVE  PlanFits'
<1>1. TypeOK /\ PlanFits
  BY DEF IInv
<1>2. CASE UNCHANGED plan
  BY <1>1, <1>2 DEF PlanFits
<1>3. CASE PlanReconciliation
  BY <1>1, <1>3, PlanMade
<1>4. CASE plan' = NoPlan
  BY <1>4 DEF PlanFits, NoPlan
<1>5. CASE PlanRepair
  <2>1. plan'.pc = "rows" /\ plan'.open = Incidents
    BY <1>5 DEF PlanRepair
  <2> QED
    BY <2>1 DEF PlanFits, Incidents
<1>6. CASE RepairRow
  <2>1. plan.pc = "rows" /\ plan.open \subseteq Ids
    BY <1>1, <1>6 DEF RepairRow, PlanFits
  <2>2. PICK i \in plan.open :
           plan' = IF plan.open = {i}
                   THEN [pc |-> "flags", origin |-> plan.origin, day |-> plan.day]
                   ELSE [plan EXCEPT !.open = @ \ {i}]
    BY <1>6 DEF RepairRow
  <2>3. CASE plan.open = {i}
    BY <2>2, <2>3 DEF PlanFits
  <2>4. CASE plan.open # {i}
    <3>1. plan' = [plan EXCEPT !.open = @ \ {i}]
      BY <2>2, <2>4
    <3>2. plan'.pc = "rows" /\ (plan'.open = plan.open \ {i} \/ plan'.open = plan.open)
      BY <2>1, <3>1
    <3> QED
      BY <2>1, <3>2 DEF PlanFits
  <2> QED
    BY <2>3, <2>4
<1>7. ASSUME NEW q \in Requests, Arrive(q) \/ RequestStep(q)
      PROVE  UNCHANGED plan
  BY <1>7 DEF Arrive, RequestStep, Reserve, ReserveFails, Work, ObserveSize, Settle,
              SettleUnknown, SettleBatch, SettleFails, MarkFault, Stop
<1>8. CASE NewDay \/ CronStep \/ UNCHANGED vars
  <2>1. UNCHANGED plan
    BY <1>8 DEF NewDay, CronStep, ReadExpired, ExpireBuckets, CronEnds, MarkStale, vars
  <2> QED
    BY <1>2, <2>1
<1>9. CASE OperatorStep
  <2>1. CASE ApplyReconciliation \/ ClearFault \/ ToolStops
    BY <1>4, <2>1 DEF ApplyReconciliation, ClearFault, ToolStops
  <2> QED
    BY <1>3, <1>5, <1>6, <1>9, <2>1 DEF OperatorStep
<1> QED
  BY <1>2, <1>7, <1>8, <1>9 DEF Next

-----------------------------------------------------------------------------
(* The theorems about the totals and the ceilings.                         *)

\* The service starts with empty accounts.
LEMMA InitHolds ==
    ASSUME Init
    PROVE  IInv
<1>1. 0 \in Days /\ NoRow \in Rows /\ NewRequest \in RequestRecords
  BY ConstantTypes, RecordTypes DEF NoRow, Rows, AllKinds
<1>2. [d \in Days |-> 0] \in [Days -> Int] /\ \A d \in Days : [e \in Days |-> 0][d] = 0
  OBVIOUS
<1>3. SumFunction([d \in Days |-> 0]) = 0
  <2> DEFINE f == [d \in Days |-> 0]
  <2>1. f \in [Days -> Int] /\ \A d \in Days : f[d] = 0
    OBVIOUS
  <2> HIDE DEF f
  <2>2. SumFunction(f) = 0
    BY <2>1, FiniteSets, SumZero
  <2> QED
    BY <2>2 DEF f
<1>4. /\ day = 0 /\ flags = Open /\ full = FALSE /\ ledger = [i \in Ids |-> NoRow]
      /\ daily = [s \in Scopes |-> [d \in Days |-> 0]] /\ buckets = {}
      /\ rolling = [s \in Scopes |-> 0] /\ request = [q \in Requests |-> NewRequest]
      /\ cron = CronIdle /\ plan = NoPlan
  BY DEF Init
<1>5. TypeOK
  <2>1. request \in [Requests -> RequestRecords] /\ ledger \in [Ids -> Rows]
    BY <1>1, <1>4
  <2>2. flags \in FlagRecords
    BY <1>4 DEF Open, FlagRecords, Reasons
  <2>3. daily \in [Scopes -> [Days -> Nat]] /\ rolling \in [Scopes -> Nat]
    BY <1>4
  <2>4. cron \in [pc : {"idle", "expire", "stale"},
                  read : [Scopes -> [Days -> Nat]], expired : SUBSET (Scopes \X Days)]
    BY <1>4 DEF CronIdle
  <2>5. plan.pc \in {"none", "apply", "rows", "flags"}
    BY <1>4 DEF NoPlan
  <2> QED
    BY <1>1, <1>4, <2>1, <2>2, <2>3, <2>4, <2>5 DEF TypeOK, RequestRecords, FlagRecords
<1>6. RowsFit
  BY <1>4 DEF RowsFit, RowFits, NoRow
<1>7. RequestsHold
  <2>1. \A q \in Requests, x \in Suffixes : ledger[<<q, x>>].state = "none"
    BY <1>4 DEF Ids, NoRow
  <2> QED
    BY <1>4, <2>1 DEF RequestsHold, RequestHolds, NewRequest
<1>8. BucketsExact
  BY <1>4 DEF BucketsExact
<1>9. RollingExact
  BY <1>3, <1>4 DEF RollingExact, SumOfDays
<1>10. CronKnows
  BY <1>4 DEF CronKnows, CronIdle
<1>11. CeilingsKept
  <2>1. AccountsTyped
    BY <1>5 DEF TypeOK, AccountsTyped
  <2>2. ASSUME NEW s \in Scopes
        PROVE  /\ rolling[s] <= RollingCeiling[s] + SumOfDays(OverrunsOfDays(s))
               /\ daily[s][day] <= DailyCeiling[s] + OverrunIn(ledger, s, {day})
    <3>1. SumOfDays(OverrunsOfDays(s)) \in Nat
      BY <2>1, OverrunsTypes
    <3>2. OverrunIn(ledger, s, {day}) \in Nat
      BY <2>1, OverrunTypes DEF AccountsTyped
    <3>3. rolling[s] = 0 /\ daily[s][day] = 0
      BY <1>1, <1>4
    <3> QED
      BY <3>1, <3>2, <3>3, ConstantTypes
  <2> QED
    BY <2>2 DEF CeilingsKept
<1>12. PlanFits
  BY <1>4 DEF PlanFits, NoPlan
<1> QED
  BY <1>5, <1>6, <1>7, <1>8, <1>9, <1>10, <1>11, <1>12 DEF IInv

\* The inductive invariant: rows, requests, buckets, totals, the maintenance
\* and the reconciliation plan agree throughout, as long as no reconciliation
\* falls inside the maintenance job.
THEOREM BudgetInvariant ==
    ASSUME ~Overlaps
    PROVE  Spec => []IInv
<1>1. Init => IInv
  BY InitHolds
<1>2. IInv /\ [Next]_vars => IInv'
  BY TypeStep, RowsStep, RequestsStep, MoneyStep, CronStepKeeps, PlanStep DEF IInv, Money
<1> QED
  BY <1>1, <1>2, PTL DEF Spec

\* Every variable of the ledger keeps its type; in particular no bucket and no
\* total ever falls below zero.
THEOREM BudgetTypes ==
    ASSUME ~Overlaps
    PROVE  Spec => []TypeOK
<1>1. IInv => TypeOK
  BY DEF IInv
<1> QED
  BY <1>1, BudgetInvariant, PTL

\* The totals never drift from the ledger, for any number of requests, vaults
\* and days, whatever was lost, failed, expired or repaired (settle and
\* runBudgetWindowMaintenance of budget.ts, the repair batch of
\* sync-budget-reconcile).
THEOREM LedgerStaysExact ==
    ASSUME ~Overlaps
    PROVE  Spec => []LedgerExact
<1>1. ASSUME IInv
      PROVE  LedgerExact
  <2>1. TypeOK /\ RowsFit /\ BucketsExact /\ RollingExact
    BY <1>1 DEF IInv
  <2>2. ASSUME NEW s \in Scopes
        PROVE  /\ \A d \in Days : d >= FirstDay => daily[s][d] = Charged(ledger, s, d)
               /\ rolling[s] = SumOfDays(daily[s])
               /\ \A d \in Days : daily[s][d] > 0 => <<s, d>> \in buckets
    <3>1. ASSUME NEW d \in Days
          PROVE  daily[s][d] = IF <<s, d>> \in buckets THEN Charged(ledger, s, d) ELSE 0
      BY <2>1 DEF BucketsExact
    <3>2. \A d \in Days : d >= FirstDay => daily[s][d] = Charged(ledger, s, d)
      BY <2>1, <3>1, NoBucketNoCharge
    <3>3. \A d \in Days : daily[s][d] > 0 => <<s, d>> \in buckets
      <4> TAKE d \in Days
      <4>1. CASE <<s, d>> \notin buckets
        BY <3>1, <4>1
      <4> QED
        BY <4>1
    <3> QED
      BY <2>1, <3>2, <3>3 DEF RollingExact
  <2> QED
    BY <2>2 DEF LedgerExact
<1>2. IInv => LedgerExact
  BY <1>1
<1> QED
  BY <1>2, BudgetInvariant, PTL

\* No interleaving of reservations passes a ceiling: it is exceeded by at most
\* what settled requests used beyond their reservations (reserve of budget.ts).
THEOREM CeilingsStay ==
    ASSUME ~Overlaps
    PROVE  Spec => []CeilingsHold
<1>1. ASSUME IInv
      PROVE  CeilingsHold
  <2>1. AccountsTyped /\ CeilingsKept /\ ledger \in [Ids -> Rows]
        /\ rolling \in [Scopes -> Nat]
    BY <1>1 DEF IInv, TypeOK, AccountsTyped
  <2>2. ASSUME NEW s \in Scopes
        PROVE  /\ rolling[s] <= RollingCeiling[s] + Overrun(s, Days)
               /\ daily[s][day] <= DailyCeiling[s] + Overrun(s, {day})
    <3> DEFINE f == OverrunsOfDays(s)
    <3>1. f \in [Days -> Int]
      BY <2>1, OverrunsTypes
    <3>2. \A d \in Days : f[d] <= OverrunIn(ledger, s, {d})
      BY <2>1, OverrunTypes DEF OverrunsOfDays
    <3>3. rolling[s] <= RollingCeiling[s] + SumFunction(f)
      BY <2>1 DEF CeilingsKept, SumOfDays
    <3> HIDE DEF f
    <3>4. SumFunction(f) <= OverrunIn(ledger, s, Days)
      BY <2>1, <3>1, <3>2, OverrunByDays
    <3>5. SumFunction(f) \in Int
      BY <3>1, FiniteSets, SumTypes
    <3>6. OverrunIn(ledger, s, Days) \in Nat
      BY <2>1, OverrunTypes
    <3>7. rolling[s] \in Nat /\ RollingCeiling[s] \in Nat
      BY <2>1, ConstantTypes
    <3>8. rolling[s] <= RollingCeiling[s] + OverrunIn(ledger, s, Days)
      BY <3>3, <3>4, <3>5, <3>6, <3>7
    <3>9. daily[s][day] <= DailyCeiling[s] + OverrunIn(ledger, s, {day})
      BY <2>1 DEF CeilingsKept
    <3> QED
      BY <3>8, <3>9, SumsAre
  <2> QED
    BY <2>2 DEF CeilingsHold
<1>2. IInv => CeilingsHold
  BY <1>1
<1> QED
  BY <1>2, BudgetInvariant, PTL

-----------------------------------------------------------------------------
(* Clearing a fault.  A reconciliation inside the maintenance job does no  *)
(* harm here, so nothing is said of the totals.                            *)

\* A request that reserves for a vault has one.
VaultsNamed == \A q \in Requests : request[q].pc = "vault" => request[q].vault # None

\* The rows a reconciliation is about to repair are those it knows how to.
PlanRepairs == plan.pc = "apply" => \A i \in DOMAIN plan.open : Repairable(plan.open[i])

FaultInv == ControlTyped /\ ledger \in [Ids -> Rows] /\ VaultsNamed /\ PlanRepairs

\* Every step keeps the rows typed.
LEMMA LedgerTyped ==
    ASSUME FaultInv, [Next]_vars
    PROVE  ledger' \in [Ids -> Rows]
<1>1. /\ day \in Days /\ ledger \in [Ids -> Rows] /\ request \in [Requests -> RequestRecords]
      /\ VaultsNamed
  BY DEF FaultInv, ControlTyped
<1>2. \A q \in Requests : /\ request[q].kind \in AllKinds
                          /\ request[q].vault \in Vaults \cup {None}
                          /\ request[q].used \in Nat \cup {None}
  BY <1>1 DEF RequestRecords
<1>3. ASSUME NEW q \in Requests, NEW x \in Suffixes, request[q].pc = x,
             Enter(q, x, ScopeOf(q, x))
      PROVE  ledger' \in [Ids -> Rows]
  <2> DEFINE s == ScopeOf(q, x)
             row == [NoRow EXCEPT !.state = "reserved", !.scope = s, !.kind = request[q].kind,
                                  !.day = day, !.reserved = Cost[request[q].kind]]
  <2>1. s \in Scopes
    BY <1>1, <1>2, <1>3, ConstantTypes DEF ScopeOf, Suffixes, VaultsNamed
  <2>2. row \in Rows
    BY <1>1, <1>2, <2>1, ConstantTypes DEF Rows, NoRow
  <2>3. ledger' = ledger \/ ledger' = [ledger EXCEPT ![<<q, x>>] = row]
    BY <1>3 DEF Enter
  <2> HIDE DEF row, s
  <2> QED
    BY <1>1, <2>2, <2>3
<1>4. ASSUME NEW q \in Requests, NEW after, SettleBatch(q, after)
      PROVE  ledger' \in [Ids -> Rows]
  <2>1. ledger' = [i \in Ids |->
            IF i \in Held(q)
            THEN [ledger[i] EXCEPT !.state = "settled", !.committed = Actual(q, i),
                      !.failure = IF Underestimated(q, i)
                                  THEN "USAGE_RESERVATION_UNDERESTIMATED" ELSE @]
            ELSE ledger[i]]
    BY <1>4 DEF SettleBatch
  <2>2. ASSUME NEW i \in Ids
        PROVE  [ledger[i] EXCEPT !.state = "settled", !.committed = Actual(q, i),
                      !.failure = IF Underestimated(q, i)
                                  THEN "USAGE_RESERVATION_UNDERESTIMATED" ELSE @] \in Rows
    <3>1. ledger[i] \in Rows /\ ledger[i].reserved \in Nat
      BY <1>1, RowTypes
    <3>2. Actual(q, i) \in Nat
      BY <1>2, <3>1 DEF Actual
    <3> QED
      BY <3>1, <3>2 DEF Rows, Reasons
  <2> QED
    BY <1>1, <2>1, <2>2
<1>5. ASSUME NEW q \in Requests, Arrive(q) \/ RequestStep(q)
      PROVE  ledger' \in [Ids -> Rows]
  <2>1. ASSUME NEW x \in Suffixes, Reserve(q, x) \/ ReserveFails(q, x)
        PROVE  ledger' \in [Ids -> Rows]
    BY <1>1, <1>3, <2>1 DEF Reserve, ReserveFails
  <2>2. CASE Settle(q) \/ SettleUnknown(q)
    BY <1>4, <2>2 DEF Settle, SettleUnknown
  <2>3. CASE Arrive(q) \/ Work(q) \/ ObserveSize(q) \/ SettleFails(q) \/ MarkFault(q) \/ Stop(q)
    <3>1. UNCHANGED ledger
      BY <2>3 DEF Arrive, Work, ObserveSize, SettleFails, MarkFault, Stop, accounts
    <3> QED
      BY <1>1, <3>1
  <2> QED
    BY <1>5, <2>1, <2>2, <2>3 DEF RequestStep
<1>6. ASSUME NEW old \in SUBSET Abandoned, MarkStale(old)
      PROVE  ledger' \in [Ids -> Rows]
  <2>1. NoRow \in Rows
    BY ConstantTypes DEF NoRow, Rows, AllKinds
  <2>2. \A row \in Rows :
           [row EXCEPT !.failure = "STALE_RESERVATION_REQUIRES_RECONCILIATION"] \in Rows
    BY DEF Rows, Reasons
  <2> QED
    BY <1>1, <1>6, <2>1, <2>2 DEF MarkStale
<1>7. CASE ApplyReconciliation
  <2>1. \A row \in Rows : Repaired(row) \in Rows
    <3> TAKE row \in Rows
    <3>1. row.reserved \in Nat
      BY RowTypes
    <3> QED
      BY <3>1 DEF Repaired, Rows
  <2> QED
    BY <1>1, <1>7, <2>1 DEF ApplyReconciliation
<1>8. CASE RepairRow
  <2>1. PICK e \in plan.open : ledger' = [ledger EXCEPT ![e].reconciled = TRUE]
    BY <1>8 DEF RepairRow
  <2> QED
    BY <1>1, <2>1 DEF Rows
<1>9. CASE \/ NewDay \/ ReadExpired \/ ExpireBuckets \/ CronEnds \/ PlanReconciliation
           \/ PlanRepair \/ ClearFault \/ ToolStops \/ UNCHANGED vars
  <2>1. UNCHANGED ledger
    BY <1>9 DEF NewDay, ReadExpired, ExpireBuckets, CronEnds, PlanReconciliation, PlanRepair,
                ClearFault, ToolStops, vars, accounts
  <2> QED
    BY <1>1, <2>1
<1> QED
  BY <1>5, <1>6, <1>7, <1>8, <1>9 DEF Next, CronStep, OperatorStep

\* Every step keeps the vaults named.
LEMMA VaultsStep ==
    ASSUME FaultInv, [Next]_vars
    PROVE  VaultsNamed'
<1>1. ControlTyped /\ VaultsNamed /\ request \in [Requests -> RequestRecords]
  BY DEF FaultInv, ControlTyped
<1>2. ASSUME NEW q \in Requests, Arrive(q) \/ RequestStep(q)
      PROVE  VaultsNamed'
  <2>1. \A p \in Requests : p # q => request'[p] = request[p]
    BY <1>1, <1>2, RequestsMove, MovesOne
  <2>2. SUFFICES request'[q].pc = "vault" => request'[q].vault # None
    BY <1>1, <2>1 DEF VaultsNamed
  <2>3. CASE Arrive(q)
    <3>1. request'[q].pc = "route"
      BY <1>1, <2>3 DEF Arrive, RequestRecords
    <3> QED
      BY <3>1
  <2>4. ASSUME NEW x \in Suffixes, Proceeds(q, x)
        PROVE  request'[q].pc = "vault" => request'[q].vault # None
    <3>1. /\ request'[q].pc = IF x = "route" /\ request[q].pc # "vault"
                                 /\ request[q].vault # None
                              THEN "vault" ELSE "work"
          /\ request'[q].vault = request[q].vault
      BY <1>1, <2>4 DEF Proceeds, RequestRecords
    <3> QED
      BY <3>1
  <2>5. ASSUME GivesUp(q)
        PROVE  request'[q].pc # "vault"
    <3>1. request'[q] = Done \/ request'[q] = [request[q] EXCEPT !.pc = "observe"]
      BY <1>1, <2>5 DEF GivesUp
    <3> QED
      BY <1>1, <3>1 DEF Done, NewRequest, RequestRecords
  <2>6. ASSUME NEW x \in Suffixes, Reserve(q, x) \/ ReserveFails(q, x)
        PROVE  request'[q].pc = "vault" => request'[q].vault # None
    BY <2>4, <2>5, <2>6 DEF Reserve, ReserveFails
  <2>7. CASE Work(q) \/ ObserveSize(q) \/ SettleFails(q)
    <3>1. request'[q].pc \in {"observe", "batch", "fault"}
      BY <1>1, <2>7 DEF Work, ObserveSize, SettleFails, RequestRecords
    <3> QED
      BY <3>1
  <2>8. CASE Settle(q) \/ SettleUnknown(q) \/ MarkFault(q) \/ Stop(q)
    <3>1. request'[q] \in {Done, [request[q] EXCEPT !.pc = "fault"]}
      BY <1>1, <2>8 DEF Settle, SettleUnknown, SettleBatch, MarkFault, Stop
    <3> QED
      BY <1>1, <3>1 DEF Done, NewRequest, RequestRecords
  <2> QED
    BY <1>2, <2>3, <2>6, <2>7, <2>8 DEF RequestStep
<1>3. CASE UNCHANGED request
  BY <1>1, <1>3 DEF VaultsNamed
<1>4. ASSUME NEW old \in SUBSET Abandoned, MarkStale(old)
      PROVE  VaultsNamed'
  <2>1. ASSUME NEW q \in Requests, RequestMoves(q), request'[q].pc = "route"
        PROVE  VaultsNamed'
    BY <1>1, <2>1, MovesOne DEF VaultsNamed
  <2> QED
    BY <1>1, <1>3, <1>4, <2>1, CleanupArrives
<1>5. CASE NewDay \/ ReadExpired \/ ExpireBuckets \/ CronEnds \/ OperatorStep \/ UNCHANGED vars
  <2>1. UNCHANGED request
    BY <1>5 DEF NewDay, ReadExpired, ExpireBuckets, CronEnds, OperatorStep, PlanReconciliation,
                ApplyReconciliation, PlanRepair, RepairRow, ClearFault, ToolStops, vars
  <2> QED
    BY <1>3, <2>1
<1> QED
  BY <1>2, <1>4, <1>5 DEF Next, CronStep

\* Every step keeps the plan's rows repairable.
LEMMA RepairsStep ==
    ASSUME FaultInv, [Next]_vars
    PROVE  PlanRepairs'
<1>1. PlanRepairs
  BY DEF FaultInv
<1>2. CASE UNCHANGED plan
  BY <1>1, <1>2 DEF PlanRepairs
<1>3. CASE PlanReconciliation
  <2> DEFINE open == {i \in Ids : Unresolved(ledger[i])}
  <2>1. plan'.open = [i \in open |-> ledger[i]] /\ \A i \in open : Repairable(ledger[i])
    BY <1>3 DEF PlanReconciliation
  <2> HIDE DEF open
  <2> QED
    BY <2>1 DEF PlanRepairs
<1>4. CASE plan'.pc # "apply"
  BY <1>4 DEF PlanRepairs
<1>5. CASE ApplyReconciliation \/ PlanRepair \/ ClearFault \/ ToolStops
  BY <1>4, <1>5 DEF ApplyReconciliation, PlanRepair, ClearFault, ToolStops, NoPlan
<1>6. CASE RepairRow
  <2>1. PICK i \in plan.open :
           plan' = IF plan.open = {i}
                   THEN [pc |-> "flags", origin |-> plan.origin, day |-> plan.day]
                   ELSE [plan EXCEPT !.open = @ \ {i}]
    BY <1>6 DEF RepairRow
  <2>2. plan.pc = "rows"
    BY <1>6 DEF RepairRow
  <2>3. plan'.pc \in {"flags", "rows"}
    BY <2>1, <2>2
  <2> QED
    BY <1>4, <2>3
<1>7. ASSUME NEW q \in Requests, Arrive(q) \/ RequestStep(q)
      PROVE  UNCHANGED plan
  BY <1>7 DEF Arrive, RequestStep, Reserve, ReserveFails, Work, ObserveSize, Settle,
              SettleUnknown, SettleBatch, SettleFails, MarkFault, Stop
<1>8. CASE NewDay \/ CronStep \/ UNCHANGED vars
  <2>1. UNCHANGED plan
    BY <1>8 DEF NewDay, CronStep, ReadExpired, ExpireBuckets, CronEnds, MarkStale, vars
  <2> QED
    BY <1>2, <2>1
<1> QED
  BY <1>2, <1>3, <1>5, <1>6, <1>7, <1>8 DEF Next, OperatorStep

\* Whoever clears the fault has resolved what was unresolved.
LEMMA ClearedClean ==
    ASSUME FaultInv, [Next]_vars, flags.fault, ~flags'.fault, NEW e \in Ids
    PROVE  ~Unresolved(ledger'[e])
<1>1. /\ ControlTyped /\ flags \in FlagRecords /\ ledger \in [Ids -> Rows] /\ PlanRepairs
  BY DEF FaultInv, ControlTyped
<1>2. \A reason, q : Raise(flags, reason, q) = flags
  BY DEF Raise
<1>3. ASSUME NEW q \in Requests, Arrive(q) \/ RequestStep(q)
      PROVE  flags'.fault
  <2>1. ASSUME NEW after, SettleBatch(q, after)
        PROVE  UNCHANGED flags
    BY <1>2, <2>1 DEF SettleBatch
  <2>2. CASE ObserveSize(q)
    BY <1>1, <2>2 DEF ObserveSize, FlagRecords
  <2>3. CASE MarkFault(q)
    BY <1>2, <2>3 DEF MarkFault
  <2>4. CASE Arrive(q) \/ Work(q) \/ SettleFails(q) \/ Stop(q)
             \/ \E x \in Suffixes : Reserve(q, x) \/ ReserveFails(q, x)
    <3>1. UNCHANGED flags
      BY <2>4 DEF Arrive, Work, SettleFails, Stop, Reserve, ReserveFails
    <3> QED
      BY <3>1
  <2> QED
    BY <1>3, <2>1, <2>2, <2>3, <2>4 DEF RequestStep, Settle, SettleUnknown
<1>4. ASSUME NEW old \in SUBSET Abandoned, MarkStale(old)
      PROVE  UNCHANGED flags
  BY <1>2, <1>4 DEF MarkStale
<1>5. CASE ClearFault
  <2>1. Clean /\ ledger' = ledger
    BY <1>5 DEF ClearFault, accounts
  <2> QED
    BY <2>1 DEF Clean
<1>6. CASE ApplyReconciliation
  <2>1. /\ {i \in Ids : Unresolved(ledger[i])} = DOMAIN plan.open
        /\ \A i \in DOMAIN plan.open : ledger[i] = plan.open[i]
        /\ ledger'[e] = IF e \in DOMAIN plan.open THEN Repaired(ledger[e]) ELSE ledger[e]
        /\ plan.pc = "apply"
    BY <1>6 DEF ApplyReconciliation, Unmoved
  <2>2. CASE e \in DOMAIN plan.open
    <3>1. Repairable(ledger[e]) /\ ledger'[e] = Repaired(ledger[e]) /\ ledger[e] \in Rows
      BY <1>1, <2>1, <2>2 DEF PlanRepairs
    <3>2. ledger'[e].state = "settled" /\ ledger'[e].reconciled = TRUE
      <4>1. CASE StaleRead(ledger[e])
        BY <3>1, <4>1 DEF Repaired, Rows
      <4>2. CASE ~StaleRead(ledger[e])
        BY <3>1, <4>2 DEF Repaired, Repairable, CleanupOverrun, Rows
      <4> QED
        BY <4>1, <4>2
    <3> QED
      BY <3>2 DEF Unresolved
  <2>3. CASE e \notin DOMAIN plan.open
    BY <2>1, <2>3
  <2> QED
    BY <2>2, <2>3
<1>7. CASE \/ NewDay \/ ReadExpired \/ ExpireBuckets \/ CronEnds \/ PlanReconciliation
           \/ PlanRepair \/ RepairRow \/ ToolStops \/ UNCHANGED vars
  <2>1. UNCHANGED flags
    BY <1>7 DEF NewDay, ReadExpired, ExpireBuckets, CronEnds, PlanReconciliation, PlanRepair,
                RepairRow, ToolStops, vars
  <2> QED
    BY <2>1
<1> QED
  BY <1>3, <1>4, <1>5, <1>6, <1>7 DEF Next, CronStep, OperatorStep

\* A fault is cleared only on a ledger with nothing open and nothing
\* unresolved, also when a reconciliation falls inside the maintenance job and
\* although both tools read the ledger some calls before they write.
THEOREM FaultsClearedClean == Spec => FaultClearedClean
<1>1. Init => FaultInv
  <2> SUFFICES ASSUME Init
               PROVE  FaultInv
    OBVIOUS
  <2>1. TypeOK
    BY InitHolds DEF IInv
  <2>2. ControlTyped /\ ledger \in [Ids -> Rows]
    BY <2>1 DEF TypeOK, ControlTyped, FlagRecords, RequestRecords
  <2>3. VaultsNamed /\ PlanRepairs
    BY DEF Init, VaultsNamed, PlanRepairs, NewRequest, NoPlan
  <2> QED
    BY <2>2, <2>3 DEF FaultInv
<1>2. FaultInv /\ [Next]_vars => FaultInv'
  BY ControlStep, LedgerTyped, VaultsStep, RepairsStep DEF FaultInv
<1>3. FaultInv /\ [Next]_vars
         => [flags.fault /\ ~flags'.fault => \A i \in Ids : ~Unresolved(ledger'[i])]_vars
  BY ClearedClean
<1> QED
  BY <1>1, <1>2, <1>3, PTL DEF Spec, FaultClearedClean
=============================================================================
