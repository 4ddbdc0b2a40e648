--------------------------- MODULE Finance_proofs ---------------------------
(***************************************************************************)
(* Proofs about Finance, for any devices, any commands and any number of   *)
(* them: every link between the tables leads both ways (LinksHold), no     *)
(* command overdraws an account (CommandsNeverOverdraw), a debt is marked  *)
(* paid exactly while it is (DebtStatusFollows), and a patch changes what  *)
(* its preview showed (PatchNeverOverwrites).                              *)
(*                                                                         *)
(* A command is one function of the tables, so most of what is proved      *)
(* speaks of tables t and what a command makes of them.  Balances and      *)
(* repayments are sums over rows: the laws of finite sums come first.      *)
(***************************************************************************)
EXTENDS Finance, FiniteSetTheorems, SequenceTheorems, WellFoundedInduction, TLAPS

-----------------------------------------------------------------------------
(* The inductive invariant.                                                *)

\* What a set of ids can be after the commands given so far.
Numbered(S, m) ==
    \A e \in S \cap (TxIds \cup PaymentIds) : e[2] \in Devices => e[3] <= m[e[2]]

\* Tables as they are between commands.
Sound(t, m) ==
    /\ t = [e \in DOMAIN t |-> t[e]] /\ IsFiniteSet(DOMAIN t)
    /\ Conforms(t) /\ Numbered(DOMAIN t, m) /\ Linked(t)

\* What a group makes of the entities it does not delete.
Written(chg) == [e \in {x \in DOMAIN chg : chg[x].res # None} |-> chg[e].res]

\* Groups, sent or not: they may not fit, but write rows of their tables.
GroupFits(g, m) ==
    /\ IsFiniteSet(DOMAIN g.chg) /\ Numbered(DOMAIN g.chg, m)
    /\ DOMAIN g.chg \subseteq Ids /\ Conforms(Written(g.chg))
    /\ \A e \in DOMAIN g.chg : g.chg[e].old \in Nat

QueueFits(q, m) ==
    /\ q \in Seq(Range(q))
    /\ \A i \in 1..Len(q) : GroupFits(q[i], m)

\* A patch differs from what it was prepared from only where it shows it.
PatchFits(p) ==
    p # None =>
       /\ IsFiniteSet(DOMAIN p.next) /\ Conforms(p.next)
       /\ \A e \in DOMAIN p.next : p.next[e].is \notin {"tx", "payment"}
       /\ DOMAIN p.source \subseteq DOMAIN p.next
       /\ DOMAIN p.next = DOMAIN p.source \cup p.shown
       /\ \A e \in DOMAIN p.source \ p.shown : p.next[e] = p.source[e]

IInv ==
    /\ TypeOK
    /\ db = [d \in Devices |-> db[d]] /\ ver = [d \in Devices |-> ver[d]]
    /\ outbox = [d \in Devices |-> outbox[d]] /\ patch = [d \in Devices |-> patch[d]]
    /\ QueueFits(log, made)
    /\ \A d \in Devices :
          /\ Sound(db[d], made) /\ QueueFits(outbox[d], made) /\ PatchFits(patch[d])

-----------------------------------------------------------------------------
(* Sums over finite sets.                                                  *)

\* Whatever holds at zero and passes on to the next number holds of all.
LEMMA NumbersInTurn ==
    ASSUME NEW P, 0 \in P, \A n \in Nat : n \in P => n + 1 \in P
    PROVE  Nat \subseteq P
<1> DEFINE R == {ss \in Nat \X Nat : ss[1] < ss[2]}
           S == Nat \ P
<1>1. \A x, y \in Nat : <<y, x>> \in R <=> y < x
  OBVIOUS
<1>2. IsWellFoundedOn(R, Nat)
  BY NatLessThanWellFounded, Zenon DEF OpToRel
<1> HIDE DEF R
<1>3. SUFFICES ASSUME S # {}
               PROVE  FALSE
  OBVIOUS
<1>4. \E x \in S : \A y \in S : ~(<<y, x>> \in R)
  <2>1. S \subseteq Nat
    OBVIOUS
  <2> HIDE DEF S
  <2> QED
    BY <1>2, <1>3, <2>1, WFMin
<1>5. PICK x \in S : \A y \in S : ~(<<y, x>> \in R)
  BY <1>4
<1>6. x \in Nat /\ x # 0 /\ x - 1 \in Nat /\ x - 1 < x
  OBVIOUS
<1>7. x - 1 \in P
  BY <1>1, <1>5, <1>6
<1> QED
  BY <1>6, <1>7

\* Whatever holds of the empty set and passes on when one element is added
\* holds of a finite set.
LEMMA ElementsInTurn ==
    ASSUME NEW S, IsFiniteSet(S), NEW P, {} \in P,
           \A T \in SUBSET S, x \in S : T \in P /\ x \notin T => T \cup {x} \in P
    PROVE  S \in P
<1> DEFINE Q == {n \in Nat : \A T \in SUBSET S : Cardinality(T) = n => T \in P}
<1>1. 0 \in Q
  <2>1. ASSUME NEW T \in SUBSET S, Cardinality(T) = 0
        PROVE  T \in P
    <3>1. IsFiniteSet(T)
      BY FS_Subset
    <3> QED
      BY <2>1, <3>1, FS_EmptySet
  <2> QED
    BY <2>1
<1>2. ASSUME NEW n \in Nat, n \in Q
      PROVE  n + 1 \in Q
  <2>1. ASSUME NEW T \in SUBSET S, Cardinality(T) = n + 1
        PROVE  T \in P
    <3>1. IsFiniteSet(T) /\ T # {}
      BY <2>1, FS_Subset, FS_EmptySet
    <3>2. PICK x \in T : TRUE
      BY <3>1
    <3>3. Cardinality(T \ {x}) = Cardinality(T) - 1
      BY ONLY <3>1, <3>2, FS_RemoveElement
    <3>4. T \ {x} \in P
      BY <1>2, <2>1, <3>3
    <3>5. (T \ {x}) \cup {x} \in P
      BY <3>4
    <3> QED
      BY <3>5
  <2> QED
    BY <2>1
<1> HIDE DEF Q
<1>3. Nat \subseteq Q
  BY <1>1, <1>2, NumbersInTurn
<1>4. Cardinality(S) \in Q
  BY <1>3, FS_CardinalityType
<1> QED
  BY <1>4 DEF Q

\* The function the fold is defined by, on the parts of a set.
Pick(s) == CHOOSE x \in s : TRUE
Partial(f, U, h) ==
    h = [s \in U |-> IF s = {} THEN 0 ELSE f[Pick(s)] + h[s \ {Pick(s)}]]

\* A sum is what that function gives for the whole set.
LEMMA SumIs ==
    ASSUME NEW f, NEW T
    PROVE  SumFunctionOnSet(f, T) = (CHOOSE h : Partial(f, SUBSET T, h))[T]
BY DEF SumFunctionOnSet, FoldFunctionOnSet, MapThenFoldSet, Partial, Pick

\* There is one.
LEMMA PartialExists ==
    ASSUME NEW f, NEW T, IsFiniteSet(T)
    PROVE  \E h : Partial(f, SUBSET T, h)
<1> DEFINE U(n) == {s \in SUBSET T : Cardinality(s) <= n}
           P == {n \in Nat : \E h : Partial(f, U(n), h)}
<1>1. 0 \in P
  <2> DEFINE h == [s \in U(0) |-> 0]
  <2>1. \A s \in U(0) : s = {}
    BY FS_Subset, FS_EmptySet, FS_CardinalityType
  <2>2. Partial(f, U(0), h)
    BY <2>1 DEF Partial
  <2> QED
    BY <2>2
<1>2. ASSUME NEW n \in Nat, n \in P
      PROVE  n + 1 \in P
  <2>1. PICK h : Partial(f, U(n), h)
    BY <1>2
  <2> DEFINE g == [s \in U(n + 1) |-> IF s = {} THEN 0 ELSE f[Pick(s)] + h[s \ {Pick(s)}]]
  <2>2. ASSUME NEW s \in U(n + 1), s # {}
        PROVE  s \ {Pick(s)} \in U(n)
    <3>1. Pick(s) \in s
      BY <2>2 DEF Pick
    <3>2. IsFiniteSet(s)
      BY FS_Subset
    <3>3. Cardinality(s \ {Pick(s)}) = Cardinality(s) - 1 /\ Cardinality(s) \in Nat
      BY <3>1, <3>2, FS_RemoveElement, FS_CardinalityType
    <3> QED
      BY <3>3
  <2>3. U(n) \subseteq U(n + 1)
    BY FS_Subset, FS_CardinalityType
  <2>4. ASSUME NEW s \in U(n)
        PROVE  g[s] = h[s]
    <3>1. s \in U(n + 1)
      BY <2>3
    <3>2. h[s] = IF s = {} THEN 0 ELSE f[Pick(s)] + h[s \ {Pick(s)}]
      <4> HIDE DEF U
      <4> QED
        BY <2>1 DEF Partial
    <3> HIDE DEF U
    <3> QED
      BY <3>1, <3>2
  <2>5. Partial(f, U(n + 1), g)
    <3>1. ASSUME NEW s \in U(n + 1)
          PROVE  (IF s = {} THEN 0 ELSE f[Pick(s)] + h[s \ {Pick(s)}])
                 = (IF s = {} THEN 0 ELSE f[Pick(s)] + g[s \ {Pick(s)}])
      <4>1. s # {} => g[s \ {Pick(s)}] = h[s \ {Pick(s)}]
        <5> HIDE DEF U, g
        <5> QED
          BY <2>2, <2>4
      <4> HIDE DEF U, g
      <4> QED
        BY <4>1
    <3>2. g = [s \in U(n + 1) |-> IF s = {} THEN 0 ELSE f[Pick(s)] + h[s \ {Pick(s)}]]
      OBVIOUS
    <3> HIDE DEF U, g
    <3> QED
      <4> DEFINE V == U(n + 1)
                 G == [s \in V |-> IF s = {} THEN 0 ELSE f[Pick(s)] + g[s \ {Pick(s)}]]
      <4>1. \A s \in V : g[s] = G[s]
        BY <3>1, <3>2
      <4>2. g = [s \in V |-> g[s]] /\ G = [s \in V |-> G[s]]
        BY <3>2
      <4>3. g = G
        <5> HIDE DEF G, V
        <5> QED
          BY <4>1, <4>2
      <4> QED
        BY <4>3 DEF Partial
  <2> HIDE DEF U, g
  <2> QED
    BY <2>5
<1> HIDE DEF P
<1>3. Cardinality(T) \in P
  BY <1>1, <1>2, NumbersInTurn, FS_CardinalityType
<1>4. U(Cardinality(T)) = SUBSET T
  BY FS_Subset, FS_CardinalityType
<1> QED
  BY <1>3, <1>4 DEF P

\* And no other: two of them agree wherever both are defined.
LEMMA PartialUnique ==
    ASSUME NEW f, NEW T, IsFiniteSet(T), NEW S \in SUBSET T, NEW h, NEW g,
           Partial(f, SUBSET T, h), Partial(f, SUBSET S, g)
    PROVE  h[S] = g[S]
<1> DEFINE P == {n \in Nat : \A s \in SUBSET S : Cardinality(s) = n => h[s] = g[s]}
<1>1. ASSUME NEW s \in SUBSET S
      PROVE  /\ h[s] = IF s = {} THEN 0 ELSE f[Pick(s)] + h[s \ {Pick(s)}]
             /\ g[s] = IF s = {} THEN 0 ELSE f[Pick(s)] + g[s \ {Pick(s)}]
             /\ IsFiniteSet(s)
  <2>1. s \in SUBSET T
    OBVIOUS
  <2>2. h[s] = IF s = {} THEN 0 ELSE f[Pick(s)] + h[s \ {Pick(s)}]
    BY <2>1 DEF Partial
  <2>3. g[s] = IF s = {} THEN 0 ELSE f[Pick(s)] + g[s \ {Pick(s)}]
    BY DEF Partial
  <2> QED
    BY <2>1, <2>2, <2>3, FS_Subset
<1>2. 0 \in P
  BY <1>1, FS_EmptySet
<1>3. ASSUME NEW n \in Nat, n \in P
      PROVE  n + 1 \in P
  <2>1. ASSUME NEW s \in SUBSET S, Cardinality(s) = n + 1
        PROVE  h[s] = g[s]
    <3>1. s # {}
      BY <2>1, FS_EmptySet
    <3>2. Pick(s) \in s
      BY <3>1 DEF Pick
    <3>3. Cardinality(s \ {Pick(s)}) = Cardinality(s) - 1
      BY <1>1, <3>2, FS_RemoveElement
    <3>4. h[s \ {Pick(s)}] = g[s \ {Pick(s)}]
      BY <1>3, <2>1, <3>3
    <3> QED
      BY <1>1, <3>1, <3>4
  <2> QED
    BY <2>1
<1> HIDE DEF P
<1>4. Nat \subseteq P
  BY <1>2, <1>3, NumbersInTurn
<1>5. Cardinality(S) \in P /\ S \in SUBSET S
  BY <1>1, <1>4, FS_CardinalityType
<1> QED
  BY <1>5 DEF P

\* The sum over nothing; and over a set, from the element the fold picks.
LEMMA SumPicks ==
    ASSUME NEW f, NEW T, IsFiniteSet(T)
    PROVE  SumFunctionOnSet(f, T) =
               IF T = {} THEN 0
               ELSE f[Pick(T)] + SumFunctionOnSet(f, T \ {Pick(T)})
<1> DEFINE S == T \ {Pick(T)}
           h == CHOOSE k : Partial(f, SUBSET T, k)
           g == CHOOSE k : Partial(f, SUBSET S, k)
<1>1. S \in SUBSET T /\ IsFiniteSet(S)
  BY FS_Subset
<1>2. Partial(f, SUBSET T, h)
  BY PartialExists, Zenon
<1>3. Partial(f, SUBSET S, g)
  <2> HIDE DEF S
  <2> QED
    BY <1>1, PartialExists, Zenon
<1>4. SumFunctionOnSet(f, T) = h[T] /\ SumFunctionOnSet(f, S) = g[S]
  <2> HIDE DEF S
  <2> QED
    BY SumIs, Zenon
<1> HIDE DEF h, g
<1>5. h[S] = g[S]
  <2> HIDE DEF S
  <2> QED
    BY <1>1, <1>2, <1>3, PartialUnique
<1>6. h[T] = IF T = {} THEN 0 ELSE f[Pick(T)] + h[T \ {Pick(T)}]
  BY <1>2 DEF Partial
<1> QED
  BY <1>4, <1>5, <1>6

\* A sum of integers is one, and any element may be taken first.
LEMMA SumTakes ==
    ASSUME NEW T, IsFiniteSet(T), NEW f, \A i \in T : f[i] \in Int
    PROVE  /\ SumFunctionOnSet(f, T) \in Int
           /\ \A x \in T : SumFunctionOnSet(f, T) = f[x] + SumFunctionOnSet(f, T \ {x})
<1> DEFINE Good(s) == /\ SumFunctionOnSet(f, s) \in Int
                      /\ \A x \in s :
                            SumFunctionOnSet(f, s) = f[x] + SumFunctionOnSet(f, s \ {x})
           P == {n \in Nat : \A s \in SUBSET T : Cardinality(s) <= n => Good(s)}
<1>1. ASSUME NEW s \in SUBSET T
      PROVE  /\ IsFiniteSet(s)
             /\ SumFunctionOnSet(f, s) = IF s = {} THEN 0
                   ELSE f[Pick(s)] + SumFunctionOnSet(f, s \ {Pick(s)})
  BY SumPicks, FS_Subset
<1>2. 0 \in P
  <2>1. ASSUME NEW s \in SUBSET T, Cardinality(s) <= 0
        PROVE  Good(s)
    <3>1. s = {}
      <4>1. IsFiniteSet(s) /\ Cardinality(s) \in Nat
        BY <1>1, FS_CardinalityType
      <4>2. Cardinality(s) = 0
        BY <2>1, <4>1
      <4> QED
        BY <4>1, <4>2, FS_EmptySet
    <3>2. SumFunctionOnSet(f, s) = 0
      BY <1>1, <3>1
    <3> QED
      BY <3>1, <3>2
  <2> QED
    BY <2>1
<1>3. ASSUME NEW n \in Nat, n \in P
      PROVE  n + 1 \in P
  <2>1. ASSUME NEW s \in SUBSET T, Cardinality(s) <= n + 1, s # {}
        PROVE  Good(s)
    <3> DEFINE p == Pick(s)
    <3>1. s # {} /\ p \in s
      BY <2>1 DEF Pick
    <3>2. SumFunctionOnSet(f, s) = f[p] + SumFunctionOnSet(f, s \ {p})
      BY <1>1, <3>1
    <3> HIDE DEF p
    <3>3. ASSUME NEW x \in s
          PROVE  Good(s \ {x})
      <4>1. Cardinality(s \ {x}) = Cardinality(s) - 1 /\ Cardinality(s) \in Nat
        BY <1>1, FS_RemoveElement, FS_CardinalityType
      <4> HIDE DEF Good
      <4> QED
        BY <1>3, <2>1, <4>1
    <3>4. SumFunctionOnSet(f, s) \in Int
      BY <3>1, <3>2, <3>3
    <3>5. ASSUME NEW x \in s
          PROVE  SumFunctionOnSet(f, s) = f[x] + SumFunctionOnSet(f, s \ {x})
      <4>1. CASE x = p
        BY <3>2, <4>1
      <4>2. CASE x # p
        <5> DEFINE r == s \ {p, x}
        <5>1. (s \ {p}) \ {x} = r /\ (s \ {x}) \ {p} = r
          OBVIOUS
        <5>2. SumFunctionOnSet(f, s \ {p}) = f[x] + SumFunctionOnSet(f, r)
          BY <3>1, <3>3, <4>2, <5>1
        <5>3. SumFunctionOnSet(f, s \ {x}) = f[p] + SumFunctionOnSet(f, r)
          BY <3>1, <3>3, <4>2, <5>1
        <5>5. SumFunctionOnSet(f, r) \in Int
          <6>1. IsFiniteSet(s \ {x}) /\ p \in s \ {x}
            BY <1>1, <3>1, <4>2
          <6>2. Cardinality(r) = Cardinality(s \ {x}) - 1
            BY ONLY <5>1, <6>1, FS_RemoveElement
          <6>3. /\ Cardinality(s \ {x}) = Cardinality(s) - 1
                /\ Cardinality(s) \in Nat
            BY <1>1, FS_RemoveElement, FS_CardinalityType
          <6>4. r \in SUBSET T /\ Cardinality(r) <= n
            BY <2>1, <6>2, <6>3
          <6>5. Good(r)
            <7> HIDE DEF Good
            <7> QED
              BY <1>3, <6>4
          <6> QED
            BY <6>5
        <5> QED
          BY <3>1, <3>2, <5>2, <5>3, <5>5
      <4> QED
        BY <4>1, <4>2
    <3> QED
      BY <3>4, <3>5
  <2>2. ASSUME NEW s \in SUBSET T, s = {}
        PROVE  Good(s)
    <3>1. SumFunctionOnSet(f, s) = 0
      BY <1>1, <2>2
    <3> QED
      BY <2>2, <3>1
  <2> HIDE DEF Good
  <2> QED
    BY <2>1, <2>2
<1> HIDE DEF P
<1>4. Cardinality(T) \in P
  BY <1>2, <1>3, NumbersInTurn, FS_CardinalityType
<1> QED
  BY <1>4 DEF P

\* One element more.
LEMMA SumStep ==
    ASSUME NEW T, IsFiniteSet(T), NEW f, \A i \in T : f[i] \in Int,
           NEW x, x \notin T, f[x] \in Int
    PROVE  /\ SumFunctionOnSet(f, {}) = 0
           /\ SumFunctionOnSet(f, T) \in Int
           /\ SumFunctionOnSet(f, T \cup {x}) = f[x] + SumFunctionOnSet(f, T)
<1> DEFINE S == T \cup {x}
<1>1. IsFiniteSet(S) /\ IsFiniteSet({}) /\ S \ {x} = T /\ x \in S
  BY FS_AddElement, FS_EmptySet
<1>2. SumFunctionOnSet(f, {}) = 0
  BY <1>1, SumPicks
<1>3. SumFunctionOnSet(f, T) \in Int
  BY SumTakes
<1>4. \A i \in S : f[i] \in Int
  OBVIOUS
<1> HIDE DEF S
<1>5. SumFunctionOnSet(f, S) = f[x] + SumFunctionOnSet(f, S \ {x})
  BY <1>1, <1>4, SumTakes
<1> QED
  BY <1>1, <1>2, <1>3, <1>5 DEF S

\* Sums of what agrees are the same.
LEMMA SumAgrees ==
    ASSUME NEW D, IsFiniteSet(D), NEW f, NEW g,
           \A i \in D : f[i] \in Int /\ g[i] = f[i]
    PROVE  SumFunctionOnSet(g, D) = SumFunctionOnSet(f, D)
<1> DEFINE P == {T \in SUBSET D : SumFunctionOnSet(g, T) = SumFunctionOnSet(f, T)}
<1>1. {} \in P
  BY SumPicks, FS_EmptySet
<1>2. ASSUME NEW T \in SUBSET D, NEW x \in D, T \in P, x \notin T
      PROVE  T \cup {x} \in P
  <2>1. IsFiniteSet(T)
    BY FS_Subset
  <2>2. SumFunctionOnSet(f, T \cup {x}) = f[x] + SumFunctionOnSet(f, T)
    BY <1>2, <2>1, SumStep
  <2>3. SumFunctionOnSet(g, T \cup {x}) = g[x] + SumFunctionOnSet(g, T)
    BY <1>2, <2>1, SumStep
  <2> QED
    BY <1>2, <2>2, <2>3
<1> HIDE DEF P
<1>3. D \in P
  BY <1>1, <1>2, ElementsInTurn
<1> QED
  BY <1>3 DEF P

\* A sum grows by what is added to it.
LEMMA SumGrows ==
    ASSUME NEW D, IsFiniteSet(D), NEW x, x \notin D, NEW f \in [D -> Int],
           NEW h \in [D \cup {x} -> Int], \A i \in D : h[i] = f[i]
    PROVE  /\ SumFunction(f) \in Int
           /\ SumFunction(h) = h[x] + SumFunction(f)
<1>1. \A i \in D : h[i] \in Int
  OBVIOUS
<1>2. h[x] \in Int
  OBVIOUS
<1>3. SumFunctionOnSet(h, D \cup {x}) = h[x] + SumFunctionOnSet(h, D)
  BY <1>1, <1>2, SumStep
<1>4. SumFunctionOnSet(h, D) = SumFunctionOnSet(f, D) /\ SumFunctionOnSet(f, D) \in Int
  BY SumAgrees, SumTakes
<1>5. DOMAIN f = D /\ DOMAIN h = D \cup {x}
  OBVIOUS
<1> QED
  BY <1>3, <1>4, <1>5 DEF SumFunction

-----------------------------------------------------------------------------
(* Tables, and the ids of their rows.                                      *)

\* The tables after rows are written over others.
LEMMA PutAllIs ==
    ASSUME NEW t, NEW new
    PROVE  /\ DOMAIN PutAll(t, new) = DOMAIN t \cup DOMAIN new
           /\ \A e \in DOMAIN new : PutAll(t, new)[e] = new[e]
           /\ \A e \in DOMAIN t : e \notin DOMAIN new => PutAll(t, new)[e] = t[e]
           /\ PutAll(t, new) = [e \in DOMAIN PutAll(t, new) |-> PutAll(t, new)[e]]
BY DEF PutAll

\* The tables after a row is written.
LEMMA PutIs ==
    ASSUME NEW t, NEW e, NEW value
    PROVE  /\ DOMAIN Put(t, e, value) = DOMAIN t \cup {e}
           /\ Put(t, e, value)[e] = value
           /\ \A x \in DOMAIN t : x # e => Put(t, e, value)[x] = t[x]
           /\ Put(t, e, value) = [x \in DOMAIN Put(t, e, value) |-> Put(t, e, value)[x]]
BY DEF Put

\* The tables after rows are deleted.
LEMMA DeleteIs ==
    ASSUME NEW t, NEW gone
    PROVE  /\ DOMAIN Delete(t, gone) = DOMAIN t \ gone
           /\ \A x \in DOMAIN t : x \notin gone => Delete(t, gone)[x] = t[x]
           /\ Delete(t, gone) = [x \in DOMAIN Delete(t, gone) |-> Delete(t, gone)[x]]
BY DEF Delete, Restrict

\* The names are different.
LEMMA NamesApart ==
    /\ Cash \notin {Stash, Spare, NewAccount, Costs, Wages, Rent, Salary, Trip, NewGoal,
                    Visit, Loan, Preset, Settings, None}
    /\ Stash \notin {Spare, NewAccount, Costs, Wages, Rent, Salary, Trip, NewGoal,
                     Visit, Loan, Preset, Settings, None}
    /\ Spare \notin {NewAccount, Costs, Wages, Rent, Salary, Trip, NewGoal,
                     Visit, Loan, Preset, Settings, None}
    /\ NewAccount \notin {Costs, Wages, Rent, Salary, Trip, NewGoal,
                          Visit, Loan, Preset, Settings, None}
    /\ Costs \notin {Wages, Rent, Salary, Trip, NewGoal, Visit, Loan, Preset, Settings, None}
    /\ Wages \notin {Rent, Salary, Trip, NewGoal, Visit, Loan, Preset, Settings, None}
    /\ Rent \notin {Salary, Trip, NewGoal, Visit, Loan, Preset, Settings, None}
    /\ Salary \notin {Trip, NewGoal, Visit, Loan, Preset, Settings, None}
    /\ Trip \notin {NewGoal, Visit, Loan, Preset, Settings, None}
    /\ NewGoal \notin {Visit, Loan, Preset, Settings, None}
    /\ Visit \notin {Loan, Preset, Settings, None}
    /\ Loan \notin {Preset, Settings, None}
    /\ Preset \notin {Settings, None}
    /\ Settings # None
<1>1. DOMAIN Names = 1..15
  BY DEF Names
<1>2. \A i, j \in 1..15 : Names[i] = Names[j] => i = j
  BY <1>1, FinanceAssumption DEF FinanceAssumption, IsInjective
<1>3. /\ Names[1] = Cash /\ Names[2] = Stash /\ Names[3] = Spare /\ Names[4] = NewAccount
      /\ Names[5] = Costs /\ Names[6] = Wages /\ Names[7] = Rent /\ Names[8] = Salary
      /\ Names[9] = Trip /\ Names[10] = NewGoal /\ Names[11] = Visit /\ Names[12] = Loan
      /\ Names[13] = Preset /\ Names[14] = Settings /\ Names[15] = None
  BY DEF Names
<1> QED
  BY <1>2, <1>3

\* Nor are they ids of rows, or keys of funding transfers.
LEMMA IdsApart ==
    /\ AccountIds \cap GoalIds = {} /\ TxIds \cap PaymentIds = {}
    /\ AccountIds \cap {Costs, Wages, Rent, Salary, Visit, Loan, Preset, Settings, None} = {}
    /\ GoalIds \cap {Costs, Wages, Rent, Salary, Visit, Loan, Preset, Settings, None} = {}
    /\ (AccountIds \cup GoalIds) \cap (TxIds \cup PaymentIds) = {}
    /\ {Costs, Wages, Rent, Salary, Visit, Loan, Preset, Settings, None}
         \cap (TxIds \cup PaymentIds) = {}
    /\ FundingOf(Rent) \notin {None, Rent, Salary, FundingOf(Visit)}
    /\ FundingOf(Visit) \notin {None, Rent, Salary}
    /\ Ids = AccountIds \cup GoalIds \cup {Costs, Wages, Rent, Salary, Visit, Loan, Preset,
                                           Settings} \cup TxIds \cup PaymentIds
<1>1. DOMAIN Names = 1..15
  BY DEF Names
<1>2. /\ Names[1] = Cash /\ Names[2] = Stash /\ Names[3] = Spare /\ Names[4] = NewAccount
      /\ Names[5] = Costs /\ Names[6] = Wages /\ Names[7] = Rent /\ Names[8] = Salary
      /\ Names[9] = Trip /\ Names[10] = NewGoal /\ Names[11] = Visit /\ Names[12] = Loan
      /\ Names[13] = Preset /\ Names[14] = Settings /\ Names[15] = None
  BY DEF Names
<1>3. \A i \in 1..15 : Names[i] \notin TxIds \cup PaymentIds
                       /\ Names[i] \notin {FundingOf(Rent), FundingOf(Visit)}
  BY <1>1, FinanceAssumption DEF FinanceAssumption
<1>4. {Names[i] : i \in 1..14}
        = {Cash, Stash, Spare, NewAccount, Costs, Wages, Rent, Salary, Trip, NewGoal, Visit,
           Loan, Preset, Settings}
  <2> DEFINE S == {Names[i] : i \in 1..14}
  <2>1. /\ 1 \in 1..14 /\ 2 \in 1..14 /\ 3 \in 1..14 /\ 4 \in 1..14 /\ 5 \in 1..14
        /\ 6 \in 1..14 /\ 7 \in 1..14 /\ 8 \in 1..14 /\ 9 \in 1..14 /\ 10 \in 1..14
        /\ 11 \in 1..14 /\ 12 \in 1..14 /\ 13 \in 1..14 /\ 14 \in 1..14
    OBVIOUS
  <2>2. \A i \in 1..14 : i \in {1, 2, 3, 4, 5, 6, 7, 8, 9, 10, 11, 12, 13, 14}
    OBVIOUS
  <2>3. \A i \in 1..14 : Names[i] \in
          {Cash, Stash, Spare, NewAccount, Costs, Wages, Rent, Salary, Trip, NewGoal, Visit,
           Loan, Preset, Settings}
    BY ONLY <1>2, <2>2
  <2>4. {Cash, Stash, Spare, NewAccount, Costs, Wages, Rent, Salary, Trip, NewGoal, Visit,
         Loan, Preset, Settings} \subseteq S
    BY ONLY <1>2, <2>1
  <2> QED
    BY <2>3, <2>4
<1>5. TxIds \cap PaymentIds = {}
  BY DEF TxIds, PaymentIds
<1>6. /\ \A n \in AccountIds \cup GoalIds \cup {Costs, Wages, Rent, Salary, Visit, Loan,
                                              Preset, Settings, None} :
            n \notin TxIds \cup PaymentIds /\ n \notin {FundingOf(Rent), FundingOf(Visit)}
  <2>1. /\ 1 \in 1..15 /\ 2 \in 1..15 /\ 3 \in 1..15 /\ 4 \in 1..15 /\ 5 \in 1..15
        /\ 6 \in 1..15 /\ 7 \in 1..15 /\ 8 \in 1..15 /\ 9 \in 1..15 /\ 10 \in 1..15
        /\ 11 \in 1..15 /\ 12 \in 1..15 /\ 13 \in 1..15 /\ 14 \in 1..15 /\ 15 \in 1..15
    OBVIOUS
  <2> QED
    BY ONLY <1>2, <1>3, <2>1 DEF AccountIds, GoalIds
<1>7. FundingOf(Rent) # FundingOf(Visit)
  BY NamesApart DEF FundingOf
<1>8. AccountIds \cap GoalIds = {}
      /\ AccountIds \cap {Costs, Wages, Rent, Salary, Visit, Loan, Preset, Settings, None} = {}
      /\ GoalIds \cap {Costs, Wages, Rent, Salary, Visit, Loan, Preset, Settings, None} = {}
  BY NamesApart DEF AccountIds, GoalIds
<1>9. Ids = AccountIds \cup GoalIds \cup {Costs, Wages, Rent, Salary, Visit, Loan, Preset,
                                          Settings} \cup TxIds \cup PaymentIds
  BY <1>4 DEF Ids, AccountIds, GoalIds
<1> QED
  BY <1>5, <1>6, <1>7, <1>8, <1>9

-----------------------------------------------------------------------------
(* Which row is in which table, and the links one by one.                  *)

\* Every row is of the table its id says.
LEMMA KindsAre ==
    ASSUME NEW t, Conforms(t), NEW e \in DOMAIN t
    PROVE  /\ e \in AccountIds <=> t[e].is = "account"
           /\ e \in {Costs, Wages} <=> t[e].is = "category"
           /\ e = Rent <=> t[e].is = "commitment"
           /\ e = Salary <=> t[e].is = "income"
           /\ e \in GoalIds <=> t[e].is = "goal"
           /\ e = Visit <=> t[e].is = "event"
           /\ e = Loan <=> t[e].is = "debt"
           /\ e = Preset <=> t[e].is = "preset"
           /\ e = Settings <=> t[e].is = "settings"
           /\ e \in TxIds <=> t[e].is = "tx"
           /\ e \in PaymentIds <=> t[e].is = "payment"
<1>1. /\ e \in AccountIds => t[e].is = "account"
      /\ e \in {Costs, Wages} => t[e].is = "category"
      /\ e = Rent => t[e].is = "commitment"
      /\ e = Salary => t[e].is = "income"
      /\ e \in GoalIds => t[e].is = "goal"
      /\ e = Visit => t[e].is = "event"
      /\ e = Loan => t[e].is = "debt"
      /\ e = Preset => t[e].is = "preset"
      /\ e = Settings => t[e].is = "settings"
      /\ e \in PaymentIds => t[e].is = "payment"
  BY DEF Conforms, Accounts, Categories, Commitments, Incomes, Goals, Events, Debts,
         Defaults, Payments
<1>2. e \in TxIds => t[e].is = "tx"
  BY DEF Conforms, Transactions
<1>3. e \in AccountIds \cup GoalIds \cup {Costs, Wages, Rent, Salary, Visit, Loan, Preset,
                                          Settings} \cup TxIds \cup PaymentIds
  BY IdsApart DEF Conforms
<1> QED
  BY <1>1, <1>2, <1>3

\* The rows of each table.
LEMMA RowsAre ==
    ASSUME NEW t, Conforms(t)
    PROVE  /\ Rows(t, "account") = DOMAIN t \cap AccountIds
           /\ Rows(t, "category") = DOMAIN t \cap {Costs, Wages}
           /\ Rows(t, "commitment") = DOMAIN t \cap {Rent}
           /\ Rows(t, "income") = DOMAIN t \cap {Salary}
           /\ Rows(t, "goal") = DOMAIN t \cap GoalIds
           /\ Rows(t, "event") = DOMAIN t \cap {Visit}
           /\ Rows(t, "debt") = DOMAIN t \cap {Loan}
           /\ Rows(t, "payment") = DOMAIN t \cap PaymentIds
           /\ Txs(t) = DOMAIN t \cap TxIds
BY KindsAre DEF Rows, Txs

\* What a ledger row can be.
LEMMA TxTypes ==
    ASSUME NEW r \in Transactions
    PROVE  /\ r.type \in {"expense", "income", "transfer", "adjustment"}
           /\ r.amt \in Int /\ r.from \in AccountIds /\ r.to \in AccountIds \cup {None}
           /\ r.src \in {"manual", "commitment", "planned-income", "planned-event", "goal",
                         "debt", "adjustment"}
           /\ r.key \in {None, Rent, Salary, FundingOf(Rent), FundingOf(Visit)}
           /\ r.of \in {None, Salary, Visit} \cup GoalIds \cup PaymentIds
           /\ r.type # "adjustment" => r.amt > 0
           /\ r.src = "commitment" => r.amt \in 1..2
           /\ r.src = "manual" /\ r.key = None => r.amt \in 1..2
           /\ r.src \in {"manual", "commitment", "adjustment"} => r.of = None
           /\ r.key \in {FundingOf(Rent), FundingOf(Visit)} => r.src = "manual"
           /\ r.src = "planned-event" => r.of = Visit
           /\ r.src = "goal" => r.of \in GoalIds
           /\ r.src = "debt" => r.of \in PaymentIds
BY DEF Transactions

\* What the rows of the tables can be.
LEMMA FieldsAre ==
    ASSUME NEW t, Conforms(t)
    PROVE  /\ \A a \in AccountIds : a \in DOMAIN t =>
                 t[a].open \in Int /\ t[a].prot \in BOOLEAN /\ t[a].arch \in BOOLEAN
           /\ Rent \in DOMAIN t => t[Rent].acc \in AccountIds /\ t[Rent].active \in BOOLEAN
           /\ Salary \in DOMAIN t =>
                 /\ t[Salary].acc \in AccountIds /\ t[Salary].active \in BOOLEAN
                 /\ t[Salary].amt \in Nat \ {0}
           /\ \A g \in GoalIds : g \in DOMAIN t =>
                 /\ t[g].acc \in AccountIds /\ t[g].sinking \in BOOLEAN
                 /\ t[g].used \in BOOLEAN /\ t[g].arch \in BOOLEAN
                 /\ t[g].target \in Nat \ {0}
           /\ Visit \in DOMAIN t =>
                 /\ t[Visit].acc \in AccountIds /\ t[Visit].goal \in GoalIds \cup {None}
                 /\ t[Visit].paid \in TxIds \cup {None}
           /\ Loan \in DOMAIN t => t[Loan].orig \in Nat \ {0}
                                   /\ t[Loan].status \in {"open", "paid"}
           /\ \A x \in TxIds : x \in DOMAIN t => t[x] \in Transactions
           /\ \A p \in PaymentIds : p \in DOMAIN t =>
                 /\ t[p].debt = Loan /\ t[p].amt \in Nat \ {0}
                 /\ t[p].tx \in TxIds \cup {None}
<1>1. /\ \A a \in AccountIds : a \in DOMAIN t =>
            t[a].open \in Int /\ t[a].prot \in BOOLEAN /\ t[a].arch \in BOOLEAN
      /\ Rent \in DOMAIN t => t[Rent].acc \in AccountIds /\ t[Rent].active \in BOOLEAN
      /\ Salary \in DOMAIN t =>
            /\ t[Salary].acc \in AccountIds /\ t[Salary].active \in BOOLEAN
            /\ t[Salary].amt \in Nat \ {0}
  BY DEF Conforms, Accounts, Commitments, Incomes, Amounts
<1>2. \A g \in GoalIds : g \in DOMAIN t =>
         /\ t[g].acc \in AccountIds /\ t[g].sinking \in BOOLEAN
         /\ t[g].used \in BOOLEAN /\ t[g].arch \in BOOLEAN
         /\ t[g].target \in Nat \ {0}
  BY DEF Conforms, Goals, Amounts
<1>3. Visit \in DOMAIN t =>
         /\ t[Visit].acc \in AccountIds /\ t[Visit].goal \in GoalIds \cup {None}
         /\ t[Visit].paid \in TxIds \cup {None}
  BY DEF Conforms, Events
<1>4. /\ Loan \in DOMAIN t => t[Loan].orig \in Nat \ {0} /\ t[Loan].status \in {"open", "paid"}
      /\ \A p \in PaymentIds : p \in DOMAIN t =>
            t[p].debt = Loan /\ t[p].amt \in Nat \ {0} /\ t[p].tx \in TxIds \cup {None}
  BY DEF Conforms, Debts, Payments, Amounts
<1>5. \A x \in TxIds : x \in DOMAIN t => t[x] \in Transactions
  BY DEF Conforms
<1> QED
  BY <1>1, <1>2, <1>3, <1>4, <1>5

\* No row is None.
LEMMA NoneIsNoRow ==
    ASSUME NEW t, Conforms(t)
    PROVE  \A e \in DOMAIN t : t[e] # None
<1>1. /\ None \notin Accounts /\ None \notin Categories /\ None \notin Commitments
      /\ None \notin Incomes /\ None \notin Goals /\ None \notin Events /\ None \notin Debts
      /\ None \notin Defaults("preset") /\ None \notin Defaults("settings")
      /\ None \notin Payments /\ None \notin Transactions
  BY FinanceAssumption, Zenon DEF FinanceAssumption
<1>2. \A e \in DOMAIN t : e \in AccountIds \cup GoalIds \cup {Costs, Wages, Rent, Salary,
                                 Visit, Loan, Preset, Settings} \cup TxIds \cup PaymentIds
  BY IdsApart DEF Conforms
<1>3. \A e \in DOMAIN t :
         t[e] \in Accounts \/ t[e] \in Categories \/ t[e] \in Commitments \/ t[e] \in Incomes
         \/ t[e] \in Goals \/ t[e] \in Events \/ t[e] \in Debts \/ t[e] \in Defaults("preset")
         \/ t[e] \in Defaults("settings") \/ t[e] \in Payments \/ t[e] \in Transactions
  BY <1>2 DEF Conforms
<1> QED
  BY <1>1, <1>3

\* The links, as the ids show them.
TxAccounts(t) ==
    \A x \in TxIds : x \in DOMAIN t =>
       /\ t[x].from \in DOMAIN t
       /\ t[x].type = "transfer" => t[x].to \in DOMAIN t /\ t[x].to # t[x].from
PlanAccounts(t) ==
    /\ Rent \in DOMAIN t => t[Rent].acc \in DOMAIN t
    /\ Salary \in DOMAIN t => t[Salary].acc \in DOMAIN t
    /\ \A g \in GoalIds : g \in DOMAIN t => t[g].acc \in DOMAIN t
    /\ Visit \in DOMAIN t => t[Visit].acc \in DOMAIN t
    /\ Preset \in DOMAIN t /\ t[Preset].acc # None => t[Preset].acc \in DOMAIN t
    /\ Settings \in DOMAIN t /\ t[Settings].acc # None => t[Settings].acc \in DOMAIN t
KeysApart(t) ==
    \A x, y \in TxIds : x \in DOMAIN t /\ y \in DOMAIN t =>
       (t[x].key # None /\ t[x].key = t[y].key => x = y)
Realized(t) ==
    \A x \in TxIds : x \in DOMAIN t =>
       /\ t[x].src = "commitment" => t[x].key = Rent /\ Rent \in DOMAIN t
       /\ t[x].src = "planned-income" <=> t[x].of = Salary
       /\ t[x].of = Salary => Salary \in DOMAIN t /\ t[x].key = Salary
       /\ t[x].src = "goal" => t[x].of \in DOMAIN t /\ t[x].to = t[t[x].of].acc
FundingFits(t, f) ==
    /\ t[t[f].from].prot /\ ~t[t[f].to].prot
    /\ \E x \in TxIds : /\ x \in DOMAIN t /\ t[x].key = Rent /\ t[x].src = "commitment"
                        /\ t[x].from = t[f].to /\ t[x].amt = t[f].amt
Funded(t) ==
    \A f \in TxIds : f \in DOMAIN t /\ t[f].key = FundingOf(Rent) => FundingFits(t, f)
EventFits(t) ==
    /\ \A x \in TxIds : x \in DOMAIN t /\ t[x].src = "planned-event" =>
          Visit \in DOMAIN t /\ t[Visit].paid = x
    /\ Visit \in DOMAIN t =>
          /\ t[Visit].goal # None => t[Visit].goal \in DOMAIN t
          /\ t[Visit].paid # None => t[Visit].paid \in DOMAIN t /\ t[t[Visit].paid].of = Visit
GoalFits(t) ==
    \A g \in GoalIds : g \in DOMAIN t =>
       /\ t[t[g].acc].prot
       /\ \A h \in GoalIds : h \in DOMAIN t /\ t[h].acc = t[g].acc => h = g
       /\ t[g].used =>
             /\ t[g].sinking /\ Visit \in DOMAIN t /\ t[Visit].goal = g
             /\ t[Visit].acc = t[g].acc /\ t[Visit].paid # None
RepaymentFits(t) ==
    /\ \A x \in TxIds : x \in DOMAIN t /\ t[x].src = "debt" =>
          t[x].of \in DOMAIN t /\ t[t[x].of].tx = x /\ t[t[x].of].amt = t[x].amt
    /\ \A p \in PaymentIds : p \in DOMAIN t =>
          /\ Loan \in DOMAIN t
          /\ t[p].tx # None => t[p].tx \in DOMAIN t /\ t[t[p].tx].of = p
NotOverpaid(t) == Loan \in DOMAIN t => Paid(t, Loan) <= t[Loan].orig
Flat(t) ==
    /\ TxAccounts(t) /\ PlanAccounts(t) /\ KeysApart(t) /\ Realized(t) /\ Funded(t)
    /\ EventFits(t) /\ GoalFits(t) /\ RepaymentFits(t) /\ NotOverpaid(t)

\* They are the rules.
LEMMA FlatIs ==
    ASSUME NEW t, Conforms(t)
    PROVE  Linked(t) <=> Flat(t)
<1>1. AccountsKnown(t) <=> TxAccounts(t) /\ PlanAccounts(t)
  <2>1. (\A x \in Txs(t) :
          /\ t[x].from \in DOMAIN t
          /\ t[x].type = "transfer" => t[x].to \in DOMAIN t /\ t[x].to # t[x].from)
        <=> TxAccounts(t)
    BY RowsAre DEF TxAccounts
  <2>2. (/\ \A e \in DOMAIN t :
             t[e].is \in {"commitment", "income", "goal", "event"} => t[e].acc \in DOMAIN t
         /\ \A e \in DOMAIN t :
             t[e].is \in {"preset", "settings"} /\ t[e].acc # None => t[e].acc \in DOMAIN t)
        <=> PlanAccounts(t)
    BY KindsAre DEF PlanAccounts
  <2> QED
    BY <2>1, <2>2 DEF AccountsKnown
<1>2. KeysUnique(t) <=> KeysApart(t)
  BY RowsAre DEF KeysUnique, KeysApart
<1>3. PlansRealized(t) <=> Realized(t)
  BY RowsAre DEF PlansRealized, Realized
<1>4. FundingPaired(t) <=> Funded(t)
  <2>1. \A f \in TxIds : f \in DOMAIN t =>
          ((\E x \in Keyed(t, Rent) :
              t[x].src = "commitment" /\ t[x].from = t[f].to /\ t[x].amt = t[f].amt)
           <=> \E x \in TxIds : /\ x \in DOMAIN t /\ t[x].key = Rent
                                /\ t[x].src = "commitment"
                                /\ t[x].from = t[f].to /\ t[x].amt = t[f].amt)
    BY RowsAre DEF Keyed
  <2>2. Keyed(t, FundingOf(Rent))
          = {f \in TxIds : f \in DOMAIN t /\ t[f].key = FundingOf(Rent)}
    BY RowsAre DEF Keyed
  <2> QED
    BY <2>1, <2>2 DEF FundingPaired, Funded, FundingFits
<1>5. EventsPaired(t) <=> EventFits(t)
  <2>1. \A x \in TxIds : x \in DOMAIN t /\ t[x].src = "planned-event" => t[x].of = Visit
    BY FieldsAre, TxTypes
  <2>2. Rows(t, "event") = DOMAIN t \cap {Visit} /\ Txs(t) = DOMAIN t \cap TxIds
    BY RowsAre
  <2> QED
    BY <2>1, <2>2 DEF EventsPaired, EventFits
<1>6. GoalsKept(t) <=> GoalFits(t)
  <2>1. Rows(t, "event") = DOMAIN t \cap {Visit} /\ Rows(t, "goal") = DOMAIN t \cap GoalIds
    BY RowsAre
  <2> QED
    BY <2>1 DEF GoalsKept, GoalFits
<1>7. DebtsPaired(t) <=> RepaymentFits(t) /\ NotOverpaid(t)
  <2>1. /\ Txs(t) = DOMAIN t \cap TxIds /\ Rows(t, "payment") = DOMAIN t \cap PaymentIds
        /\ Rows(t, "debt") = DOMAIN t \cap {Loan}
    BY RowsAre
  <2>2. \A p \in PaymentIds : p \in DOMAIN t => t[p].debt = Loan
    BY FieldsAre
  <2> QED
    BY <2>1, <2>2 DEF DebtsPaired, RepaymentFits, NotOverpaid
<1> QED
  BY <1>1, <1>2, <1>3, <1>4, <1>5, <1>6, <1>7 DEF Linked, Flat

-----------------------------------------------------------------------------
(* Repayments and balances.                                                *)

\* Every repayment is of the one debt.
LEMMA PaidIs ==
    ASSUME NEW t, Conforms(t)
    PROVE  Paid(t, Loan) = SumFunction([p \in DOMAIN t \cap PaymentIds |-> t[p].amt])
<1>1. {q \in Rows(t, "payment") : t[q].debt = Loan} = DOMAIN t \cap PaymentIds
  BY RowsAre, FieldsAre
<1> QED
  BY <1>1 DEF Paid

\* The same repayments make the same sum.
LEMMA PaidSame ==
    ASSUME NEW t, Conforms(t), NEW new, Conforms(new),
           \A p \in PaymentIds : p \in DOMAIN new <=> p \in DOMAIN t,
           \A p \in PaymentIds : p \in DOMAIN t => new[p].amt = t[p].amt
    PROVE  Paid(new, Loan) = Paid(t, Loan)
<1>1. DOMAIN new \cap PaymentIds = DOMAIN t \cap PaymentIds
  OBVIOUS
<1>2. [p \in DOMAIN new \cap PaymentIds |-> new[p].amt]
        = [p \in DOMAIN t \cap PaymentIds |-> t[p].amt]
  BY <1>1
<1> QED
  BY <1>2, PaidIs

\* A sum of repayments is a number.
LEMMA PaidType ==
    ASSUME NEW t, Conforms(t), IsFiniteSet(DOMAIN t)
    PROVE  Paid(t, Loan) \in Int
<1> DEFINE D == DOMAIN t \cap PaymentIds
           f == [p \in D |-> t[p].amt]
<1>1. IsFiniteSet(D)
  BY FS_Intersection
<1>2. \A p \in D : f[p] \in Int
  BY FieldsAre
<1>3. DOMAIN f = D
  OBVIOUS
<1>4. Paid(t, Loan) = SumFunction(f)
  BY PaidIs
<1> HIDE DEF f, D
<1> QED
  BY <1>1, <1>2, <1>3, <1>4, SumTakes DEF SumFunction

\* One repayment more.
LEMMA PaidAdds ==
    ASSUME NEW t, Conforms(t), IsFiniteSet(DOMAIN t), NEW new, Conforms(new),
           NEW p \in PaymentIds, p \notin DOMAIN t, p \in DOMAIN new,
           \A q \in PaymentIds : q # p => (q \in DOMAIN new <=> q \in DOMAIN t),
           \A q \in PaymentIds : q \in DOMAIN t => new[q].amt = t[q].amt
    PROVE  Paid(new, Loan) = Paid(t, Loan) + new[p].amt
<1> DEFINE D == DOMAIN t \cap PaymentIds
           f == [q \in D |-> t[q].amt]
           h == [q \in D \cup {p} |-> new[q].amt]
<1>1. IsFiniteSet(D) /\ p \notin D
  BY FS_Intersection
<1>2. f \in [D -> Int]
  BY FieldsAre
<1>3. DOMAIN new \cap PaymentIds = D \cup {p}
  OBVIOUS
<1>4. h \in [D \cup {p} -> Int]
  BY <1>3, FieldsAre
<1>5. \A q \in D : h[q] = f[q]
  OBVIOUS
<1>6. Paid(t, Loan) = SumFunction(f)
  BY PaidIs
<1>7. Paid(new, Loan) = SumFunction(h)
  BY <1>3, PaidIs
<1>8. h[p] = new[p].amt /\ h[p] \in Int
  BY <1>4
<1> HIDE DEF f, h, D
<1>9. SumFunction(h) = h[p] + SumFunction(f) /\ SumFunction(f) \in Int
  BY ONLY <1>1, <1>2, <1>4, <1>5, SumGrows
<1> QED
  BY <1>6, <1>7, <1>8, <1>9

\* What one row does to an account is an integer.
LEMMA EffectType ==
    ASSUME NEW r \in Transactions, NEW acc
    PROVE  Effect(r, acc) \in Int
BY TxTypes DEF Effect

\* A balance adds up over the ledger.
LEMMA BalanceIs ==
    ASSUME NEW t, Conforms(t), NEW acc
    PROVE  Balance(t, acc)
             = t[acc].open + SumFunction([x \in DOMAIN t \cap TxIds |-> Effect(t[x], acc)])
<1>1. Txs(t) = DOMAIN t \cap TxIds
  BY RowsAre
<1> QED
  BY <1>1 DEF Balance

\* Rows that do the same to an account leave its balance.
LEMMA BalanceSame ==
    ASSUME NEW t, Conforms(t), NEW new, Conforms(new), NEW acc,
           new[acc].open = t[acc].open,
           \A x \in TxIds : x \in DOMAIN new <=> x \in DOMAIN t,
           \A x \in TxIds : x \in DOMAIN t => Effect(new[x], acc) = Effect(t[x], acc)
    PROVE  Balance(new, acc) = Balance(t, acc)
<1>1. DOMAIN new \cap TxIds = DOMAIN t \cap TxIds
  OBVIOUS
<1>2. [x \in DOMAIN new \cap TxIds |-> Effect(new[x], acc)]
        = [x \in DOMAIN t \cap TxIds |-> Effect(t[x], acc)]
  BY <1>1
<1> QED
  BY <1>2, BalanceIs

\* A balance is an integer.
LEMMA BalanceType ==
    ASSUME NEW t, Conforms(t), IsFiniteSet(DOMAIN t), NEW acc, t[acc].open \in Int
    PROVE  Balance(t, acc) \in Int
<1> DEFINE D == DOMAIN t \cap TxIds
           f == [x \in D |-> Effect(t[x], acc)]
<1>1. IsFiniteSet(D)
  BY FS_Intersection
<1>2. \A x \in D : f[x] \in Int
  BY FieldsAre, EffectType
<1>3. DOMAIN f = D
  OBVIOUS
<1>4. Balance(t, acc) = t[acc].open + SumFunction(f)
  BY BalanceIs
<1> HIDE DEF f, D
<1>5. SumFunction(f) \in Int
  BY <1>1, <1>2, <1>3, SumTakes DEF SumFunction
<1> QED
  BY <1>4, <1>5

\* One row more.
LEMMA BalanceAdds ==
    ASSUME NEW t, Conforms(t), IsFiniteSet(DOMAIN t), NEW new, Conforms(new), NEW acc,
           t[acc].open \in Int, new[acc].open = t[acc].open,
           NEW x \in TxIds, x \notin DOMAIN t, x \in DOMAIN new,
           \A y \in TxIds : y # x => (y \in DOMAIN new <=> y \in DOMAIN t),
           \A y \in TxIds : y \in DOMAIN t => new[y] = t[y]
    PROVE  Balance(new, acc) = Balance(t, acc) + Effect(new[x], acc)
<1> DEFINE D == DOMAIN t \cap TxIds
           f == [y \in D |-> Effect(t[y], acc)]
           h == [y \in D \cup {x} |-> Effect(new[y], acc)]
<1>1. IsFiniteSet(D) /\ x \notin D
  BY FS_Intersection
<1>2. f \in [D -> Int]
  BY FieldsAre, EffectType
<1>3. DOMAIN new \cap TxIds = D \cup {x}
  OBVIOUS
<1>4. h \in [D \cup {x} -> Int]
  BY <1>3, FieldsAre, EffectType
<1>5. \A y \in D : h[y] = f[y]
  OBVIOUS
<1>6. Balance(t, acc) = t[acc].open + SumFunction(f)
  BY BalanceIs
<1>7. Balance(new, acc) = t[acc].open + SumFunction(h)
  BY <1>3, BalanceIs
<1>8. h[x] = Effect(new[x], acc) /\ h[x] \in Int
  BY <1>4
<1> HIDE DEF f, h, D
<1>9. SumFunction(h) = h[x] + SumFunction(f) /\ SumFunction(f) \in Int
  BY ONLY <1>1, <1>2, <1>4, <1>5, SumGrows
<1> QED
  BY <1>6, <1>7, <1>8, <1>9

\* Not below zero.
LEMMA MaxZero ==
    ASSUME NEW n \in Int
    PROVE  Max({0, n}) = IF n > 0 THEN n ELSE 0
<1>1. \E x \in {0, n} : \A y \in {0, n} : x >= y
  <2>1. CASE n > 0
    BY <2>1
  <2>2. CASE ~(n > 0)
    BY <2>2
  <2> QED
    BY <2>1, <2>2
<1>2. Max({0, n}) \in {0, n} /\ \A y \in {0, n} : Max({0, n}) >= y
  BY <1>1 DEF Max
<1> QED
  BY <1>2

-----------------------------------------------------------------------------
(* Rows that are written.                                                  *)

\* A row its table may hold.
RowOk(e, v) ==
    /\ e \in AccountIds => v \in Accounts
    /\ e \in {Costs, Wages} => v \in Categories
    /\ e = Rent => v \in Commitments
    /\ e = Salary => v \in Incomes
    /\ e \in GoalIds => v \in Goals
    /\ e = Visit => v \in Events
    /\ e = Loan => v \in Debts
    /\ e = Preset => v \in Defaults("preset")
    /\ e = Settings => v \in Defaults("settings")
    /\ e \in TxIds => v \in Transactions
    /\ e \in PaymentIds => v \in Payments

\* Tables of such rows.
LEMMA ConformsIs ==
    ASSUME NEW t
    PROVE  Conforms(t) <=> DOMAIN t \subseteq Ids /\ \A e \in DOMAIN t : RowOk(e, t[e])
BY DEF Conforms, RowOk

\* The id decides what is left to show of a row.
LEMMA RowOkIs ==
    ASSUME NEW v
    PROVE  /\ \A e \in AccountIds : e \in Ids /\ (v \in Accounts => RowOk(e, v))
           /\ \A e \in {Costs, Wages} : e \in Ids /\ (v \in Categories => RowOk(e, v))
           /\ Rent \in Ids /\ (v \in Commitments => RowOk(Rent, v))
           /\ Salary \in Ids /\ (v \in Incomes => RowOk(Salary, v))
           /\ \A e \in GoalIds : e \in Ids /\ (v \in Goals => RowOk(e, v))
           /\ Visit \in Ids /\ (v \in Events => RowOk(Visit, v))
           /\ Loan \in Ids /\ (v \in Debts => RowOk(Loan, v))
           /\ Preset \in Ids /\ (v \in Defaults("preset") => RowOk(Preset, v))
           /\ Settings \in Ids /\ (v \in Defaults("settings") => RowOk(Settings, v))
           /\ \A e \in TxIds : e \in Ids /\ (v \in Transactions => RowOk(e, v))
           /\ \A e \in PaymentIds : e \in Ids /\ (v \in Payments => RowOk(e, v))
BY IdsApart, NamesApart DEF RowOk

\* A table: a function on finitely many ids, of rows that fit.
Table(t) == t = [e \in DOMAIN t |-> t[e]] /\ IsFiniteSet(DOMAIN t) /\ Conforms(t)

\* Writing a row that fits leaves a table.
LEMMA PutTable ==
    ASSUME NEW t, Table(t), NEW e, e \in Ids, NEW v, RowOk(e, v)
    PROVE  Table(Put(t, e, v))
<1> DEFINE n == Put(t, e, v)
<1>1. /\ DOMAIN n = DOMAIN t \cup {e} /\ n[e] = v
      /\ \A x \in DOMAIN t : x # e => n[x] = t[x]
      /\ n = [x \in DOMAIN n |-> n[x]]
  BY DEF Put
<1> HIDE DEF n
<1>2. IsFiniteSet(DOMAIN t \cup {e})
  BY FS_AddElement DEF Table
<1>3. Conforms(n)
  BY <1>1, ConformsIs DEF Table
<1> QED
  BY <1>1, <1>2, <1>3 DEF Table, n

\* Rows that are deleted leave a table.
LEMMA DeleteTable ==
    ASSUME NEW t, Table(t), NEW gone
    PROVE  Table(Delete(t, gone))
<1> DEFINE n == Delete(t, gone)
<1>1. /\ DOMAIN n = DOMAIN t \ gone
      /\ \A x \in DOMAIN t : x \notin gone => n[x] = t[x]
      /\ n = [x \in DOMAIN n |-> n[x]]
  BY DeleteIs
<1> HIDE DEF n
<1>2. IsFiniteSet(DOMAIN t \ gone)
  BY FS_Subset DEF Table
<1>3. Conforms(n)
  BY <1>1, ConformsIs DEF Table
<1> QED
  BY <1>1, <1>2, <1>3 DEF Table, n

Good(t) == Table(t) /\ Flat(t)

\* What a new ledger row must be for the links to hold with it: Listed has
\* the conditions that do not ask for other rows to be written with it.
Listed(t, r) ==
    /\ r.from \in DOMAIN t
    /\ r.type = "transfer" => r.to \in DOMAIN t /\ r.to # r.from
    /\ r.key # None => \A y \in TxIds : y \in DOMAIN t => t[y].key # r.key
    /\ r.src = "commitment" => r.key = Rent /\ Rent \in DOMAIN t
    /\ r.src = "planned-income" <=> r.of = Salary
    /\ r.of = Salary => Salary \in DOMAIN t /\ r.key = Salary
    /\ r.src = "goal" => r.of \in DOMAIN t /\ r.to = t[r.of].acc
    /\ r.key = FundingOf(Rent) =>
          /\ t[r.from].prot /\ ~t[r.to].prot
          /\ \E x \in TxIds : /\ x \in DOMAIN t /\ t[x].key = Rent /\ t[x].src = "commitment"
                              /\ t[x].from = r.to /\ t[x].amt = r.amt

\* The tables with one more ledger row.
LEMMA AddTx ==
    ASSUME NEW t, Good(t), NEW x \in TxIds, x \notin DOMAIN t, NEW r \in Transactions,
           Listed(t, r)
    PROVE  LET new == Put(t, x, r) IN
           /\ Table(new) /\ TxAccounts(new) /\ PlanAccounts(new) /\ KeysApart(new)
           /\ Realized(new) /\ Funded(new) /\ GoalFits(new) /\ NotOverpaid(new)
           /\ r.src # "planned-event" => EventFits(new)
           /\ r.src # "debt" => RepaymentFits(new)
<1> DEFINE n == Put(t, x, r)
<1>1. /\ DOMAIN n = DOMAIN t \cup {x} /\ n[x] = r
      /\ \A y \in DOMAIN t : n[y] = t[y]
  BY DEF Put
<1>2. Table(n)
  BY PutTable, RowOkIs DEF Good
<1> HIDE DEF n
<1>3. Table(t) /\ Conforms(t) /\ Conforms(n) /\ Flat(t)
  BY <1>2 DEF Good, Table
<1>4. /\ x \notin AccountIds \cup GoalIds \cup PaymentIds
      /\ x \notin {Rent, Salary, Visit, Loan, Preset, Settings, None}
  BY IdsApart
<1>5. TxAccounts(n)
  BY <1>1, <1>3 DEF Flat, TxAccounts, Listed
<1>6. PlanAccounts(n)
  BY <1>1, <1>3, <1>4 DEF Flat, PlanAccounts
<1>7. KeysApart(n)
  BY <1>1, <1>3 DEF Flat, KeysApart, Listed
<1>8. Realized(n)
  <2>1. ASSUME NEW y \in TxIds, y \in DOMAIN t
        PROVE  /\ n[y].src = "commitment" => n[y].key = Rent /\ Rent \in DOMAIN n
               /\ n[y].src = "planned-income" <=> n[y].of = Salary
               /\ n[y].of = Salary => Salary \in DOMAIN n /\ n[y].key = Salary
               /\ n[y].src = "goal" => n[y].of \in DOMAIN n /\ n[y].to = n[n[y].of].acc
    BY <1>1, <1>3, <2>1 DEF Flat, Realized
  <2>2. /\ r.src = "commitment" => r.key = Rent /\ Rent \in DOMAIN n
        /\ r.src = "planned-income" <=> r.of = Salary
        /\ r.of = Salary => Salary \in DOMAIN n /\ r.key = Salary
        /\ r.src = "goal" => r.of \in DOMAIN n /\ r.to = n[r.of].acc
    BY <1>1 DEF Listed
  <2> QED
    BY <1>1, <2>1, <2>2 DEF Realized
<1>9. Funded(n)
  <2> SUFFICES ASSUME NEW f \in TxIds, f \in DOMAIN n, n[f].key = FundingOf(Rent)
               PROVE  FundingFits(n, f)
    BY DEF Funded
  <2>1. CASE f = x
    <3>1. PICK y \in TxIds : /\ y \in DOMAIN t /\ t[y].key = Rent /\ t[y].src = "commitment"
                             /\ t[y].from = r.to /\ t[y].amt = r.amt
      BY <1>1, <2>1 DEF Listed
    <3>2. t[y].from \in DOMAIN t /\ r.from \in DOMAIN t
      BY <1>3, <3>1 DEF Flat, TxAccounts, Listed
    <3>3. t[r.from].prot /\ ~t[r.to].prot
      BY <1>1, <2>1 DEF Listed
    <3> QED
      BY <1>1, <2>1, <3>1, <3>2, <3>3 DEF FundingFits
  <2>2. CASE f # x
    <3>1. f \in DOMAIN t /\ t[f].key = FundingOf(Rent) /\ n[f] = t[f]
      BY <1>1, <2>2
    <3>2. FundingFits(t, f)
      BY <1>3, <3>1 DEF Flat, Funded
    <3>3. PICK y \in TxIds : /\ y \in DOMAIN t /\ t[y].key = Rent /\ t[y].src = "commitment"
                             /\ t[y].from = t[f].to /\ t[y].amt = t[f].amt
      BY <3>2 DEF FundingFits
    <3>4. t[y].from \in DOMAIN t /\ t[f].from \in DOMAIN t
      BY <1>3, <3>1, <3>3 DEF Flat, TxAccounts
    <3> QED
      BY <1>1, <3>1, <3>2, <3>3, <3>4 DEF FundingFits
  <2> QED
    BY <2>1, <2>2
<1>10. GoalFits(n)
  <2>1. \A g \in GoalIds : g \in DOMAIN n => g \in DOMAIN t /\ n[g] = t[g]
                                             /\ t[g].acc \in DOMAIN t
    BY <1>1, <1>3, <1>4 DEF Flat, PlanAccounts
  <2>2. Visit \in DOMAIN t => n[Visit] = t[Visit] /\ Visit \in DOMAIN n
    BY <1>1
  <2> QED
    BY <1>1, <1>3, <2>1, <2>2 DEF Flat, GoalFits
<1>11. NotOverpaid(n)
  <2>1. Paid(n, Loan) = Paid(t, Loan)
    BY <1>1, <1>3, <1>4, PaidSame
  <2> QED
    BY <1>1, <1>3, <1>4, <2>1 DEF Flat, NotOverpaid
<1>12. r.src # "planned-event" => EventFits(n)
  BY <1>1, <1>3, <1>4 DEF Flat, EventFits
<1>13. r.src # "debt" => RepaymentFits(n)
  BY <1>1, <1>3, <1>4 DEF Flat, RepaymentFits
<1> QED
  BY <1>2, <1>5, <1>6, <1>7, <1>8, <1>9, <1>10, <1>11, <1>12, <1>13 DEF n

\* A ledger row, field by field.
TxRow(type, amt, from, to, src, key, of) ==
    [is |-> "tx", type |-> type, amt |-> amt, from |-> from, to |-> to,
     src |-> src, key |-> key, of |-> of]

\* It is what the commands write with EXCEPT.
LEMMA TxRowIs ==
    ASSUME NEW type, NEW amt, NEW from, NEW to, NEW src, NEW key, NEW of
    PROVE  [Tx(type, amt, from, to, src) EXCEPT !.key = key, !.of = of]
                = TxRow(type, amt, from, to, src, key, of)
<1>1. [Tx(type, amt, from, to, src) EXCEPT !.key = key]
        = TxRow(type, amt, from, to, src, key, None)
  BY DEF Tx, TxRow
<1>2. [Tx(type, amt, from, to, src) EXCEPT !.key = key, !.of = of]
        = [[Tx(type, amt, from, to, src) EXCEPT !.key = key] EXCEPT !.of = of]
  OBVIOUS
<1>3. [TxRow(type, amt, from, to, src, key, None) EXCEPT !.of = of]
        = TxRow(type, amt, from, to, src, key, of)
  BY DEF TxRow
<1> QED
  BY <1>1, <1>2, <1>3

\* Such a row is one the ledger may hold.
LEMMA TxRowOk ==
    ASSUME NEW type \in {"expense", "income", "transfer", "adjustment"}, NEW amt \in Int,
           NEW from \in AccountIds, NEW to \in AccountIds \cup {None},
           NEW src \in {"manual", "commitment", "planned-income", "planned-event", "goal",
                        "debt", "adjustment"},
           NEW key \in {None, Rent, Salary, FundingOf(Rent), FundingOf(Visit)},
           NEW of \in {None, Salary, Visit} \cup GoalIds \cup PaymentIds,
           type # "adjustment" => amt > 0,
           src = "commitment" => amt \in 1..2,
           src = "manual" /\ key = None => amt \in 1..2,
           src \in {"manual", "commitment", "adjustment"} => of = None,
           key \in {FundingOf(Rent), FundingOf(Visit)} => src = "manual",
           src = "planned-event" => of = Visit,
           src = "goal" => of \in GoalIds,
           src = "debt" => of \in PaymentIds
    PROVE  TxRow(type, amt, from, to, src, key, of) \in Transactions
BY DEF TxRow, Transactions

\* Its fields.
LEMMA TxRowFields ==
    ASSUME NEW type, NEW amt, NEW from, NEW to, NEW src, NEW key, NEW of
    PROVE  LET r == TxRow(type, amt, from, to, src, key, of) IN
           /\ r.is = "tx" /\ r.type = type /\ r.amt = amt /\ r.from = from /\ r.to = to
           /\ r.src = src /\ r.key = key /\ r.of = of
BY DEF TxRow

-----------------------------------------------------------------------------
(* What a command may do.                                                  *)

Ready(d) ==
    /\ d \in Devices /\ Good(db[d]) /\ Numbered(DOMAIN db[d], made)
    /\ made \in [Devices -> Nat]

\* Accounts it lowers stay above zero, and the debt's mark stays right.
Solvent(t, new) ==
    \A acc \in Rows(t, "account") \cap Rows(new, "account") :
       Balance(new, acc) < Balance(t, acc) => Balance(new, acc) >= 0
StatusKept(t, new) == StatusRight(t) => StatusRight(new)
Step(d, new) ==
    /\ Good(new)
    /\ DOMAIN new \cap (TxIds \cup PaymentIds)
         \subseteq DOMAIN db[d] \cup {NewTx(d), NewFunding(d), NewPayment(d)}
    /\ Solvent(db[d], new) /\ StatusKept(db[d], new)

\* The ids of new rows are new.
LEMMA NewIds ==
    ASSUME NEW d, Ready(d)
    PROVE  /\ NewTx(d) \in TxIds /\ NewFunding(d) \in TxIds /\ NewPayment(d) \in PaymentIds
           /\ NewTx(d) # NewFunding(d)
           /\ NewTx(d) \notin DOMAIN db[d] /\ NewFunding(d) \notin DOMAIN db[d]
           /\ NewPayment(d) \notin DOMAIN db[d]
<1>1. made[d] \in Nat /\ d \in Devices
  BY DEF Ready
<1>2. /\ NewTx(d) = <<"tx", d, made[d] + 1>> /\ NewFunding(d) = <<"funding", d, made[d] + 1>>
      /\ NewPayment(d) = <<"payment", d, made[d] + 1>>
  BY DEF NewTx, NewFunding, NewPayment
<1>3. /\ NewTx(d) \in TxIds /\ NewFunding(d) \in TxIds /\ NewPayment(d) \in PaymentIds
      /\ NewTx(d) # NewFunding(d)
  BY <1>1, <1>2 DEF TxIds, PaymentIds
<1>4. ASSUME NEW e \in TxIds \cup PaymentIds, e \in DOMAIN db[d], e[2] = d
      PROVE  e[3] <= made[d]
  BY <1>1, <1>4 DEF Ready, Numbered
<1>5. /\ NewTx(d)[2] = d /\ NewTx(d)[3] = made[d] + 1
      /\ NewFunding(d)[2] = d /\ NewFunding(d)[3] = made[d] + 1
      /\ NewPayment(d)[2] = d /\ NewPayment(d)[3] = made[d] + 1
  BY <1>2
<1>6. ~(made[d] + 1 <= made[d])
  BY <1>1
<1> QED
  BY <1>3, <1>4, <1>5, <1>6

\* Nothing about the ledger and the accounts' openings: no account is lowered.
LEMMA SolventSame ==
    ASSUME NEW t, Table(t), NEW new, Table(new),
           \A acc \in AccountIds : acc \in DOMAIN t /\ acc \in DOMAIN new =>
              new[acc].open = t[acc].open,
           \A x \in TxIds : x \in DOMAIN new <=> x \in DOMAIN t,
           \A x \in TxIds : x \in DOMAIN t =>
              /\ new[x].amt = t[x].amt /\ new[x].type = t[x].type
              /\ new[x].from = t[x].from /\ new[x].to = t[x].to
    PROVE  Solvent(t, new)
<1> SUFFICES ASSUME NEW acc \in Rows(t, "account") \cap Rows(new, "account")
             PROVE  ~(Balance(new, acc) < Balance(t, acc))
  BY DEF Solvent
<1>1. acc \in AccountIds /\ acc \in DOMAIN t /\ acc \in DOMAIN new
  BY RowsAre DEF Table
<1>2. \A x \in TxIds : x \in DOMAIN t => Effect(new[x], acc) = Effect(t[x], acc)
  BY DEF Effect
<1>3. Balance(new, acc) = Balance(t, acc)
  BY <1>1, <1>2, BalanceSame DEF Table
<1>4. Balance(t, acc) \in Int
  BY <1>1, BalanceType, FieldsAre DEF Table
<1> QED
  BY <1>3, <1>4

\* Nothing about repayments: the mark is as right as it was.
LEMMA StatusSame ==
    ASSUME NEW t, Table(t), NEW new, Table(new),
           \A p \in PaymentIds : p \in DOMAIN new <=> p \in DOMAIN t,
           \A p \in PaymentIds : p \in DOMAIN t => new[p].amt = t[p].amt,
           Loan \in DOMAIN new => Loan \in DOMAIN t /\ new[Loan] = t[Loan]
    PROVE  StatusKept(t, new)
<1>1. Paid(new, Loan) = Paid(t, Loan)
  BY PaidSame DEF Table
<1> QED
  BY <1>1 DEF StatusKept, StatusRight

\* One ledger row more, on the balance of an account.
LEMMA AddTxBalance ==
    ASSUME NEW t, Good(t), NEW x \in TxIds, x \notin DOMAIN t, NEW r \in Transactions,
           NEW acc \in AccountIds, acc \in DOMAIN t
    PROVE  /\ Balance(t, acc) \in Int /\ Effect(r, acc) \in Int
           /\ Balance(Put(t, x, r), acc) = Balance(t, acc) + Effect(r, acc)
<1> DEFINE n == Put(t, x, r)
<1>1. /\ DOMAIN n = DOMAIN t \cup {x} /\ n[x] = r
      /\ \A y \in DOMAIN t : n[y] = t[y]
  BY DEF Put
<1>2. Table(n)
  BY PutTable, RowOkIs DEF Good
<1> HIDE DEF n
<1>3. t[acc].open \in Int /\ n[acc].open = t[acc].open
  BY <1>1, FieldsAre DEF Table, Good
<1>4. Balance(t, acc) \in Int /\ Effect(r, acc) \in Int
  BY <1>3, BalanceType, EffectType DEF Table, Good
<1>5. \A y \in TxIds : y # x => (y \in DOMAIN n <=> y \in DOMAIN t)
  BY <1>1
<1>6. Balance(n, acc) = Balance(t, acc) + Effect(n[x], acc)
  BY <1>1, <1>2, <1>3, <1>5, BalanceAdds DEF Table, Good
<1> QED
  BY <1>1, <1>4, <1>6 DEF n

\* A command that adds one ledger row.
LEMMA AddTxStep ==
    ASSUME NEW d, Ready(d), NEW x \in {NewTx(d), NewFunding(d)}, NEW r \in Transactions,
           Listed(db[d], r), r.src \notin {"planned-event", "debt"},
           \A acc \in AccountIds : acc \in DOMAIN db[d] /\ Effect(r, acc) < 0 =>
              Balance(db[d], acc) + Effect(r, acc) >= 0
    PROVE  Step(d, Put(db[d], x, r))
<1> DEFINE t == db[d]
           n == Put(t, x, r)
<1>1. Good(t) /\ x \in TxIds /\ x \notin DOMAIN t
  BY NewIds DEF Ready
<1>2. Good(n)
  <2> HIDE DEF t
  <2>1. Listed(t, r)
    BY DEF t
  <2> QED
    BY <1>1, <2>1, AddTx DEF Good, Flat
<1>3. /\ DOMAIN n = DOMAIN t \cup {x} /\ n[x] = r
      /\ \A y \in DOMAIN t : n[y] = t[y]
  BY <1>1 DEF Put
<1>4. \A acc \in AccountIds : acc \in DOMAIN t /\ Effect(r, acc) < 0 =>
              Balance(t, acc) + Effect(r, acc) >= 0
  OBVIOUS
<1>5. DOMAIN n \cap (TxIds \cup PaymentIds)
        \subseteq DOMAIN t \cup {NewTx(d), NewFunding(d), NewPayment(d)}
  BY <1>3
<1> HIDE DEF n, t
<1>6. Solvent(t, n)
  <2> SUFFICES ASSUME NEW acc \in Rows(t, "account") \cap Rows(n, "account"),
                      Balance(n, acc) < Balance(t, acc)
               PROVE  Balance(n, acc) >= 0
    BY DEF Solvent
  <2>1. acc \in AccountIds /\ acc \in DOMAIN t
    BY <1>1, <1>2, RowsAre DEF Table, Good
  <2>2. /\ Balance(t, acc) \in Int /\ Effect(r, acc) \in Int
        /\ Balance(n, acc) = Balance(t, acc) + Effect(r, acc)
    BY <1>1, <2>1, AddTxBalance DEF n
  <2> QED
    BY <1>4, <2>1, <2>2
<1>7. StatusKept(t, n)
  BY <1>1, <1>2, <1>3, IdsApart, StatusSame DEF Good
<1> QED
  BY <1>2, <1>5, <1>6, <1>7 DEF Step, n, t

\* Another amount, or another link to the commitment, for an old row.
LEMMA EditTx ==
    ASSUME NEW t, Good(t), NEW x \in TxIds, x \in DOMAIN t, NEW r \in Transactions,
           r.from = t[x].from, r.to = t[x].to, r.type = t[x].type, r.of = t[x].of,
           t[x].src \in {"manual", "commitment"}, r.src \in {"manual", "commitment"},
           r.key # None => r.key = Rent /\ \A y \in TxIds : y \in DOMAIN t /\ y # x =>
                                              t[y].key # Rent,
           r.src = "commitment" => r.key = Rent /\ Rent \in DOMAIN t,
           t[x].src # "commitment" \/ \A y \in TxIds : y \in DOMAIN t =>
                                              t[y].key # FundingOf(Rent)
    PROVE  Good(Put(t, x, r))
<1> DEFINE n == Put(t, x, r)
<1>1. /\ DOMAIN n = DOMAIN t /\ n[x] = r
      /\ \A y \in DOMAIN t : y # x => n[y] = t[y]
  BY DEF Put
<1>2. Table(n)
  BY PutTable, RowOkIs DEF Good
<1> HIDE DEF n
<1>3. Table(t) /\ Conforms(t) /\ Conforms(n) /\ Flat(t)
  BY <1>2 DEF Good, Table
<1>4. /\ x \notin AccountIds \cup GoalIds \cup PaymentIds
      /\ x \notin {Rent, Salary, Visit, Loan, Preset, Settings, None}
      /\ FundingOf(Rent) # Rent /\ FundingOf(Rent) # None
  BY IdsApart
<1>5. TxAccounts(n)
  BY <1>1, <1>3 DEF Flat, TxAccounts
<1>6. PlanAccounts(n)
  BY <1>1, <1>3, <1>4 DEF Flat, PlanAccounts
<1>7. KeysApart(n)
  BY <1>1, <1>3 DEF Flat, KeysApart
<1>8. Realized(n)
  <2>1. ASSUME NEW y \in TxIds, y \in DOMAIN t, y # x
        PROVE  /\ n[y].src = "commitment" => n[y].key = Rent /\ Rent \in DOMAIN n
               /\ n[y].src = "planned-income" <=> n[y].of = Salary
               /\ n[y].of = Salary => Salary \in DOMAIN n /\ n[y].key = Salary
               /\ n[y].src = "goal" => n[y].of \in DOMAIN n /\ n[y].to = n[n[y].of].acc
    <3>1. n[y].src = "goal" => n[y].of # x
      BY <1>1, <1>3, <1>4, <2>1, FieldsAre, TxTypes
    <3> QED
      BY <1>1, <1>3, <2>1, <3>1 DEF Flat, Realized
  <2>2. /\ r.src = "commitment" => r.key = Rent /\ Rent \in DOMAIN n
        /\ r.src = "planned-income" <=> r.of = Salary
        /\ r.of # Salary /\ r.src # "goal"
    BY <1>1, <1>3 DEF Flat, Realized
  <2> QED
    BY <1>1, <2>1, <2>2 DEF Realized
<1>9. Funded(n)
  <2> SUFFICES ASSUME NEW f \in TxIds, f \in DOMAIN n, n[f].key = FundingOf(Rent)
               PROVE  FundingFits(n, f)
    BY DEF Funded
  <2>1. f # x /\ f \in DOMAIN t /\ t[f].key = FundingOf(Rent) /\ n[f] = t[f]
    BY <1>1, <1>4
  <2>2. FundingFits(t, f) /\ t[x].src # "commitment"
    BY <1>3, <2>1 DEF Flat, Funded
  <2>3. PICK y \in TxIds : /\ y \in DOMAIN t /\ t[y].key = Rent /\ t[y].src = "commitment"
                           /\ t[y].from = t[f].to /\ t[y].amt = t[f].amt
    BY <2>2 DEF FundingFits
  <2>4. y # x /\ n[y] = t[y] /\ y \in DOMAIN n
    BY <1>1, <2>2, <2>3
  <2>5. t[f].from \in AccountIds /\ t[y].from \in AccountIds
    BY <1>3, <2>1, <2>3, FieldsAre, TxTypes
  <2>6. t[f].from \in DOMAIN t /\ t[y].from \in DOMAIN t
    BY <1>3, <2>1, <2>3 DEF Flat, TxAccounts
  <2>7. n[t[f].from] = t[t[f].from] /\ n[t[f].to] = t[t[f].to]
    BY <1>1, <1>4, <2>3, <2>5, <2>6
  <2> QED
    BY <2>1, <2>2, <2>3, <2>4, <2>7 DEF FundingFits
<1>10. GoalFits(n)
  <2>1. \A g \in GoalIds : g \in DOMAIN n =>
           /\ g \in DOMAIN t /\ n[g] = t[g] /\ t[g].acc \in DOMAIN t
           /\ n[t[g].acc] = t[t[g].acc]
    <3> TAKE g \in GoalIds
    <3> HAVE g \in DOMAIN n
    <3>1. t[g].acc \in DOMAIN t /\ t[g].acc \in AccountIds /\ g \in DOMAIN t
      BY <1>1, <1>3, FieldsAre DEF Flat, PlanAccounts
    <3> QED
      BY <1>1, <1>4, <3>1
  <2>2. Visit \in DOMAIN t => n[Visit] = t[Visit] /\ Visit \in DOMAIN n
    BY <1>1, <1>4
  <2> QED
    BY <1>1, <1>3, <2>1, <2>2 DEF Flat, GoalFits
<1>11. NotOverpaid(n)
  <2>1. Paid(n, Loan) = Paid(t, Loan)
    BY <1>1, <1>3, <1>4, PaidSame
  <2> QED
    BY <1>1, <1>3, <1>4, <2>1 DEF Flat, NotOverpaid
<1>12. EventFits(n)
  <2>1. Visit \in DOMAIN t => n[Visit] = t[Visit]
    BY <1>1, <1>4
  <2>2. Visit \in DOMAIN t /\ t[Visit].paid # None => t[Visit].paid \in TxIds
    BY <1>3, FieldsAre
  <2> QED
    BY <1>1, <1>3, <2>1, <2>2 DEF Flat, EventFits
<1>13. RepaymentFits(n)
  <2>1. \A p \in PaymentIds : p \in DOMAIN t => n[p] = t[p]
    BY <1>1, <1>4
  <2>2. \A y \in TxIds : y \in DOMAIN t /\ t[y].src = "debt" => t[y].of \in PaymentIds
    BY <1>3, FieldsAre, TxTypes
  <2> QED
    BY <1>1, <1>3, <1>4, <2>1, <2>2 DEF Flat, RepaymentFits
<1> QED
  BY <1>2, <1>5, <1>6, <1>7, <1>8, <1>9, <1>10, <1>11, <1>12, <1>13 DEF n, Good, Flat

-----------------------------------------------------------------------------
(* The commands of the ledger.                                             *)

\* saveTransaction.
LEMMA SaveTransactionSteps ==
    ASSUME NEW d, Ready(d), SaveTransaction(d)
    PROVE  \E new : Does(d, new) /\ Step(d, new)
<1> DEFINE t == db[d]
<1>1. PICK w \in WrittenByHand(d) :
         /\ (w[2].type = "transfer") = (w[2].to # None) /\ w[2].from # w[2].to
         /\ Get(t, w[1]) # None => Independent(Get(t, w[1]))
         /\ \A acc \in Rows(t, "account") :
               acc \in {w[2].from, w[2].to} => Balance(Put(t, w[1], w[2]), acc) >= 0
         /\ Does(d, Put(t, w[1], w[2]))
  BY DEF SaveTransaction
<1> DEFINE x == w[1]
           r == w[2]
<1> HIDE DEF t, x, r
<1>2. Good(t) /\ Table(t) /\ Conforms(t) /\ Flat(t)
  BY DEF Ready, Good, Table, t
<1>3. Txs(t) = DOMAIN t \cap TxIds /\ Rows(t, "account") = DOMAIN t \cap AccountIds
  BY <1>2, RowsAre
<1>4. \A acc : r \in Transactions /\ Effect(r, acc) # 0 => acc \in {r.from, r.to}
  BY DEF Effect
<1>5. CASE \E type \in {"expense", "income", "transfer"}, from \in Daily(t),
              to \in Daily(t) \cup {None} : w = <<NewTx(d), Tx(type, 1, from, to, "manual")>>
  <2>1. PICK type \in {"expense", "income", "transfer"}, from \in Daily(t),
             to \in Daily(t) \cup {None} : w = <<NewTx(d), Tx(type, 1, from, to, "manual")>>
    BY <1>5
  <2>2. x = NewTx(d) /\ r = TxRow(type, 1, from, to, "manual", None, None)
    <3>1. x = NewTx(d) /\ r = Tx(type, 1, from, to, "manual")
      BY <2>1 DEF x, r
    <3> QED
      BY <3>1 DEF Tx, TxRow
  <2>3. from \in AccountIds /\ from \in DOMAIN t /\ (to # None => to \in AccountIds
        /\ to \in DOMAIN t)
    BY <1>3 DEF Daily
  <2>4. r \in Transactions
    <3>1. /\ type \in {"expense", "income", "transfer", "adjustment"} /\ 1 \in 1..2
          /\ to \in AccountIds \cup {None} /\ 1 \in Int /\ 1 > 0
      BY <2>3
    <3>2. TxRow(type, 1, from, to, "manual", None, None) \in Transactions
      BY <2>3, <3>1, TxRowOk
    <3> QED
      BY <2>2, <3>2
  <2>5. /\ r.type = type /\ r.amt = 1 /\ r.from = from /\ r.to = to
        /\ r.src = "manual" /\ r.key = None /\ r.of = None
    BY <2>2, TxRowFields
  <2>6. Listed(t, r)
    BY <1>1, <2>3, <2>5, NamesApart, IdsApart DEF Listed, r
  <2>7. ASSUME NEW acc \in AccountIds, acc \in DOMAIN t, Effect(r, acc) < 0
        PROVE  Balance(t, acc) + Effect(r, acc) >= 0
    <3>1. Balance(Put(t, x, r), acc) >= 0
      BY <1>1, <1>3, <1>4, <2>4, <2>7 DEF t, x, r
    <3>2. x \in TxIds /\ x \notin DOMAIN t
      BY <2>2, NewIds DEF t
    <3> QED
      BY <1>2, <2>4, <2>7, <3>1, <3>2, AddTxBalance
  <2>8. Step(d, Put(t, x, r))
    BY <2>2, <2>4, <2>5, <2>6, <2>7, AddTxStep DEF t
  <2> QED
    BY <1>1, <2>8 DEF t, x, r
<1>6. CASE \E y \in Txs(t) : w = <<y, [t[y] EXCEPT !.amt = 3 - @]>>
  <2>1. PICK y \in Txs(t) : w = <<y, [t[y] EXCEPT !.amt = 3 - @]>>
    BY <1>6
  <2>2. x = y /\ r = [t[x] EXCEPT !.amt = 3 - t[x].amt] /\ x \in TxIds /\ x \in DOMAIN t
    BY <1>3, <2>1 DEF x, r
  <2>3. t[x] \in Transactions
    BY <1>2, <2>2, FieldsAre
  <2>4. t[x].src = "manual" /\ t[x].key = None /\ t[x].of = None
    BY <1>1, <1>2, <2>2, NoneIsNoRow DEF Get, Independent, t, x
  <2>5. t[x].amt \in 1..2
    BY <2>3, <2>4, TxTypes
  <2>6. /\ r.type = t[x].type /\ r.amt = 3 - t[x].amt /\ r.from = t[x].from
        /\ r.to = t[x].to /\ r.src = t[x].src /\ r.key = t[x].key /\ r.of = t[x].of
        /\ r \in Transactions
    <3>1. 3 - t[x].amt \in 1..2
      BY <2>5
    <3> QED
      BY <2>2, <2>3, <2>4, <3>1 DEF Transactions
  <2>7. Good(Put(t, x, r))
    BY <1>2, <2>2, <2>4, <2>6, EditTx
  <2> DEFINE n == Put(t, x, r)
  <2>8. /\ DOMAIN n = DOMAIN t /\ n[x] = r /\ \A z \in DOMAIN t : z # x => n[z] = t[z]
    BY <2>2 DEF Put
  <2>9. Good(n)
    BY <2>7
  <2>10. \A acc \in DOMAIN t \cap AccountIds : acc \in {r.from, r.to} => Balance(n, acc) >= 0
    BY <1>1, <1>3 DEF t, x, r
  <2> HIDE DEF n
  <2>11. Solvent(t, n)
    <3> SUFFICES ASSUME NEW acc \in AccountIds, acc \in DOMAIN t, acc \notin {r.from, r.to}
                 PROVE  ~(Balance(n, acc) < Balance(t, acc))
      BY <1>3, <2>10 DEF Solvent
    <3>1. acc # x /\ n[acc].open = t[acc].open
      BY <2>2, <2>8, IdsApart
    <3>2. \A z \in TxIds : z \in DOMAIN t => Effect(n[z], acc) = Effect(t[z], acc)
      BY <2>6, <2>8 DEF Effect
    <3>3. Balance(n, acc) = Balance(t, acc)
      BY <1>2, <2>8, <2>9, <3>1, <3>2, BalanceSame DEF Good, Table
    <3>4. Balance(t, acc) \in Int
      BY <1>2, BalanceType, FieldsAre DEF Table
    <3> QED
      BY <3>3, <3>4
  <2>12. StatusKept(t, n)
    BY <1>2, <2>2, <2>8, <2>9, IdsApart, StatusSame DEF Good
  <2>13. Step(d, n)
    BY <2>8, <2>9, <2>11, <2>12 DEF Step, t
  <2> QED
    BY <1>1, <2>13 DEF n, t, x, r
<1> QED
  BY <1>5, <1>6 DEF WrittenByHand, t

\* adjustAccountBalance.
LEMMA AdjustAccountBalanceSteps ==
    ASSUME NEW d, Ready(d), AdjustAccountBalance(d)
    PROVE  \E new : Does(d, new) /\ Step(d, new)
<1> DEFINE t == db[d]
<1>1. PICK acc \in Daily(t), target \in 0..2 :
         Does(d, Put(t, NewTx(d), Tx("adjustment", target - Balance(t, acc), acc, None,
                                     "adjustment")))
  BY DEF AdjustAccountBalance
<1> DEFINE delta == target - Balance(t, acc)
           r == TxRow("adjustment", delta, acc, None, "adjustment", None, None)
<1>2. Does(d, Put(t, NewTx(d), r))
  BY <1>1 DEF Tx, TxRow
<1>3. Good(t) /\ Table(t) /\ Conforms(t)
  BY DEF Ready, Good, Table
<1> HIDE DEF t
<1>4. acc \in AccountIds /\ acc \in DOMAIN t
  BY <1>3, RowsAre DEF Daily
<1>5. Balance(t, acc) \in Int /\ target \in Int /\ target >= 0
  BY <1>3, <1>4, BalanceType, FieldsAre DEF Table
<1>6. delta \in Int
  BY <1>5
<1> HIDE DEF delta
<1>7. r \in Transactions
  BY <1>4, <1>6, IdsApart, TxRowOk
<1>8. /\ r.type = "adjustment" /\ r.amt = delta /\ r.from = acc /\ r.to = None
      /\ r.src = "adjustment" /\ r.key = None /\ r.of = None
  BY TxRowFields
<1> HIDE DEF r
<1>9. Listed(t, r)
  BY <1>4, <1>8, NamesApart, IdsApart DEF Listed
<1>10. ASSUME NEW a \in AccountIds, Effect(r, a) < 0
       PROVE  Balance(t, a) + Effect(r, a) >= 0
  <2>1. a = acc /\ Effect(r, a) = delta
    BY <1>8, <1>10 DEF Effect
  <2> QED
    BY <1>5, <2>1 DEF delta
<1>11. Step(d, Put(t, NewTx(d), r))
  BY <1>7, <1>8, <1>9, <1>10, AddTxStep DEF t
<1> QED
  BY <1>2, <1>11

\* linkTransactionToCommitment.
LEMMA LinkTransactionToCommitmentSteps ==
    ASSUME NEW d, Ready(d), LinkTransactionToCommitment(d)
    PROVE  \E new : Does(d, new) /\ Step(d, new)
<1> DEFINE t == db[d]
<1>1. PICK x \in Txs(t) :
         /\ Planned(t) /\ Keyed(t, Rent) = {} /\ Independent(t[x])
         /\ Does(d, Put(t, x, [t[x] EXCEPT !.src = "commitment", !.key = Rent]))
  BY DEF LinkTransactionToCommitment
<1> DEFINE r == [t[x] EXCEPT !.src = "commitment", !.key = Rent]
           n == Put(t, x, r)
<1> HIDE DEF t
<1>2. Good(t) /\ Table(t) /\ Conforms(t)
  BY DEF Ready, Good, Table, t
<1>3. Txs(t) = DOMAIN t \cap TxIds
  BY <1>2, RowsAre
<1>4. x \in TxIds /\ x \in DOMAIN t /\ t[x] \in Transactions
  BY <1>2, <1>3, FieldsAre
<1>5. t[x].src = "manual" /\ t[x].key = None /\ t[x].of = None /\ t[x].amt \in 1..2
  BY <1>1, <1>4, TxTypes DEF Independent
<1>6. /\ r \in Transactions /\ r.type = t[x].type /\ r.amt = t[x].amt /\ r.from = t[x].from
      /\ r.to = t[x].to /\ r.of = t[x].of /\ r.src = "commitment" /\ r.key = Rent
  BY <1>4, <1>5, IdsApart DEF Transactions
<1>7. \A y \in TxIds : y \in DOMAIN t => t[y].key # Rent
  BY <1>1, <1>3 DEF Keyed
<1>8. /\ DOMAIN n = DOMAIN t /\ n[x] = r /\ \A z \in DOMAIN t : z # x => n[z] = t[z]
  BY <1>4 DEF Put
<1> HIDE DEF r
<1>9. Good(n)
  BY <1>1, <1>2, <1>4, <1>5, <1>6, <1>7, EditTx DEF Planned
<1> HIDE DEF n
<1>10. Solvent(t, n)
  BY <1>2, <1>4, <1>6, <1>8, <1>9, IdsApart, SolventSame DEF Good
<1>11. StatusKept(t, n)
  BY <1>2, <1>4, <1>8, <1>9, IdsApart, StatusSame DEF Good
<1>12. Step(d, n)
  BY <1>8, <1>9, <1>10, <1>11 DEF Step, t
<1> QED
  BY <1>1, <1>12 DEF n, r

\* unlinkCommitmentPayment.
LEMMA UnlinkCommitmentPaymentSteps ==
    ASSUME NEW d, Ready(d), UnlinkCommitmentPayment(d)
    PROVE  \E new : Does(d, new) /\ Step(d, new)
<1> DEFINE t == db[d]
<1>1. PICK x \in Txs(t) :
         /\ Unlinkable(t, x)
         /\ Does(d, Put(t, x, [t[x] EXCEPT !.src = "manual", !.key = None]))
  BY DEF UnlinkCommitmentPayment
<1> DEFINE r == [t[x] EXCEPT !.src = "manual", !.key = None]
           n == Put(t, x, r)
<1> HIDE DEF t
<1>2. Good(t) /\ Table(t) /\ Conforms(t)
  BY DEF Ready, Good, Table, t
<1>3. Txs(t) = DOMAIN t \cap TxIds
  BY <1>2, RowsAre
<1>4. x \in TxIds /\ x \in DOMAIN t /\ t[x] \in Transactions
  BY <1>2, <1>3, FieldsAre
<1>5. t[x].src = "commitment" /\ t[x].key = Rent /\ t[x].amt \in 1..2
  BY <1>1, <1>2, <1>4, TxTypes DEF Unlinkable, Good, Flat, Realized
<1>6. /\ r \in Transactions /\ r.type = t[x].type /\ r.amt = t[x].amt /\ r.from = t[x].from
      /\ r.to = t[x].to /\ r.of = t[x].of /\ r.src = "manual" /\ r.key = None
  BY <1>4, <1>5 DEF Transactions
<1>7. \A y \in TxIds : y \in DOMAIN t => t[y].key # FundingOf(Rent)
  BY <1>1, <1>3, <1>5 DEF Keyed, Unlinkable
<1>8. /\ DOMAIN n = DOMAIN t /\ n[x] = r /\ \A z \in DOMAIN t : z # x => n[z] = t[z]
  BY <1>4 DEF Put
<1> HIDE DEF r
<1>9. Good(n)
  BY <1>1, <1>2, <1>4, <1>5, <1>6, <1>7, EditTx
<1> HIDE DEF n
<1>10. Solvent(t, n)
  BY <1>2, <1>4, <1>6, <1>8, <1>9, IdsApart, SolventSame DEF Good
<1>11. StatusKept(t, n)
  BY <1>2, <1>4, <1>8, <1>9, IdsApart, StatusSame DEF Good
<1>12. Step(d, n)
  BY <1>8, <1>9, <1>10, <1>11 DEF Step, t
<1> QED
  BY <1>1, <1>12 DEF n, r

\* markPlannedIncomeReceived.
LEMMA MarkPlannedIncomeReceivedSteps ==
    ASSUME NEW d, Ready(d), MarkPlannedIncomeReceived(d)
    PROVE  \E new : Does(d, new) /\ Step(d, new)
<1> DEFINE t == db[d]
           r(acc) == TxRow("income", t[Salary].amt, acc, None, "planned-income", Salary,
                           Salary)
<1>1. PICK acc \in Daily(t) :
         /\ Expected(t) /\ Keyed(t, Salary) = {}
         /\ Does(d, Put(t, NewTx(d),
               [Tx("income", t[Salary].amt, acc, None, "planned-income")
                  EXCEPT !.key = Salary, !.of = Salary]))
  BY DEF MarkPlannedIncomeReceived
<1>2. [Tx("income", t[Salary].amt, acc, None, "planned-income")
         EXCEPT !.key = Salary, !.of = Salary] = r(acc)
  BY TxRowIs
<1> DEFINE q == r(acc)
<1>3. Does(d, Put(t, NewTx(d), q))
  BY <1>1, <1>2
<1>4. Good(t) /\ Table(t) /\ Conforms(t)
  BY DEF Ready, Good, Table
<1> HIDE DEF t
<1>5. acc \in AccountIds /\ acc \in DOMAIN t /\ Txs(t) = DOMAIN t \cap TxIds
  BY <1>4, RowsAre DEF Daily
<1>6. Salary \in DOMAIN t /\ t[Salary].amt \in Int /\ t[Salary].amt > 0
  BY <1>1, <1>4, FieldsAre DEF Expected
<1>7. q \in Transactions
  BY <1>5, <1>6, IdsApart, TxRowOk
<1>8. /\ q.type = "income" /\ q.amt = t[Salary].amt /\ q.from = acc /\ q.to = None
      /\ q.src = "planned-income" /\ q.key = Salary /\ q.of = Salary
  BY TxRowFields
<1> HIDE DEF q
<1>9. Listed(t, q)
  BY <1>1, <1>5, <1>6, <1>8, IdsApart, NamesApart DEF Listed, Keyed
<1>10. \A a : ~(Effect(q, a) < 0)
  BY <1>6, <1>8 DEF Effect
<1>11. Step(d, Put(t, NewTx(d), q))
  BY <1>7, <1>8, <1>9, <1>10, AddTxStep DEF t
<1> QED
  BY <1>3, <1>11

\* withdrawFromGoal.
LEMMA WithdrawFromGoalSteps ==
    ASSUME NEW d, Ready(d), WithdrawFromGoal(d)
    PROVE  \E new : Does(d, new) /\ Step(d, new)
<1> DEFINE t == db[d]
<1>1. PICK g \in Rows(t, "goal"), to \in Rows(t, "account") :
         /\ IsSavings(t, t[g].acc) /\ IsSpendable(t, to) /\ HasFunds(t, t[g].acc, 1)
         /\ Does(d, Put(t, NewTx(d), Tx("transfer", 1, t[g].acc, to, "manual")))
  BY DEF WithdrawFromGoal
<1> DEFINE from == t[g].acc
           r == TxRow("transfer", 1, from, to, "manual", None, None)
<1>2. Does(d, Put(t, NewTx(d), r))
  BY <1>1 DEF Tx, TxRow
<1>3. Good(t) /\ Table(t) /\ Conforms(t)
  BY DEF Ready, Good, Table
<1>4. /\ from \in AccountIds /\ from \in DOMAIN t /\ to \in AccountIds /\ to \in DOMAIN t
      /\ from # to /\ Balance(t, from) >= 1
  BY <1>1, <1>3, RowsAre DEF IsSavings, IsSpendable, Active, HasFunds
<1> HIDE DEF t, from
<1>5. Balance(t, from) \in Int
  BY <1>3, <1>4, BalanceType, FieldsAre DEF Table
<1>6. r \in Transactions
  BY <1>4, TxRowOk
<1>7. /\ r.type = "transfer" /\ r.amt = 1 /\ r.from = from /\ r.to = to
      /\ r.src = "manual" /\ r.key = None /\ r.of = None
  BY TxRowFields
<1> HIDE DEF r
<1>8. Listed(t, r)
  BY <1>4, <1>7, NamesApart, IdsApart DEF Listed
<1>9. ASSUME NEW a \in AccountIds, Effect(r, a) < 0
      PROVE  Balance(t, a) + Effect(r, a) >= 0
  <2>1. a = from /\ Effect(r, a) = -1
    BY <1>4, <1>7, <1>9 DEF Effect
  <2> QED
    BY <1>4, <1>5, <2>1
<1>10. Step(d, Put(t, NewTx(d), r))
  BY <1>6, <1>7, <1>8, <1>9, AddTxStep DEF t
<1> QED
  BY <1>2, <1>10

\* contributeToGoal.
LEMMA ContributeToGoalSteps ==
    ASSUME NEW d, Ready(d), ContributeToGoal(d)
    PROVE  \E new : Does(d, new) /\ Step(d, new)
<1> DEFINE t == db[d]
<1>1. PICK g \in Rows(t, "goal"), from \in Rows(t, "account"), amt \in 1..2 :
         /\ ~t[from].prot /\ t[t[g].acc].prot /\ HasFunds(t, from, amt)
         /\ Does(d, Put(t, NewTx(d), [Tx("transfer", amt, from, t[g].acc, "goal")
                                        EXCEPT !.of = g]))
  BY DEF ContributeToGoal
<1> DEFINE to == t[g].acc
           r == TxRow("transfer", amt, from, to, "goal", None, g)
<1>2. Does(d, Put(t, NewTx(d), r))
  BY <1>1 DEF Tx, TxRow
<1>3. Good(t) /\ Table(t) /\ Conforms(t) /\ Flat(t)
  BY DEF Ready, Good, Table
<1>4. g \in GoalIds /\ g \in DOMAIN t
  BY <1>3, RowsAre
<1>5. /\ from \in AccountIds /\ from \in DOMAIN t /\ to \in AccountIds /\ to \in DOMAIN t
      /\ from # to /\ Balance(t, from) >= amt
  BY <1>1, <1>3, <1>4, RowsAre, FieldsAre DEF Flat, PlanAccounts, HasFunds
<1>6. to = t[g].acc
  OBVIOUS
<1> HIDE DEF t, to
<1>7. Balance(t, from) \in Int
  BY <1>3, <1>5, BalanceType, FieldsAre DEF Table
<1>8. r \in Transactions
  <2>1. /\ amt \in Int /\ amt > 0 /\ from \in AccountIds /\ to \in AccountIds \cup {None}
        /\ g \in {None, Salary, Visit} \cup GoalIds \cup PaymentIds
    BY <1>4, <1>5
  <2>2. None \notin {FundingOf(Rent), FundingOf(Visit)}
    BY IdsApart
  <2> QED
    BY <1>4, <2>1, <2>2, TxRowOk
<1>9. /\ r.type = "transfer" /\ r.amt = amt /\ r.from = from /\ r.to = to
      /\ r.src = "goal" /\ r.key = None /\ r.of = g
  BY TxRowFields
<1> HIDE DEF r
<1>10. Listed(t, r)
  BY <1>4, <1>5, <1>6, <1>9, NamesApart, IdsApart DEF Listed
<1>11. ASSUME NEW a \in AccountIds, Effect(r, a) < 0
       PROVE  Balance(t, a) + Effect(r, a) >= 0
  <2>1. a = from /\ Effect(r, a) = -amt
    BY <1>5, <1>9, <1>11 DEF Effect
  <2> QED
    BY <1>5, <1>7, <2>1
<1>12. Step(d, Put(t, NewTx(d), r))
  BY <1>8, <1>9, <1>10, <1>11, AddTxStep DEF t
<1> QED
  BY <1>2, <1>12

-----------------------------------------------------------------------------
(* Rows of the plan.                                                       *)

\* The links but those of the paid event and of the repayments, which a
\* command may break on its way.
Core(t) ==
    /\ TxAccounts(t) /\ PlanAccounts(t) /\ KeysApart(t) /\ Realized(t) /\ Funded(t)
    /\ GoalFits(t) /\ NotOverpaid(t)

\* What a row of the plan must be for the links to hold with it.
PlanFits(t, e, v) ==
    /\ e \in AccountIds /\ e \in DOMAIN t /\ v.prot # t[e].prot =>
          /\ \A x \in TxIds : x \in DOMAIN t => e \notin {t[x].from, t[x].to}
          /\ \A g \in GoalIds : g \in DOMAIN t => t[g].acc # e
    /\ e \in {Rent, Salary, Visit} \cup GoalIds => v.acc \in DOMAIN t
    /\ e \in {Preset, Settings} /\ v.acc # None => v.acc \in DOMAIN t
    /\ e \in GoalIds =>
          /\ t[v.acc].prot
          /\ \A h \in GoalIds : h \in DOMAIN t /\ t[h].acc = v.acc => h = e
          /\ \A x \in TxIds : x \in DOMAIN t /\ t[x].src = "goal" /\ t[x].of = e =>
                t[x].to = v.acc
          /\ v.used => /\ v.sinking /\ Visit \in DOMAIN t /\ t[Visit].goal = e
                       /\ t[Visit].acc = v.acc /\ t[Visit].paid # None
    /\ e = Visit => \A g \in GoalIds : g \in DOMAIN t /\ t[g].used =>
                       v.goal = g /\ v.acc = t[g].acc /\ v.paid # None
    /\ e = Loan => Paid(t, Loan) <= v.orig

\* What the row of the event must be for the links of its payment to hold.
EventRow(t, v) ==
    /\ \A x \in TxIds : x \in DOMAIN t /\ t[x].src = "planned-event" => v.paid = x
    /\ v.goal # None => v.goal \in DOMAIN t
    /\ v.paid # None => v.paid \in DOMAIN t /\ t[v.paid].of = Visit

\* The tables with another row of the plan.
LEMMA EditPlan ==
    ASSUME NEW t, Table(t), Core(t), NEW e \in Ids, e \notin TxIds \cup PaymentIds,
           NEW v, RowOk(e, v), PlanFits(t, e, v)
    PROVE  LET new == Put(t, e, v) IN
           /\ Table(new) /\ Core(new)
           /\ RepaymentFits(t) => RepaymentFits(new)
           /\ EventFits(t) /\ e # Visit => EventFits(new)
           /\ e = Visit /\ EventRow(t, v) => EventFits(new)
<1> DEFINE n == Put(t, e, v)
<1>1. /\ DOMAIN n = DOMAIN t \cup {e} /\ n[e] = v
      /\ \A x \in DOMAIN t : x # e => n[x] = t[x]
  BY DEF Put
<1>2. Table(n)
  BY PutTable
<1> HIDE DEF n
<1>3. Conforms(t) /\ Conforms(n)
  BY <1>2 DEF Table
<1>4. \A x \in TxIds \cup PaymentIds : /\ x # e /\ (x \in DOMAIN n <=> x \in DOMAIN t)
                                       /\ x \in DOMAIN t => n[x] = t[x]
  BY <1>1
<1>5. TxAccounts(n)
  BY <1>1, <1>4 DEF Core, TxAccounts
<1>6. PlanAccounts(n)
  BY <1>1 DEF Core, PlanAccounts, PlanFits
<1>7. KeysApart(n)
  BY <1>4 DEF Core, KeysApart
<1>8. Realized(n)
  <2> SUFFICES ASSUME NEW x \in TxIds, x \in DOMAIN t
               PROVE  /\ n[x].src = "commitment" => n[x].key = Rent /\ Rent \in DOMAIN n
                      /\ n[x].src = "planned-income" <=> n[x].of = Salary
                      /\ n[x].of = Salary => Salary \in DOMAIN n /\ n[x].key = Salary
                      /\ n[x].src = "goal" => n[x].of \in DOMAIN n /\ n[x].to = n[n[x].of].acc
    BY <1>4 DEF Realized
  <2>1. n[x] = t[x]
    BY <1>4
  <2>2. t[x].src = "goal" => t[x].of \in GoalIds
    BY <1>3, FieldsAre, TxTypes
  <2> QED
    BY <1>1, <2>1, <2>2 DEF Core, Realized, PlanFits
<1>9. \A x \in TxIds : x \in DOMAIN t /\ t[x].from # e => n[t[x].from] = t[t[x].from]
  BY <1>1 DEF Core, TxAccounts
<1>10. Funded(n)
  <2> SUFFICES ASSUME NEW f \in TxIds, f \in DOMAIN t, t[f].key = FundingOf(Rent)
               PROVE  FundingFits(n, f)
    BY <1>4 DEF Funded
  <2>1. FundingFits(t, f)
    BY DEF Core, Funded
  <2>2. PICK x \in TxIds : /\ x \in DOMAIN t /\ t[x].key = Rent /\ t[x].src = "commitment"
                           /\ t[x].from = t[f].to /\ t[x].amt = t[f].amt
    BY <2>1 DEF FundingFits
  <2>3. /\ t[f].from \in AccountIds /\ t[x].from \in AccountIds
        /\ t[f].from \in DOMAIN t /\ t[x].from \in DOMAIN t
    BY <1>3, <2>2, FieldsAre, TxTypes DEF Core, TxAccounts
  <2>4. n[t[f].from].prot = t[t[f].from].prot /\ n[t[f].to].prot = t[t[f].to].prot
    BY <1>1, <2>2, <2>3 DEF PlanFits
  <2> QED
    BY <1>4, <2>1, <2>2, <2>4 DEF FundingFits
<1>11. GoalFits(n)
  <2> SUFFICES ASSUME NEW g \in GoalIds, g \in DOMAIN n
               PROVE  /\ n[n[g].acc].prot
                      /\ \A h \in GoalIds : h \in DOMAIN n /\ n[h].acc = n[g].acc => h = g
                      /\ n[g].used =>
                            /\ n[g].sinking /\ Visit \in DOMAIN n /\ n[Visit].goal = g
                            /\ n[Visit].acc = n[g].acc /\ n[Visit].paid # None
    BY DEF GoalFits
  <2>1. Visit \notin GoalIds /\ AccountIds \cap GoalIds = {} /\ Visit \notin AccountIds
    BY IdsApart
  <2>2. n[g].acc \in AccountIds /\ n[g].acc \in DOMAIN n
    BY <1>3, <1>6, FieldsAre DEF PlanAccounts
  <2>3. CASE g = e
    <3>1. n[g] = v /\ Visit # e
      BY <1>1, <2>1, <2>3
    <3>2. n[v.acc] = t[v.acc] /\ t[v.acc].prot
      BY <1>1, <2>1, <2>2, <2>3, <3>1 DEF PlanFits
    <3>3. \A h \in GoalIds : h \in DOMAIN n /\ n[h].acc = v.acc => h = g
      BY <1>1, <2>3 DEF PlanFits
    <3>4. v.used => /\ v.sinking /\ Visit \in DOMAIN n /\ n[Visit].goal = g
                    /\ n[Visit].acc = v.acc /\ n[Visit].paid # None
      BY <1>1, <2>3, <3>1 DEF PlanFits
    <3> QED
      BY <3>1, <3>2, <3>3, <3>4
  <2>4. CASE g # e
    <3>1. n[g] = t[g] /\ g \in DOMAIN t /\ t[g].acc \in DOMAIN t
      BY <1>1, <2>4 DEF Core, PlanAccounts
    <3>2. /\ t[t[g].acc].prot
          /\ \A h \in GoalIds : h \in DOMAIN t /\ t[h].acc = t[g].acc => h = g
          /\ t[g].used =>
                /\ t[g].sinking /\ Visit \in DOMAIN t /\ t[Visit].goal = g
                /\ t[Visit].acc = t[g].acc /\ t[Visit].paid # None
      BY <3>1 DEF Core, GoalFits
    <3>3. n[t[g].acc].prot
      BY <1>1, <2>2, <3>1, <3>2 DEF PlanFits
    <3>4. \A h \in GoalIds : h \in DOMAIN n /\ n[h].acc = t[g].acc => h = g
      BY <1>1, <3>1, <3>2 DEF PlanFits
    <3>5. t[g].used => /\ Visit \in DOMAIN n /\ n[Visit].goal = g
                       /\ n[Visit].acc = t[g].acc /\ n[Visit].paid # None
      BY <1>1, <3>1, <3>2 DEF PlanFits
    <3> QED
      BY <3>1, <3>2, <3>3, <3>4, <3>5
  <2> QED
    BY <2>3, <2>4
<1>12. NotOverpaid(n)
  <2>1. Paid(n, Loan) = Paid(t, Loan)
    BY <1>3, <1>4, PaidSame
  <2> QED
    BY <1>1, <2>1 DEF Core, NotOverpaid, PlanFits
<1>13. ASSUME RepaymentFits(t)
       PROVE  RepaymentFits(n)
  <2>1. \A x \in TxIds : x \in DOMAIN t /\ t[x].src = "debt" => t[x].of \in PaymentIds
    BY <1>3, FieldsAre, TxTypes
  <2>2. \A p \in PaymentIds : p \in DOMAIN t /\ t[p].tx # None => t[p].tx \in TxIds
    BY <1>3, FieldsAre
  <2> QED
    BY <1>1, <1>4, <1>13, <2>1, <2>2 DEF RepaymentFits
<1>14. ASSUME EventFits(t), e # Visit
       PROVE  EventFits(n)
  <2>1. Visit \in DOMAIN t /\ t[Visit].paid # None => t[Visit].paid \in TxIds
    BY <1>3, FieldsAre
  <2> QED
    BY <1>1, <1>4, <1>14, <2>1 DEF EventFits
<1>15. ASSUME e = Visit, EventRow(t, v)
       PROVE  EventFits(n)
  <2>1. v.paid # None => v.paid \in TxIds
    BY <1>1, <1>3, <1>15, FieldsAre
  <2> QED
    BY <1>1, <1>4, <1>15, <2>1 DEF EventFits, EventRow
<1> QED
  BY <1>2, <1>5, <1>6, <1>7, <1>8, <1>10, <1>11, <1>12, <1>13, <1>14, <1>15 DEF n, Core

\* What must not lead to a row of the plan for it to go.
PlanGoes(t, e) ==
    /\ e \in AccountIds =>
          /\ \A x \in TxIds : x \in DOMAIN t => e \notin {t[x].from, t[x].to}
          /\ \A p \in {Rent, Salary, Visit, Preset, Settings} \cup GoalIds :
                p \in DOMAIN t => t[p].acc # e
    /\ e = Rent => \A x \in TxIds : x \in DOMAIN t => t[x].src # "commitment"
    /\ e = Salary => \A x \in TxIds : x \in DOMAIN t => t[x].of # Salary
    /\ e \in GoalIds =>
          /\ \A x \in TxIds : x \in DOMAIN t => t[x].of # e
          /\ Visit \in DOMAIN t => t[Visit].goal # e
    /\ e = Visit => t[Visit].paid = None
    /\ e = Loan => \A p \in PaymentIds : p \notin DOMAIN t

\* The tables without a row of the plan.
LEMMA DropPlan ==
    ASSUME NEW t, Good(t), NEW e \in DOMAIN t, e \notin TxIds \cup PaymentIds,
           PlanGoes(t, e)
    PROVE  Good(Delete(t, {e}))
<1> DEFINE n == Delete(t, {e})
<1>1. /\ DOMAIN n = DOMAIN t \ {e}
      /\ \A x \in DOMAIN t : x # e => n[x] = t[x]
  BY DEF Delete, Restrict
<1>2. Table(n)
  BY DeleteTable DEF Good
<1> HIDE DEF n
<1>3. Conforms(t) /\ Conforms(n) /\ Flat(t)
  BY <1>2 DEF Table, Good
<1>4. \A x \in TxIds \cup PaymentIds : /\ x # e /\ (x \in DOMAIN n <=> x \in DOMAIN t)
                                       /\ x \in DOMAIN t => n[x] = t[x]
  BY <1>1
<1>5. \A x \in TxIds : x \in DOMAIN t =>
         /\ t[x].from \in AccountIds /\ t[x].from # e
         /\ t[x].to # e
  <2>1. e # None
    BY <1>3, IdsApart, NamesApart DEF Conforms
  <2>2. \A x \in TxIds : x \in DOMAIN t =>
           t[x].from \in AccountIds /\ t[x].to \in AccountIds \cup {None}
    BY <1>3, FieldsAre, TxTypes
  <2> QED
    BY <2>1, <2>2 DEF PlanGoes
<1>6. TxAccounts(n)
  BY <1>1, <1>3, <1>4, <1>5 DEF Flat, TxAccounts
<1>7. PlanAccounts(n)
  <2>1. \A p \in {Rent, Salary, Visit} \cup GoalIds : p \in DOMAIN t =>
           t[p].acc \in AccountIds /\ t[p].acc \in DOMAIN t
    BY <1>3, FieldsAre DEF Flat, PlanAccounts
  <2>2. \A p \in {Preset, Settings} : p \in DOMAIN t /\ t[p].acc # None =>
           t[p].acc \in AccountIds /\ t[p].acc \in DOMAIN t
    BY <1>3 DEF Flat, PlanAccounts, Conforms, Defaults
  <2>3. \A p \in {Rent, Salary, Visit, Preset, Settings} \cup GoalIds :
           p \in DOMAIN t => t[p].acc # e \/ e \notin AccountIds
    BY DEF PlanGoes
  <2> QED
    BY <1>1, <2>1, <2>2, <2>3 DEF PlanAccounts
<1>8. KeysApart(n)
  BY <1>3, <1>4 DEF Flat, KeysApart
<1>9. Realized(n)
  <2> SUFFICES ASSUME NEW x \in TxIds, x \in DOMAIN t
               PROVE  /\ n[x].src = "commitment" => n[x].key = Rent /\ Rent \in DOMAIN n
                      /\ n[x].src = "planned-income" <=> n[x].of = Salary
                      /\ n[x].of = Salary => Salary \in DOMAIN n /\ n[x].key = Salary
                      /\ n[x].src = "goal" => n[x].of \in DOMAIN n /\ n[x].to = n[n[x].of].acc
    BY <1>4 DEF Realized
  <2>1. n[x] = t[x]
    BY <1>4
  <2>2. t[x].src = "goal" => t[x].of \in GoalIds
    BY <1>3, FieldsAre, TxTypes
  <2> QED
    BY <1>1, <1>3, <2>1, <2>2 DEF Flat, Realized, PlanGoes
<1>10. Funded(n)
  <2> SUFFICES ASSUME NEW f \in TxIds, f \in DOMAIN t, t[f].key = FundingOf(Rent)
               PROVE  FundingFits(n, f)
    BY <1>4 DEF Funded
  <2>1. FundingFits(t, f)
    BY <1>3 DEF Flat, Funded
  <2>2. PICK x \in TxIds : /\ x \in DOMAIN t /\ t[x].key = Rent /\ t[x].src = "commitment"
                           /\ t[x].from = t[f].to /\ t[x].amt = t[f].amt
    BY <2>1 DEF FundingFits
  <2>3. t[f].from \in DOMAIN t /\ t[x].from \in DOMAIN t
    BY <1>3, <2>2 DEF Flat, TxAccounts
  <2>4. n[t[f].from] = t[t[f].from] /\ n[t[f].to] = t[t[f].to]
    BY <1>1, <1>5, <2>2, <2>3
  <2> QED
    BY <1>4, <2>1, <2>2, <2>4 DEF FundingFits
<1>11. GoalFits(n)
  <2> SUFFICES ASSUME NEW g \in GoalIds, g \in DOMAIN n
               PROVE  /\ n[n[g].acc].prot
                      /\ \A h \in GoalIds : h \in DOMAIN n /\ n[h].acc = n[g].acc => h = g
                      /\ n[g].used =>
                            /\ n[g].sinking /\ Visit \in DOMAIN n /\ n[Visit].goal = g
                            /\ n[Visit].acc = n[g].acc /\ n[Visit].paid # None
    BY DEF GoalFits
  <2>1. n[g] = t[g] /\ g \in DOMAIN t /\ n[t[g].acc] = t[t[g].acc]
    BY <1>1, <1>7 DEF PlanAccounts
  <2>2. /\ t[t[g].acc].prot
        /\ \A h \in GoalIds : h \in DOMAIN t /\ t[h].acc = t[g].acc => h = g
        /\ t[g].used =>
              /\ t[g].sinking /\ Visit \in DOMAIN t /\ t[Visit].goal = g
              /\ t[Visit].acc = t[g].acc /\ t[Visit].paid # None
    BY <1>3, <2>1 DEF Flat, GoalFits
  <2> QED
    BY <1>1, <2>1, <2>2 DEF PlanGoes
<1>12. NotOverpaid(n)
  <2>1. Paid(n, Loan) = Paid(t, Loan)
    BY <1>3, <1>4, PaidSame
  <2> QED
    BY <1>1, <1>3, <2>1 DEF Flat, NotOverpaid
<1>13. RepaymentFits(n)
  <2>1. \A x \in TxIds : x \in DOMAIN t /\ t[x].src = "debt" => t[x].of \in PaymentIds
    BY <1>3, FieldsAre, TxTypes
  <2>2. \A p \in PaymentIds : p \in DOMAIN t /\ t[p].tx # None => t[p].tx \in TxIds
    BY <1>3, FieldsAre
  <2> QED
    BY <1>1, <1>3, <1>4, <2>1, <2>2 DEF Flat, RepaymentFits, PlanGoes
<1>14. EventFits(n)
  <2>1. Visit \in DOMAIN t /\ t[Visit].paid # None => t[Visit].paid \in TxIds
    BY <1>3, FieldsAre
  <2>2. Visit \in DOMAIN t /\ t[Visit].goal # None => t[Visit].goal \in GoalIds
    BY <1>3, FieldsAre
  <2>3. None \notin TxIds
    BY IdsApart
  <2> QED
    BY <1>1, <1>3, <1>4, <2>1, <2>2, <2>3 DEF Flat, EventFits, PlanGoes
<1> QED
  BY <1>2, <1>6, <1>7, <1>8, <1>9, <1>10, <1>11, <1>12, <1>13, <1>14 DEF n, Good, Flat

\* The tables without rows of the ledger: a payment goes with its funding.
LEMMA DropTxs ==
    ASSUME NEW t, Table(t), Core(t), NEW S, S \subseteq TxIds,
           \A x \in S : x \in DOMAIN t /\ t[x].src = "commitment" =>
              \A f \in TxIds : f \in DOMAIN t /\ t[f].key = FundingOf(Rent) => f \in S
    PROVE  Table(Delete(t, S)) /\ Core(Delete(t, S))
<1> DEFINE n == Delete(t, S)
<1>1. /\ DOMAIN n = DOMAIN t \ S
      /\ \A x \in DOMAIN t : x \notin S => n[x] = t[x]
  BY DeleteIs
<1>2. Table(n)
  BY DeleteTable
<1> HIDE DEF n
<1>3. Conforms(t) /\ Conforms(n)
  BY <1>2 DEF Table
<1>4. \A e : e \notin TxIds => /\ e \in DOMAIN n <=> e \in DOMAIN t
                               /\ e \in DOMAIN t => n[e] = t[e]
  BY <1>1
<1>5. /\ \A e \in AccountIds \cup GoalIds \cup PaymentIds : e \notin TxIds
      /\ \A e \in {Rent, Salary, Visit, Loan, Preset, Settings, None} : e \notin TxIds
  BY IdsApart
<1>6. \A x \in TxIds : x \in DOMAIN t => t[x].from \in AccountIds /\ t[x].to \notin TxIds
  BY <1>3, <1>5, FieldsAre, TxTypes
<1>7. TxAccounts(n)
  BY <1>1, <1>4, <1>5, <1>6 DEF Core, TxAccounts
<1>8. PlanAccounts(n)
  <2>1. \A p \in {Rent, Salary, Visit} \cup GoalIds : p \in DOMAIN t => t[p].acc \in AccountIds
    BY <1>3, FieldsAre
  <2>2. \A p \in {Preset, Settings} : p \in DOMAIN t /\ t[p].acc # None =>
           t[p].acc \in AccountIds
    BY <1>3 DEF Conforms, Defaults
  <2> QED
    BY <1>4, <1>5, <2>1, <2>2 DEF Core, PlanAccounts
<1>9. KeysApart(n)
  BY <1>1 DEF Core, KeysApart
<1>10. Realized(n)
  <2>1. \A x \in TxIds : x \in DOMAIN t /\ t[x].src = "goal" => t[x].of \in GoalIds
    BY <1>3, FieldsAre, TxTypes
  <2> QED
    BY <1>1, <1>4, <1>5, <2>1 DEF Core, Realized
<1>11. Funded(n)
  <2> SUFFICES ASSUME NEW f \in TxIds, f \in DOMAIN n, n[f].key = FundingOf(Rent)
               PROVE  FundingFits(n, f)
    BY DEF Funded
  <2>1. f \in DOMAIN t /\ f \notin S /\ n[f] = t[f] /\ t[f].key = FundingOf(Rent)
    BY <1>1
  <2>2. FundingFits(t, f)
    BY <2>1 DEF Core, Funded
  <2>3. PICK x \in TxIds : /\ x \in DOMAIN t /\ t[x].key = Rent /\ t[x].src = "commitment"
                           /\ t[x].from = t[f].to /\ t[x].amt = t[f].amt
    BY <2>2 DEF FundingFits
  <2>4. x \notin S /\ x \in DOMAIN n /\ n[x] = t[x]
    BY <1>1, <2>1, <2>3
  <2>5. t[f].from \in DOMAIN t /\ t[x].from \in DOMAIN t
    BY <2>1, <2>3 DEF Core, TxAccounts
  <2>6. n[t[f].from] = t[t[f].from] /\ n[t[f].to] = t[t[f].to]
    BY <1>4, <1>5, <1>6, <2>1, <2>3, <2>5
  <2> QED
    BY <2>1, <2>2, <2>3, <2>4, <2>6 DEF FundingFits
<1>12. GoalFits(n)
  <2>1. \A g \in GoalIds : g \in DOMAIN t =>
           t[g].acc \in AccountIds /\ t[g].acc \in DOMAIN t
    BY <1>3, FieldsAre DEF Core, PlanAccounts
  <2> QED
    BY <1>4, <1>5, <2>1 DEF Core, GoalFits
<1>13. NotOverpaid(n)
  <2>1. Paid(n, Loan) = Paid(t, Loan)
    BY <1>3, <1>4, <1>5, PaidSame
  <2> QED
    BY <1>4, <1>5, <2>1 DEF Core, NotOverpaid
<1> QED
  BY <1>2, <1>7, <1>8, <1>9, <1>10, <1>11, <1>12, <1>13 DEF n, Core

\* Whatever becomes of the repayments, the links of the rest hold.
LEMMA RepaymentsApart ==
    ASSUME NEW t, Table(t), Core(t), NEW n, Table(n), NotOverpaid(n),
           \A e : e \notin PaymentIds => /\ e \in DOMAIN n <=> e \in DOMAIN t
                                         /\ e \in DOMAIN t => n[e] = t[e]
    PROVE  Core(n) /\ (EventFits(t) => EventFits(n))
<1>1. Conforms(t) /\ Conforms(n)
  BY DEF Table
<1>2. /\ \A e \in AccountIds \cup GoalIds \cup TxIds : e \notin PaymentIds
      /\ \A e \in {Rent, Salary, Visit, Loan, Preset, Settings, None} : e \notin PaymentIds
  BY IdsApart
<1>3. \A x \in TxIds : x \in DOMAIN t =>
         t[x].from \in AccountIds /\ t[x].to \notin PaymentIds
  BY <1>1, <1>2, FieldsAre, TxTypes
<1>4. TxAccounts(n)
  BY <1>2, <1>3 DEF Core, TxAccounts
<1>5. PlanAccounts(n)
  <2>1. \A p \in {Rent, Salary, Visit} \cup GoalIds : p \in DOMAIN t => t[p].acc \in AccountIds
    BY <1>1, FieldsAre
  <2>2. \A p \in {Preset, Settings} : p \in DOMAIN t /\ t[p].acc # None =>
           t[p].acc \in AccountIds
    BY <1>1 DEF Conforms, Defaults
  <2> QED
    BY <1>2, <2>1, <2>2 DEF Core, PlanAccounts
<1>6. KeysApart(n)
  BY <1>2 DEF Core, KeysApart
<1>7. Realized(n)
  <2>1. \A x \in TxIds : x \in DOMAIN t /\ t[x].src = "goal" => t[x].of \in GoalIds
    BY <1>1, FieldsAre, TxTypes
  <2> QED
    BY <1>2, <2>1 DEF Core, Realized
<1>8. Funded(n)
  <2> SUFFICES ASSUME NEW f \in TxIds, f \in DOMAIN t, t[f].key = FundingOf(Rent)
               PROVE  FundingFits(n, f)
    BY <1>2 DEF Funded
  <2>1. FundingFits(t, f)
    BY DEF Core, Funded
  <2>2. PICK x \in TxIds : /\ x \in DOMAIN t /\ t[x].key = Rent /\ t[x].src = "commitment"
                           /\ t[x].from = t[f].to /\ t[x].amt = t[f].amt
    BY <2>1 DEF FundingFits
  <2>3. t[f].from \in DOMAIN t /\ t[x].from \in DOMAIN t
    BY <2>2 DEF Core, TxAccounts
  <2>4. n[t[f].from] = t[t[f].from] /\ n[t[f].to] = t[t[f].to] /\ n[f] = t[f] /\ n[x] = t[x]
        /\ x \in DOMAIN n
    BY <1>2, <1>3, <2>2, <2>3
  <2> QED
    BY <2>1, <2>2, <2>4 DEF FundingFits
<1>9. GoalFits(n)
  <2>1. \A g \in GoalIds : g \in DOMAIN t =>
           t[g].acc \in AccountIds /\ t[g].acc \in DOMAIN t
    BY <1>1, FieldsAre DEF Core, PlanAccounts
  <2> QED
    BY <1>2, <2>1 DEF Core, GoalFits
<1>10. ASSUME EventFits(t)
       PROVE  EventFits(n)
  <2>1. Visit \in DOMAIN t => /\ t[Visit].paid # None => t[Visit].paid \in TxIds
                              /\ t[Visit].goal # None => t[Visit].goal \in GoalIds
    BY <1>1, FieldsAre
  <2> QED
    BY <1>2, <1>10, <2>1 DEF EventFits
<1> QED
  BY <1>4, <1>5, <1>6, <1>7, <1>8, <1>9, <1>10 DEF Core

\* The tables with one more repayment of what is still owed.
LEMMA AddPayment ==
    ASSUME NEW t, Table(t), Core(t), NEW p \in PaymentIds, p \notin DOMAIN t,
           NEW v \in Payments, Loan \in DOMAIN t, Paid(t, Loan) + v.amt <= t[Loan].orig
    PROVE  LET new == Put(t, p, v) IN
           /\ Table(new) /\ Core(new) /\ Paid(new, Loan) = Paid(t, Loan) + v.amt
           /\ EventFits(t) => EventFits(new)
<1> DEFINE n == Put(t, p, v)
<1>1. /\ DOMAIN n = DOMAIN t \cup {p} /\ n[p] = v
      /\ \A x \in DOMAIN t : x # p => n[x] = t[x]
  BY DEF Put
<1>2. Table(n)
  BY PutTable, RowOkIs
<1> HIDE DEF n
<1>3. \A q \in PaymentIds : q # p => (q \in DOMAIN n <=> q \in DOMAIN t)
  BY <1>1
<1>4. Paid(n, Loan) = Paid(t, Loan) + v.amt
  BY <1>1, <1>2, <1>3, PaidAdds DEF Table
<1>5. Loan \notin PaymentIds
  BY IdsApart
<1>6. NotOverpaid(n)
  BY <1>1, <1>4, <1>5 DEF NotOverpaid
<1>7. \A e : e \notin PaymentIds => /\ e \in DOMAIN n <=> e \in DOMAIN t
                                    /\ e \in DOMAIN t => n[e] = t[e]
  BY <1>1
<1>8. Core(n) /\ (EventFits(t) => EventFits(n))
  BY <1>2, <1>6, <1>7, RepaymentsApart
<1> QED
  BY <1>2, <1>4, <1>8 DEF n

\* The tables with one repayment less.
LEMMA DropPayment ==
    ASSUME NEW t, Table(t), Core(t), NEW p \in PaymentIds, p \in DOMAIN t, Loan \in DOMAIN t
    PROVE  LET new == Delete(t, {p}) IN
           /\ Table(new) /\ Core(new) /\ Paid(t, Loan) = Paid(new, Loan) + t[p].amt
           /\ EventFits(t) => EventFits(new)
<1> DEFINE n == Delete(t, {p})
<1>1. /\ DOMAIN n = DOMAIN t \ {p}
      /\ \A x \in DOMAIN t : x # p => n[x] = t[x]
  BY DEF Delete, Restrict
<1>2. Table(n)
  BY DeleteTable
<1> HIDE DEF n
<1>3. /\ \A q \in PaymentIds : q # p => (q \in DOMAIN t <=> q \in DOMAIN n)
      /\ \A q \in PaymentIds : q \in DOMAIN n => t[q].amt = n[q].amt
  BY <1>1
<1>4. Paid(t, Loan) = Paid(n, Loan) + t[p].amt
  BY <1>1, <1>2, <1>3, PaidAdds DEF Table
<1>5. Loan \notin PaymentIds
  BY IdsApart
<1>6. NotOverpaid(n)
  <2>1. Paid(n, Loan) \in Int /\ t[p].amt \in Nat /\ t[Loan].orig \in Nat
    BY <1>2, PaidType, FieldsAre DEF Table
  <2>2. Paid(t, Loan) <= t[Loan].orig
    BY DEF Core, NotOverpaid
  <2> QED
    BY <1>1, <1>4, <1>5, <2>1, <2>2 DEF NotOverpaid
<1>7. \A e : e \notin PaymentIds => /\ e \in DOMAIN n <=> e \in DOMAIN t
                                    /\ e \in DOMAIN t => n[e] = t[e]
  BY <1>1
<1>8. Core(n) /\ (EventFits(t) => EventFits(n))
  BY <1>2, <1>6, <1>7, RepaymentsApart
<1> QED
  BY <1>2, <1>4, <1>8 DEF n

-----------------------------------------------------------------------------
(* The commands of the ledger that write more than one row.                *)

\* Two rows may be written in either order.
LEMMA PutCommutes ==
    ASSUME NEW t, NEW x, NEW y, x # y, NEW v, NEW w
    PROVE  Put(Put(t, x, v), y, w) = Put(Put(t, y, w), x, v)
<1> DEFINE m == Put(t, x, v)
           k == Put(t, y, w)
           a == Put(m, y, w)
           b == Put(k, x, v)
<1>1. /\ DOMAIN m = DOMAIN t \cup {x} /\ m[x] = v
      /\ \A z \in DOMAIN t : z # x => m[z] = t[z]
  BY DEF Put
<1>2. /\ DOMAIN k = DOMAIN t \cup {y} /\ k[y] = w
      /\ \A z \in DOMAIN t : z # y => k[z] = t[z]
  BY DEF Put
<1> HIDE DEF m, k
<1>3. /\ DOMAIN a = DOMAIN m \cup {y} /\ a[y] = w
      /\ \A z \in DOMAIN m : z # y => a[z] = m[z]
      /\ a = [z \in DOMAIN a |-> a[z]]
  BY DEF Put
<1>4. /\ DOMAIN b = DOMAIN k \cup {x} /\ b[x] = v
      /\ \A z \in DOMAIN k : z # x => b[z] = k[z]
      /\ b = [z \in DOMAIN b |-> b[z]]
  BY DEF Put
<1> HIDE DEF a, b
<1>5. DOMAIN a = DOMAIN b /\ \A z \in DOMAIN a : a[z] = b[z]
  BY <1>1, <1>2, <1>3, <1>4
<1>6. a = b
  BY <1>3, <1>4, <1>5
<1> QED
  BY <1>6 DEF a, b, m, k

\* What is left of funding when no payment has the commitment's key: nothing.
LEMMA NoFunding ==
    ASSUME NEW t, Funded(t), \A y \in TxIds : y \in DOMAIN t => t[y].key # Rent
    PROVE  \A y \in TxIds : y \in DOMAIN t => t[y].key # FundingOf(Rent)
BY DEF Funded, FundingFits

\* markCommitmentPaid.
LEMMA MarkCommitmentPaidSteps ==
    ASSUME NEW d, Ready(d), MarkCommitmentPaid(d)
    PROVE  \E new : Does(d, new) /\ Step(d, new)
<1> DEFINE t == db[d]
           pay(acc, amt) == [Tx("expense", amt, acc, None, "commitment") EXCEPT !.key = Rent]
           fund(savings, acc, amt) == [Tx("transfer", amt, savings, acc, "manual")
                                         EXCEPT !.key = FundingOf(Rent)]
           funded(savings, acc, amt) ==
              IF savings = None THEN t ELSE Put(t, NewFunding(d), fund(savings, acc, amt))
<1>1. PICK acc \in Rows(t, "account"), savings \in Rows(t, "account") \cup {None},
           amt \in 1..2 :
         /\ Planned(t) /\ Keyed(t, Rent) = {}
         /\ savings # None => /\ IsSavings(t, savings) /\ IsSpendable(t, acc)
                              /\ HasFunds(t, savings, amt)
         /\ HasFunds(funded(savings, acc, amt), acc, amt)
         /\ Does(d, Put(funded(savings, acc, amt), NewTx(d), pay(acc, amt)))
  BY DEF MarkCommitmentPaid
<1> DEFINE r == TxRow("expense", amt, acc, None, "commitment", Rent, None)
           q == TxRow("transfer", amt, savings, acc, "manual", FundingOf(Rent), None)
           x == NewTx(d)
           f == NewFunding(d)
           m == Put(t, x, r)
<1>2. pay(acc, amt) = r /\ fund(savings, acc, amt) = q
  BY DEF Tx, TxRow
<1>3. Good(t) /\ Table(t) /\ Conforms(t) /\ Flat(t)
  BY DEF Ready, Good, Table
<1>4. /\ x \in TxIds /\ f \in TxIds /\ x # f /\ x \notin DOMAIN t /\ f \notin DOMAIN t
  BY NewIds
<1>5. /\ savings = None => Balance(t, acc) >= amt /\ Does(d, Put(t, x, r))
      /\ savings # None => Does(d, Put(Put(t, f, q), x, r))
  BY <1>1, <1>2 DEF HasFunds
<1>6. savings # None => /\ savings \in AccountIds /\ savings \in DOMAIN t /\ t[savings].prot
                        /\ ~t[acc].prot /\ Balance(t, savings) >= amt
  BY <1>1, <1>3, RowsAre DEF IsSavings, IsSpendable, Active, HasFunds
<1>7. acc \in AccountIds /\ acc \in DOMAIN t /\ amt \in Int /\ amt > 0 /\ Rent \in DOMAIN t
  BY <1>1, <1>3, RowsAre DEF Planned
<1>8. \A y \in TxIds : y \in DOMAIN t => t[y].key # Rent
  BY <1>1, <1>3, RowsAre DEF Keyed
<1> HIDE DEF t, x, f
<1>9. r \in Transactions
  BY <1>7, IdsApart, TxRowOk
<1>10. /\ r.type = "expense" /\ r.amt = amt /\ r.from = acc /\ r.to = None
       /\ r.src = "commitment" /\ r.key = Rent /\ r.of = None
  BY TxRowFields
<1> HIDE DEF r
<1>11. Listed(t, r)
  BY <1>7, <1>8, <1>10, IdsApart, NamesApart DEF Listed
<1>12. \A a : Effect(r, a) = IF a = acc THEN -amt ELSE 0
  BY <1>10 DEF Effect
<1>13. \A a \in AccountIds : a \in DOMAIN t => Balance(t, a) \in Int
  BY <1>3, BalanceType, FieldsAre DEF Table
<1>14. CASE savings = None
  <2>1. \A a \in AccountIds : a \in DOMAIN t /\ Effect(r, a) < 0 =>
           Balance(t, a) + Effect(r, a) >= 0
    BY <1>5, <1>7, <1>12, <1>13, <1>14
  <2>2. Step(d, Put(t, x, r))
    BY <1>9, <1>10, <1>11, <2>1, AddTxStep DEF t, x
  <2> QED
    BY <1>5, <1>14, <2>2
<1>15. CASE savings # None
  <2>1. Good(m)
    BY <1>3, <1>4, <1>9, <1>10, <1>11, AddTx DEF Good, Flat
  <2>2. /\ DOMAIN m = DOMAIN t \cup {x} /\ m[x] = r
        /\ \A y \in DOMAIN t : m[y] = t[y]
    BY <1>4 DEF Put
  <2>3. \A a \in AccountIds : a \in DOMAIN t => Balance(m, a) = Balance(t, a) + Effect(r, a)
    BY <1>3, <1>4, <1>9, AddTxBalance
  <2>4. q \in Transactions
    BY <1>6, <1>7, <1>15, TxRowOk
  <2>5. /\ q.type = "transfer" /\ q.amt = amt /\ q.from = savings /\ q.to = acc
        /\ q.src = "manual" /\ q.key = FundingOf(Rent) /\ q.of = None
    BY TxRowFields
  <2> HIDE DEF q, m
  <2>6. \A y \in TxIds : y \in DOMAIN m => m[y].key # FundingOf(Rent)
    BY <1>3, <1>8, <1>10, <2>2, NoFunding, IdsApart DEF Flat
  <2>7. savings # acc
    BY <1>6, <1>15
  <2>8. Listed(m, q)
    <3>1. m[savings] = t[savings] /\ m[acc] = t[acc]
      BY <1>6, <1>7, <1>15, <2>2
    <3>2. x \in DOMAIN m /\ m[x].key = Rent /\ m[x].src = "commitment"
          /\ m[x].from = q.to /\ m[x].amt = q.amt
      BY <1>10, <2>2, <2>5
    <3> QED
      BY <1>4, <1>6, <1>7, <1>15, <2>2, <2>5, <2>6, <2>7, <3>1, <3>2, NamesApart, IdsApart
      DEF Listed
  <2> DEFINE n == Put(m, f, q)
  <2>9. f \notin DOMAIN m
    BY <1>4, <2>2
  <2>10. Good(n)
    BY <1>4, <2>1, <2>4, <2>5, <2>8, <2>9, AddTx DEF Good, Flat
  <2>11. \A a \in AccountIds : a \in DOMAIN m => Balance(n, a) = Balance(m, a) + Effect(q, a)
    BY <1>4, <2>1, <2>4, <2>9, AddTxBalance
  <2>12. \A a : Effect(q, a) = IF a = acc THEN amt ELSE IF a = savings THEN -amt ELSE 0
    BY <1>7, <2>5, <2>7 DEF Effect
  <2>13. /\ DOMAIN n = DOMAIN t \cup {x, f}
         /\ \A y \in DOMAIN t : n[y] = t[y]
    BY <1>4, <2>2 DEF Put
  <2>14. n = Put(Put(t, f, q), x, r)
    BY <1>4, PutCommutes DEF m
  <2> HIDE DEF n
  <2>15. Solvent(t, n)
    <3> SUFFICES ASSUME NEW a \in AccountIds, a \in DOMAIN t
                 PROVE  Balance(n, a) < Balance(t, a) => Balance(n, a) >= 0
      BY <1>3, RowsAre DEF Solvent
    <3>1. Balance(n, a) = Balance(t, a) + Effect(r, a) + Effect(q, a)
      BY <2>2, <2>3, <2>11
    <3> QED
      BY <1>6, <1>7, <1>12, <1>13, <1>15, <2>12, <3>1
  <2>16. StatusKept(t, n)
    BY <1>3, <1>4, <2>10, <2>13, IdsApart, StatusSame DEF Good
  <2>17. Step(d, n)
    BY <2>10, <2>13, <2>15, <2>16 DEF Step, t, x, f
  <2> QED
    BY <1>5, <1>15, <2>14, <2>17
<1> QED
  BY <1>14, <1>15

\* Rows that are neither accounts nor in the ledger move no balance.
LEMMA PlanRowBalance ==
    ASSUME NEW t, Table(t), NEW e \in Ids, e \notin TxIds \cup AccountIds, NEW v, RowOk(e, v)
    PROVE  \A a \in AccountIds : a \in DOMAIN t => Balance(Put(t, e, v), a) = Balance(t, a)
<1> DEFINE n == Put(t, e, v)
<1>1. /\ DOMAIN n = DOMAIN t \cup {e} /\ n[e] = v
      /\ \A x \in DOMAIN t : x # e => n[x] = t[x]
  BY DEF Put
<1>2. Table(n)
  BY PutTable
<1> HIDE DEF n
<1> SUFFICES ASSUME NEW a \in AccountIds, a \in DOMAIN t
             PROVE  Balance(n, a) = Balance(t, a)
  BY DEF n
<1>3. n[a].open = t[a].open
  BY <1>1
<1>4. \A x \in TxIds : x \in DOMAIN n <=> x \in DOMAIN t
  BY <1>1
<1>5. \A x \in TxIds : x \in DOMAIN t => Effect(n[x], a) = Effect(t[x], a)
  BY <1>1
<1> QED
  BY <1>2, <1>3, <1>4, <1>5, BalanceSame DEF Table

\* markPlannedEventPaid.
LEMMA MarkPlannedEventPaidSteps ==
    ASSUME NEW d, Ready(d), MarkPlannedEventPaid(d)
    PROVE  \E new : Does(d, new) /\ Step(d, new)
<1> DEFINE t == db[d]
           e == t[Visit]
           x == NewTx(d)
           f == NewFunding(d)
           short(acc, amt) == Max({0, amt - Balance(t, acc)})
           fund(s, topUp, acc) == [Tx("transfer", s, topUp, acc, "manual")
                                     EXCEPT !.key = FundingOf(Visit)]
           pay(acc, amt) == [Tx("expense", amt, acc, None, "planned-event") EXCEPT !.of = Visit]
           toppedUp(s, topUp, acc) == IF s > 0 THEN Put(t, f, fund(s, topUp, acc)) ELSE t
           paid(s, topUp, acc, amt) == Put(Put(toppedUp(s, topUp, acc), x, pay(acc, amt)),
                                           Visit, [e EXCEPT !.acc = acc, !.paid = x])
<1>1. PICK acc \in Rows(t, "account"), topUp \in Rows(t, "account"), amt \in 1..2 :
         /\ Visit \in DOMAIN t /\ e.paid = None
         /\ short(acc, amt) > 0 => /\ t[acc].prot /\ ~t[topUp].prot
                                   /\ Balance(t, topUp) >= short(acc, amt)
                                   /\ Keyed(t, FundingOf(Visit)) = {}
         /\ LET done == acc = e.acc /\ e.goal # None /\ Completes(t, e.goal, Visit) IN
            Does(d, IF done
                    THEN Put(paid(short(acc, amt), topUp, acc, amt), e.goal,
                             [t[e.goal] EXCEPT !.used = TRUE])
                    ELSE paid(short(acc, amt), topUp, acc, amt))
  BY DEF MarkPlannedEventPaid
<1> DEFINE s == short(acc, amt)
           q == TxRow("transfer", s, topUp, acc, "manual", FundingOf(Visit), None)
           r == TxRow("expense", amt, acc, None, "planned-event", None, Visit)
           k == IF s > 0 THEN Put(t, f, q) ELSE t
           m == Put(k, x, r)
           v == [e EXCEPT !.acc = acc, !.paid = x]
           p == Put(m, Visit, v)
           done == acc = e.acc /\ e.goal # None /\ Completes(t, e.goal, Visit)
           n == IF done THEN Put(p, e.goal, [t[e.goal] EXCEPT !.used = TRUE]) ELSE p
<1>2. pay(acc, amt) = r /\ fund(s, topUp, acc) = q
  BY DEF Tx, TxRow
<1>3. Does(d, n)
  BY <1>1, <1>2
<1>4. Good(t) /\ Table(t) /\ Conforms(t) /\ Flat(t)
  BY DEF Ready, Good, Table
<1>5. x \in TxIds /\ f \in TxIds /\ x # f /\ x \notin DOMAIN t /\ f \notin DOMAIN t
  BY NewIds
<1>6. /\ acc \in AccountIds /\ acc \in DOMAIN t /\ topUp \in AccountIds /\ topUp \in DOMAIN t
      /\ amt \in Int /\ amt > 0 /\ Visit \in DOMAIN t /\ t[Visit].paid = None
  BY <1>1, <1>4, RowsAre
<1>7. \A a \in AccountIds : a \in DOMAIN t => Balance(t, a) \in Int
  BY <1>4, BalanceType, FieldsAre DEF Table
<1>8. s \in Int /\ s = IF amt - Balance(t, acc) > 0 THEN amt - Balance(t, acc) ELSE 0
  <2>1. amt - Balance(t, acc) \in Int
    BY <1>6, <1>7
  <2> QED
    BY <2>1, MaxZero
<1>9. s > 0 => /\ t[acc].prot /\ ~t[topUp].prot /\ Balance(t, topUp) >= s
               /\ \A y \in TxIds : y \in DOMAIN t => t[y].key # FundingOf(Visit)
  BY <1>1, <1>4, RowsAre DEF Keyed
<1> HIDE DEF t, x, f, s
<1>10. /\ \A a : Effect(r, a) = IF a = acc THEN -amt ELSE 0
       /\ r.type = "expense" /\ r.from = acc /\ r.src = "planned-event" /\ r.key = None
       /\ r.of = Visit /\ r \in Transactions
  <2>1. r \in Transactions
    BY <1>6, IdsApart, TxRowOk
  <2>2. /\ r.type = "expense" /\ r.amt = amt /\ r.from = acc /\ r.to = None
        /\ r.src = "planned-event" /\ r.key = None /\ r.of = Visit
    BY TxRowFields
  <2> HIDE DEF r
  <2> QED
    BY <2>1, <2>2 DEF Effect
<1>11. /\ Good(k) /\ x \notin DOMAIN k /\ DOMAIN t \subseteq DOMAIN k
       /\ DOMAIN k \subseteq DOMAIN t \cup {f}
       /\ \A y \in DOMAIN t : k[y] = t[y]
       /\ f \in DOMAIN k => k[f].src = "manual"
       /\ \A a \in AccountIds : a \in DOMAIN t =>
             Balance(k, a) = Balance(t, a) + (IF s > 0 /\ a = acc THEN s
                                              ELSE IF s > 0 /\ a = topUp THEN -s ELSE 0)
  <2>1. CASE s > 0
    <3>1. q \in Transactions
      BY <1>6, <1>8, <2>1, IdsApart, TxRowOk
    <3>2. /\ q.type = "transfer" /\ q.amt = s /\ q.from = topUp /\ q.to = acc
          /\ q.src = "manual" /\ q.key = FundingOf(Visit) /\ q.of = None
      BY TxRowFields
    <3> HIDE DEF q
    <3>3. Listed(t, q)
      BY <1>6, <1>9, <2>1, <3>2, IdsApart, NamesApart DEF Listed
    <3>4. Good(Put(t, f, q))
      BY <1>4, <1>5, <3>1, <3>2, <3>3, AddTx DEF Good, Flat
    <3>5. /\ DOMAIN Put(t, f, q) = DOMAIN t \cup {f} /\ Put(t, f, q)[f] = q
          /\ \A y \in DOMAIN t : Put(t, f, q)[y] = t[y]
      BY <1>5 DEF Put
    <3>6. \A a \in AccountIds : a \in DOMAIN t =>
             Balance(Put(t, f, q), a) = Balance(t, a) + Effect(q, a)
      BY <1>4, <1>5, <3>1, AddTxBalance
    <3>7. \A a : Effect(q, a) = IF a = acc THEN s ELSE IF a = topUp THEN -s ELSE 0
      BY <1>8, <1>9, <2>1, <3>2 DEF Effect
    <3>8. k = Put(t, f, q)
      BY <2>1
    <3> HIDE DEF k
    <3> QED
      BY <1>5, <2>1, <3>2, <3>4, <3>5, <3>6, <3>7, <3>8
  <2>2. CASE ~(s > 0)
    <3>1. k = t
      BY <2>2
    <3> QED
      BY <1>4, <1>5, <1>7, <2>2, <3>1
  <2> QED
    BY <2>1, <2>2
<1> HIDE DEF k, r
<1>12. Listed(k, r)
  BY <1>6, <1>10, <1>11, IdsApart, NamesApart DEF Listed
<1>13. Table(m) /\ Core(m) /\ RepaymentFits(m)
  BY <1>5, <1>10, <1>11, <1>12, AddTx DEF Core
<1>14. /\ DOMAIN m = DOMAIN k \cup {x} /\ m[x] = r
       /\ \A y \in DOMAIN k : m[y] = k[y]
  BY <1>11 DEF Put
<1>15. \A a \in AccountIds : a \in DOMAIN t => Balance(m, a) = Balance(k, a) + Effect(r, a)
  BY <1>5, <1>10, <1>11, AddTxBalance
<1> HIDE DEF m
<1>16. v.acc = acc /\ v.paid = x /\ v.goal = t[Visit].goal /\ v \in Events
  <2>1. t[Visit] \in Events
    BY <1>4, <1>6 DEF Conforms
  <2> QED
    BY <1>5, <1>6, <2>1 DEF Events
<1> HIDE DEF v
<1>17. m[Visit] = t[Visit] /\ Visit \in DOMAIN m
  BY <1>6, <1>11, <1>14
<1>18. Good(p)
  <2>1. PlanFits(m, Visit, v)
    <3>1. \A g \in GoalIds : g \in DOMAIN m => ~m[g].used
      BY <1>6, <1>13, <1>17 DEF Core, GoalFits
    <3>2. m[acc] = t[acc] /\ acc \in DOMAIN m
      BY <1>6, <1>11, <1>14
    <3> QED
      BY <1>13, <1>16, <3>1, <3>2, IdsApart, NamesApart DEF PlanFits, Core, NotOverpaid
  <2>2. EventRow(m, v)
    <3>1. \A y \in TxIds : y \in DOMAIN t => t[y].src # "planned-event"
      BY <1>4, <1>6, IdsApart DEF Flat, EventFits
    <3>2. \A y \in TxIds : y \in DOMAIN m /\ m[y].src = "planned-event" => y = x
      BY <1>11, <1>14, <3>1
    <3>3. v.goal # None => v.goal \in DOMAIN m
      BY <1>4, <1>6, <1>11, <1>14, <1>16 DEF Flat, EventFits
    <3> QED
      BY <1>10, <1>14, <1>16, <3>2, <3>3 DEF EventRow
  <2>3. RowOk(Visit, v) /\ Visit \in Ids /\ Visit \notin TxIds \cup PaymentIds
    BY <1>16, RowOkIs, IdsApart
  <2> QED
    BY <1>13, <2>1, <2>2, <2>3, EditPlan DEF Good, Flat, Core
<1>19. /\ DOMAIN p = DOMAIN m /\ p[Visit] = v
       /\ \A y \in DOMAIN m : y # Visit => p[y] = m[y]
  BY <1>17 DEF Put
<1>20. \A a \in AccountIds : a \in DOMAIN t => Balance(p, a) = Balance(m, a)
  <2>1. RowOk(Visit, v) /\ Visit \in Ids /\ Visit \notin TxIds \cup AccountIds
    BY <1>16, RowOkIs, IdsApart
  <2> QED
    BY <1>11, <1>13, <1>14, <2>1, PlanRowBalance
<1> HIDE DEF p
<1>21. /\ Good(n) /\ DOMAIN n = DOMAIN t \cup (DOMAIN k \cup {x})
       /\ \A y \in DOMAIN n : y \notin GoalIds \cup {Visit} => n[y] = p[y]
       /\ \A a \in AccountIds : a \in DOMAIN t => Balance(n, a) = Balance(p, a)
  <2>1. CASE done
    <3> DEFINE g == t[Visit].goal
               w == [t[g] EXCEPT !.used = TRUE]
    <3>1. g \in GoalIds /\ g \in DOMAIN t /\ t[g].sinking /\ t[g].acc = acc
      BY <1>4, <1>6, <2>1, FieldsAre DEF Completes
    <3>2. w \in Goals /\ w.acc = acc /\ w.sinking = t[g].sinking /\ w.used
      <4>1. t[g] \in Goals
        BY <1>4, <3>1 DEF Conforms
      <4> QED
        BY <3>1, <4>1 DEF Goals
    <3>3. g # Visit /\ g \notin TxIds \cup PaymentIds \cup AccountIds /\ g # Loan
      BY <3>1, IdsApart
    <3>4. p[g] = t[g] /\ g \in DOMAIN p
      BY <1>11, <1>14, <1>19, <3>1, <3>3
    <3>5. n = Put(p, g, w)
      BY <2>1
    <3> HIDE DEF w, g, n, done
    <3>6. g \in Ids /\ RowOk(g, w)
      BY <3>1, <3>2, RowOkIs
    <3>7. PlanFits(p, g, w)
      <4>1. Flat(p)
        BY <1>18 DEF Good
      <4>2. p[acc].prot /\ \A h \in GoalIds : h \in DOMAIN p /\ p[h].acc = acc => h = g
        BY <3>1, <3>4, <4>1 DEF Flat, GoalFits
      <4>3. \A y \in TxIds : y \in DOMAIN p /\ p[y].src = "goal" /\ p[y].of = g =>
               p[y].to = acc
        BY <3>1, <3>4, <4>1 DEF Flat, Realized
      <4>4. /\ Visit \in DOMAIN p /\ p[Visit].goal = g /\ p[Visit].acc = acc
            /\ p[Visit].paid # None
        BY <1>5, <1>16, <1>17, <1>19, IdsApart DEF g
      <4>5. acc \in DOMAIN p
        BY <1>6, <1>11, <1>14, <1>19
      <4> QED
        BY <3>1, <3>2, <3>3, <4>2, <4>3, <4>4, <4>5, IdsApart DEF PlanFits
    <3>8. Good(Put(p, g, w))
      BY <1>18, <3>3, <3>6, <3>7, EditPlan DEF Good, Flat, Core
    <3>9. /\ DOMAIN Put(p, g, w) = DOMAIN p
          /\ \A y \in DOMAIN p : y # g => Put(p, g, w)[y] = p[y]
      BY <3>4 DEF Put
    <3>10. \A a \in AccountIds : a \in DOMAIN p => Balance(Put(p, g, w), a) = Balance(p, a)
      BY <1>18, <3>3, <3>6, PlanRowBalance DEF Good
    <3> QED
      BY <1>11, <1>14, <1>19, <3>1, <3>5, <3>8, <3>9, <3>10
  <2>2. CASE ~done
    <3>1. n = p
      BY <2>2
    <3> HIDE DEF n
    <3> QED
      BY <1>11, <1>14, <1>18, <1>19, <3>1
  <2> QED
    BY <2>1, <2>2
<1> HIDE DEF n, done
<1>22. Solvent(t, n)
  <2> SUFFICES ASSUME NEW a \in AccountIds, a \in DOMAIN t
               PROVE  Balance(n, a) < Balance(t, a) => Balance(n, a) >= 0
    BY <1>4, RowsAre DEF Solvent
  <2>1. Balance(n, a) = Balance(k, a) + Effect(r, a)
    BY <1>15, <1>20, <1>21
  <2> QED
    BY <1>6, <1>7, <1>8, <1>9, <1>10, <1>11, <2>1
<1>23. /\ \A y \in PaymentIds : /\ y \in DOMAIN n <=> y \in DOMAIN t
                                /\ y \in DOMAIN t => n[y] = t[y]
       /\ Loan \in DOMAIN n => Loan \in DOMAIN t /\ n[Loan] = t[Loan]
  <2>1. \A y \in PaymentIds \cup {Loan} : y \notin TxIds \cup GoalIds \cup {Visit}
    BY IdsApart, NamesApart
  <2> QED
    BY <1>5, <1>11, <1>14, <1>19, <1>21, <2>1
<1>24. StatusKept(t, n)
  BY <1>4, <1>21, <1>23, StatusSame DEF Good
<1>25. Step(d, n)
  BY <1>11, <1>21, <1>22, <1>24 DEF Step, t, x, f
<1> QED
  BY <1>3, <1>25

\* recordDebtPayment.
LEMMA RecordDebtPaymentSteps ==
    ASSUME NEW d, Ready(d), RecordDebtPayment(d)
    PROVE  \E new : Does(d, new) /\ Step(d, new)
<1> DEFINE t == db[d]
           x == NewTx(d)
           p == NewPayment(d)
           row(acc, amt) == [Tx("expense", amt, acc, None, "debt") EXCEPT !.of = p]
           spent(acc, amt) == IF acc # None THEN Put(t, x, row(acc, amt)) ELSE t
           repaid(acc, amt) ==
              Put(spent(acc, amt), p, Payment(amt, IF acc # None THEN x ELSE None))
<1>1. PICK acc \in Rows(t, "account") \cup {None}, amt \in 1..2 :
         /\ Loan \in DOMAIN t /\ amt <= Remaining(t, Loan)
         /\ acc # None => HasFunds(t, acc, amt)
         /\ Does(d, IF Settles(t, amt)
                    THEN Put(repaid(acc, amt), Loan, [t[Loan] EXCEPT !.status = "paid"])
                    ELSE repaid(acc, amt))
  BY DEF RecordDebtPayment
<1> DEFINE r == TxRow("expense", amt, acc, None, "debt", None, p)
           m == IF acc # None THEN Put(t, x, r) ELSE t
           v == Payment(amt, IF acc # None THEN x ELSE None)
           k == Put(m, p, v)
           w == [t[Loan] EXCEPT !.status = "paid"]
           n == IF Settles(t, amt) THEN Put(k, Loan, w) ELSE k
<1>2. row(acc, amt) = r
  BY DEF Tx, TxRow
<1>3. Does(d, n)
  BY <1>1, <1>2
<1>4. Good(t) /\ Table(t) /\ Conforms(t) /\ Flat(t)
  BY DEF Ready, Good, Table
<1>5. x \in TxIds /\ p \in PaymentIds /\ x \notin DOMAIN t /\ p \notin DOMAIN t
  BY NewIds
<1>6. /\ Loan \in DOMAIN t /\ amt \in Int /\ amt > 0 /\ t[Loan].orig \in Int
      /\ Paid(t, Loan) \in Int
      /\ acc # None => acc \in AccountIds /\ acc \in DOMAIN t /\ Balance(t, acc) >= amt
  BY <1>1, <1>4, RowsAre, FieldsAre, PaidType DEF HasFunds, Table
<1>7. /\ Remaining(t, Loan) = IF t[Loan].orig - Paid(t, Loan) > 0
                              THEN t[Loan].orig - Paid(t, Loan) ELSE 0
      /\ amt <= Remaining(t, Loan)
  <2>1. t[Loan].orig - Paid(t, Loan) \in Int
    BY <1>6
  <2> QED
    BY <1>1, <2>1, MaxZero DEF Remaining
<1>8. \A a \in AccountIds : a \in DOMAIN t => Balance(t, a) \in Int
  BY <1>4, BalanceType, FieldsAre DEF Table
<1> HIDE DEF t, x, p
<1>9. acc # None =>
         /\ \A a : Effect(r, a) = IF a = acc THEN -amt ELSE 0
         /\ r.type = "expense" /\ r.amt = amt /\ r.from = acc /\ r.src = "debt"
         /\ r.key = None /\ r.of = p /\ r \in Transactions
  <2> SUFFICES ASSUME acc # None
               PROVE  /\ \A a : Effect(r, a) = IF a = acc THEN -amt ELSE 0
                      /\ r.type = "expense" /\ r.amt = amt /\ r.from = acc /\ r.src = "debt"
                      /\ r.key = None /\ r.of = p /\ r \in Transactions
    OBVIOUS
  <2>1. r \in Transactions
    BY <1>5, <1>6, IdsApart, TxRowOk
  <2>2. /\ r.type = "expense" /\ r.amt = amt /\ r.from = acc /\ r.to = None
        /\ r.src = "debt" /\ r.key = None /\ r.of = p
    BY TxRowFields
  <2> HIDE DEF r
  <2> QED
    BY <2>1, <2>2 DEF Effect
<1> HIDE DEF r
<1>10. /\ Table(m) /\ Core(m) /\ EventFits(m)
       /\ DOMAIN m = DOMAIN t \cup (IF acc # None THEN {x} ELSE {})
       /\ \A y \in DOMAIN t : m[y] = t[y]
       /\ acc # None => m[x] = r
       /\ \A a \in AccountIds : a \in DOMAIN t =>
             Balance(m, a) = Balance(t, a) + (IF a = acc THEN -amt ELSE 0)
  <2>1. CASE acc # None
    <3>1. Listed(t, r)
      BY <1>5, <1>6, <1>9, <2>1, IdsApart, NamesApart DEF Listed
    <3> DEFINE u == Put(t, x, r)
    <3>2. Table(u) /\ Core(u) /\ EventFits(u)
      BY <1>4, <1>5, <1>9, <2>1, <3>1, AddTx DEF Core
    <3>3. DOMAIN u = DOMAIN t \cup {x} /\ u[x] = r /\ \A y \in DOMAIN t : u[y] = t[y]
      BY <1>5 DEF Put
    <3>4. \A a \in AccountIds : a \in DOMAIN t => Balance(u, a) = Balance(t, a) + Effect(r, a)
      BY <1>4, <1>5, <1>9, <2>1, AddTxBalance
    <3>5. m = u
      BY <2>1
    <3> HIDE DEF m, u
    <3> QED
      BY <1>9, <2>1, <3>2, <3>3, <3>4, <3>5
  <2>2. CASE acc = None
    <3>1. m = t
      BY <2>2
    <3> HIDE DEF m
    <3>2. \A a \in AccountIds : a # acc
      BY <2>2, IdsApart
    <3> QED
      BY <1>4, <1>8, <2>2, <3>1, <3>2 DEF Flat, Core
  <2> QED
    BY <2>1, <2>2
<1> HIDE DEF m
<1>11. /\ v \in Payments /\ v.amt = amt
       /\ acc = None => v.tx = None
       /\ acc # None => v.tx = x
  BY <1>5 DEF Payment, Payments, Amounts
<1> HIDE DEF v
<1>12. /\ Loan \notin TxIds \cup PaymentIds \cup AccountIds /\ Loan \notin GoalIds
       /\ Loan # Visit /\ p \notin TxIds \cup AccountIds /\ x \notin PaymentIds /\ x # Loan
       /\ p # Loan
  BY <1>5, IdsApart, NamesApart
<1>13. p \notin DOMAIN m /\ Loan \in DOMAIN m /\ m[Loan] = t[Loan]
  BY <1>5, <1>6, <1>10, <1>12
<1>14. Paid(m, Loan) = Paid(t, Loan)
  <2>1. \A y \in PaymentIds : /\ y \in DOMAIN m <=> y \in DOMAIN t
                              /\ y \in DOMAIN t => m[y].amt = t[y].amt
    BY <1>10, <1>12
  <2> QED
    BY <1>4, <1>10, <2>1, PaidSame DEF Table
<1>15. /\ Table(k) /\ Core(k) /\ EventFits(k) /\ Paid(k, Loan) = Paid(t, Loan) + amt
       /\ Paid(k, Loan) <= t[Loan].orig
  <2>1. Paid(m, Loan) + v.amt <= m[Loan].orig
    BY <1>6, <1>7, <1>11, <1>13, <1>14
  <2>2. Table(k) /\ Core(k) /\ EventFits(k) /\ Paid(k, Loan) = Paid(m, Loan) + v.amt
    BY <1>5, <1>10, <1>11, <1>13, <2>1, AddPayment
  <2> QED
    BY <1>11, <1>13, <1>14, <2>1, <2>2
<1>16. /\ DOMAIN k = DOMAIN m \cup {p} /\ k[p] = v
       /\ \A y \in DOMAIN m : k[y] = m[y]
  BY <1>13 DEF Put
<1>17. \A a \in AccountIds : a \in DOMAIN t => Balance(k, a) = Balance(m, a)
  <2>1. RowOk(p, v) /\ p \in Ids
    BY <1>5, <1>11, RowOkIs
  <2> QED
    BY <1>10, <1>12, <2>1, PlanRowBalance
<1> HIDE DEF k
<1>18. RepaymentFits(k)
  <2>1. Conforms(t) /\ RepaymentFits(t)
    BY <1>4 DEF Flat
  <2>2. \A y \in TxIds : y \in DOMAIN t /\ t[y].src = "debt" =>
           t[y].of \in DOMAIN t /\ t[t[y].of].tx = y /\ t[t[y].of].amt = t[y].amt
    BY <2>1 DEF RepaymentFits
  <2>3. \A y \in PaymentIds : y \in DOMAIN t =>
           (t[y].tx # None => t[y].tx \in DOMAIN t /\ t[t[y].tx].of = y)
    BY <2>1 DEF RepaymentFits
  <2>4. \A y \in DOMAIN t : y \in DOMAIN k /\ k[y] = t[y] /\ y # x /\ y # p
    BY <1>5, <1>10, <1>16
  <2>5. acc # None => x \in DOMAIN k /\ k[x] = r
    BY <1>10, <1>16
  <2>6. p \in DOMAIN k /\ k[p] = v /\ Loan \in DOMAIN k
    BY <1>13, <1>16
  <2>7. \A y \in TxIds : y \in DOMAIN k => y \in DOMAIN t \/ (y = x /\ acc # None)
    BY <1>10, <1>12, <1>16
  <2>8. \A y \in PaymentIds : y \in DOMAIN k => y \in DOMAIN t \/ y = p
    BY <1>10, <1>12, <1>16
  <2>9. \A y \in TxIds : y \in DOMAIN k /\ k[y].src = "debt" =>
           k[y].of \in DOMAIN k /\ k[k[y].of].tx = y /\ k[k[y].of].amt = k[y].amt
    BY <1>9, <1>11, <2>2, <2>4, <2>5, <2>6, <2>7
  <2>10. \A y \in PaymentIds : y \in DOMAIN k =>
            (k[y].tx # None => k[y].tx \in DOMAIN k /\ k[k[y].tx].of = y)
    BY <1>9, <1>11, <2>3, <2>4, <2>5, <2>6, <2>8
  <2> QED
    BY <2>6, <2>9, <2>10 DEF RepaymentFits
<1>19. w \in Debts /\ w.orig = t[Loan].orig /\ w.status = "paid"
  <2>1. t[Loan] \in Debts
    BY <1>4, <1>6 DEF Conforms
  <2> QED
    BY <2>1 DEF Debts
<1> HIDE DEF w
<1>20. k[Loan] = t[Loan] /\ Loan \in DOMAIN k
  BY <1>13, <1>16
<1>21. /\ Good(n) /\ DOMAIN n = DOMAIN k
       /\ \A y \in DOMAIN k : y # Loan => n[y] = k[y]
       /\ Settles(t, amt) => n[Loan] = w
       /\ ~Settles(t, amt) => n[Loan] = t[Loan]
       /\ \A a \in AccountIds : a \in DOMAIN t => Balance(n, a) = Balance(k, a)
  <2>1. CASE Settles(t, amt)
    <3>1. RowOk(Loan, w) /\ Loan \in Ids
      BY <1>19, RowOkIs
    <3>2. PlanFits(k, Loan, w)
      BY <1>12, <1>15, <1>19, IdsApart, NamesApart DEF PlanFits
    <3> DEFINE u == Put(k, Loan, w)
    <3>3. Good(u)
      BY <1>12, <1>15, <1>18, <3>1, <3>2, EditPlan DEF Good, Flat, Core
    <3>4. DOMAIN u = DOMAIN k /\ u[Loan] = w /\ \A y \in DOMAIN k : y # Loan => u[y] = k[y]
      BY <1>20 DEF Put
    <3>5. \A a \in AccountIds : a \in DOMAIN k => Balance(u, a) = Balance(k, a)
      BY <1>12, <1>15, <3>1, PlanRowBalance
    <3>6. n = u
      BY <2>1
    <3> HIDE DEF n, u
    <3> QED
      BY <1>10, <1>16, <2>1, <3>3, <3>4, <3>5, <3>6
  <2>2. CASE ~Settles(t, amt)
    <3>1. n = k
      BY <2>2
    <3> HIDE DEF n
    <3> QED
      BY <1>15, <1>18, <1>20, <2>2, <3>1 DEF Good, Flat, Core
  <2> QED
    BY <2>1, <2>2
<1> HIDE DEF n
<1>22. Solvent(t, n)
  <2> SUFFICES ASSUME NEW a \in AccountIds, a \in DOMAIN t
               PROVE  Balance(n, a) < Balance(t, a) => Balance(n, a) >= 0
    BY <1>4, RowsAre DEF Solvent
  <2>1. Balance(n, a) = Balance(t, a) + (IF a = acc THEN -amt ELSE 0)
    BY <1>10, <1>17, <1>21
  <2>2. None \notin AccountIds
    BY IdsApart
  <2> QED
    BY <1>6, <1>8, <2>1, <2>2
<1>23. StatusKept(t, n)
  <2>1. Paid(n, Loan) = Paid(k, Loan)
    <3>1. \A y \in PaymentIds : /\ y \in DOMAIN n <=> y \in DOMAIN k
                                /\ y \in DOMAIN k => n[y].amt = k[y].amt
      BY <1>12, <1>21
    <3> QED
      BY <1>15, <1>21, <3>1, PaidSame DEF Good, Table
  <2>2. Settles(t, amt) <=> Paid(t, Loan) + amt = t[Loan].orig
    BY <1>6, <1>7 DEF Settles
  <2>3. Paid(t, Loan) # t[Loan].orig
    BY <1>6, <1>7
  <2> QED
    BY <1>6, <1>15, <1>19, <1>20, <1>21, <2>1, <2>2, <2>3 DEF StatusKept, StatusRight
<1>24. Step(d, n)
  BY <1>10, <1>16, <1>21, <1>22, <1>23 DEF Step, t, x, p
<1> QED
  BY <1>3, <1>24

\* Tables u are tables t, but nothing hangs on the ledger row x any more: it
\* pays no event and is no repayment.
Detached(t, u, x) ==
    /\ Table(u) /\ Core(u) /\ DOMAIN u \subseteq DOMAIN t /\ StatusKept(t, u)
    /\ \A y \in TxIds : (y \in DOMAIN u <=> y \in DOMAIN t) /\ (y \in DOMAIN t => u[y] = t[y])
    /\ \A y \in TxIds : y \in DOMAIN t /\ y # x =>
          /\ t[y].src = "planned-event" => Visit \in DOMAIN u /\ u[Visit].paid = y
          /\ t[y].src = "debt" =>
                t[y].of \in DOMAIN u /\ u[t[y].of].tx = y /\ u[t[y].of].amt = t[y].amt
    /\ Visit \in DOMAIN u =>
          /\ u[Visit].goal # None => u[Visit].goal \in DOMAIN u
          /\ u[Visit].paid # None => /\ u[Visit].paid \in DOMAIN t /\ u[Visit].paid # x
                                     /\ t[u[Visit].paid].of = Visit
    /\ \A p \in PaymentIds : p \in DOMAIN u =>
          /\ Loan \in DOMAIN u
          /\ u[p].tx # None => u[p].tx \in DOMAIN t /\ u[p].tx # x /\ t[u[p].tx].of = p

\* A row that pays an event, taken off it.
LEMMA UnpaidDetaches ==
    ASSUME NEW t, Good(t), NEW x \in TxIds, x \in DOMAIN t, PaysFor(t, x, t[x].of)
    PROVE  /\ t[x].of = Visit /\ Detached(t, Unpaid(t, x), x)
           /\ Unrepaid(Unpaid(t, x), x) = Unpaid(t, x)
<1> DEFINE e == t[Visit]
           g == t[Visit].goal
           v == [e EXCEPT !.paid = None]
           w == [t[g] EXCEPT !.used = FALSE]
           reopen == g # None /\ Completes(t, g, Visit) /\ t[g].used
           k == IF reopen THEN Put(t, g, w) ELSE t
           u == Put(k, Visit, v)
<1>1. Table(t) /\ Conforms(t) /\ Flat(t)
  BY DEF Good, Table
<1>2. t[x].of = Visit /\ Visit \in DOMAIN t /\ e.paid = x
  BY <1>1, RowsAre DEF PaysFor
<1>3. Unpaid(t, x) = IF reopen THEN Put(Put(t, Visit, v), g, w) ELSE Put(t, Visit, v)
  <2>1. Rows(t, "event") \ {Visit} = {}
    BY <1>1, RowsAre
  <2>2. {o \in Rows(t, "event") \ {Visit} :
            t[o].goal = g /\ t[o].paid # None /\ Completes(t, g, o)} = {}
    BY <2>1
  <2> QED
    BY <1>2, <2>2, Zenon DEF Unpaid
<1>4. g # None => g \in GoalIds /\ g \in DOMAIN t /\ g # Visit
  BY <1>1, <1>2, FieldsAre, IdsApart DEF Flat, EventFits
<1>5. Unpaid(t, x) = u
  BY <1>3, <1>4, PutCommutes
<1>6. v \in Events /\ v.paid = None /\ v.goal = g /\ v.acc = e.acc /\ v.is = "event"
  <2>1. e \in Events
    BY <1>1, <1>2 DEF Conforms
  <2> QED
    BY <2>1 DEF Events
<1> HIDE DEF v
<1>7. /\ Good(k) /\ DOMAIN k = DOMAIN t
      /\ \A y \in DOMAIN t : y # g => k[y] = t[y]
      /\ \A h \in GoalIds : h \in DOMAIN k => ~k[h].used
  <2>1. CASE reopen
    <3>1. w \in Goals /\ w.acc = t[g].acc /\ ~w.used
      <4>1. t[g] \in Goals
        BY <1>1, <1>4, <2>1 DEF Conforms
      <4> QED
        BY <4>1 DEF Goals
    <3> DEFINE m == Put(t, g, w)
    <3>2. /\ g \in GoalIds /\ g \in DOMAIN t /\ g \in Ids /\ RowOk(g, w)
          /\ g \notin TxIds \cup PaymentIds \cup AccountIds
          /\ g \notin {Rent, Salary, Visit, Loan, Preset, Settings}
      BY <1>4, <2>1, <3>1, RowOkIs, IdsApart
    <3>3. PlanFits(t, g, w)
      BY <1>1, <3>1, <3>2 DEF PlanFits, Flat, PlanAccounts, GoalFits, Realized
    <3>4. Good(m)
      BY <1>1, <3>2, <3>3, EditPlan DEF Good, Flat, Core
    <3>5. DOMAIN m = DOMAIN t /\ m[g] = w /\ \A y \in DOMAIN t : y # g => m[y] = t[y]
      BY <3>2 DEF Put
    <3>6. k = m
      BY <2>1
    <3> HIDE DEF k, m, w
    <3>7. ASSUME NEW h \in GoalIds, h \in DOMAIN k, k[h].used
          PROVE  FALSE
      <4>1. h # g /\ k[Visit].goal = h
        BY <3>1, <3>4, <3>5, <3>6, <3>7 DEF Good, Flat, GoalFits
      <4> QED
        BY <1>2, <3>2, <3>5, <3>6, <4>1
    <3> QED
      BY <3>4, <3>5, <3>6, <3>7
  <2>2. CASE ~reopen
    <3>1. k = t
      BY <2>2
    <3> HIDE DEF k
    <3>2. ASSUME NEW h \in GoalIds, h \in DOMAIN t, t[h].used
          PROVE  FALSE
      <4>1. t[h].sinking /\ t[Visit].goal = h /\ t[Visit].acc = t[h].acc
        BY <1>1, <3>2 DEF Flat, GoalFits
      <4>2. h # None
        BY IdsApart
      <4> QED
        BY <2>2, <3>2, <4>1, <4>2 DEF Completes
    <3> QED
      BY <1>1, <3>1, <3>2 DEF Good
  <2> QED
    BY <2>1, <2>2
<1> HIDE DEF k, reopen
<1>8. k[Visit] = e
  <2>1. Visit # None
    BY NamesApart
  <2>2. g # Visit
    BY <1>4, <2>1
  <2> QED
    BY <1>2, <1>7, <2>2
<1>9. Table(u) /\ Core(u) /\ RepaymentFits(u)
  <2>1. RowOk(Visit, v) /\ Visit \in Ids /\ Visit \notin TxIds \cup PaymentIds
    BY <1>6, RowOkIs, IdsApart
  <2>2. PlanFits(k, Visit, v)
    <3>1. e.acc \in DOMAIN k
      BY <1>1, <1>2, <1>7 DEF Flat, PlanAccounts
    <3> QED
      BY <1>6, <1>7, <3>1, IdsApart, NamesApart DEF PlanFits
  <2> QED
    BY <1>7, <2>1, <2>2, EditPlan DEF Good, Flat, Core
<1>10. /\ DOMAIN u = DOMAIN t /\ u[Visit] = v
       /\ \A y \in DOMAIN t : y # g /\ y # Visit => u[y] = t[y]
  BY <1>2, <1>7 DEF Put
<1> HIDE DEF u
<1>11. \A y \in TxIds \cup PaymentIds \cup {Loan} : y # Visit /\ y # g
  BY <1>4, IdsApart, NamesApart
<1>12. \A y \in TxIds \cup PaymentIds \cup {Loan} : y \in DOMAIN t => u[y] = t[y]
  BY <1>10, <1>11
<1>13. StatusKept(t, u)
  BY <1>1, <1>9, <1>10, <1>12, StatusSame
<1>14. Detached(t, u, x)
  <2>1. \A y \in TxIds : y \in DOMAIN t /\ y # x =>
           /\ t[y].src # "planned-event"
           /\ t[y].src = "debt" =>
                 t[y].of \in DOMAIN u /\ u[t[y].of].tx = y /\ u[t[y].of].amt = t[y].amt
    BY <1>1, <1>2, <1>9, <1>10, <1>12 DEF Flat, EventFits, RepaymentFits
  <2>2. u[Visit].goal # None => u[Visit].goal \in DOMAIN u
    BY <1>4, <1>6, <1>10
  <2>3. \A p \in PaymentIds : p \in DOMAIN u =>
           /\ Loan \in DOMAIN u
           /\ u[p].tx # None => u[p].tx \in DOMAIN t /\ u[p].tx # x /\ t[u[p].tx].of = p
    <3>1. Visit \notin PaymentIds
      BY IdsApart
    <3> QED
      BY <1>1, <1>2, <1>10, <1>12, <3>1 DEF Flat, RepaymentFits
  <2> QED
    BY <1>6, <1>9, <1>10, <1>12, <1>13, <2>1, <2>2, <2>3 DEF Detached
<1>15. Unrepaid(u, x) = u
  <2>1. u[x].of = Visit /\ Visit \notin Rows(u, "payment")
    BY <1>2, <1>6, <1>10, <1>12 DEF Rows
  <2> QED
    BY <2>1, Zenon DEF Unrepaid
<1> QED
  BY <1>2, <1>5, <1>14, <1>15

\* A row that is a repayment, taken off it.
LEMMA UnrepaidDetaches ==
    ASSUME NEW t, Good(t), NEW x \in TxIds, x \in DOMAIN t,
           t[x].of \in PaymentIds, t[x].of \in DOMAIN t, t[t[x].of].tx = x
    PROVE  Detached(t, Unrepaid(t, x), x)
<1> DEFINE p == t[x].of
           rest == Delete(t, {p})
           w == [rest[Loan] EXCEPT !.status = IF Remaining(rest, Loan) = 0 THEN "paid" ELSE "open"]
           u == Put(rest, Loan, w)
<1>1. Table(t) /\ Conforms(t) /\ Flat(t) /\ Core(t)
  BY DEF Good, Table, Flat, Core
<1>2. Loan \in DOMAIN t /\ t[p].debt = Loan
  BY <1>1, FieldsAre DEF Flat, RepaymentFits
<1>3. Unrepaid(t, x) = u
  <2>1. p \in Rows(t, "payment")
    BY <1>1, RowsAre
  <2> QED
    BY <1>2, <2>1, Zenon DEF Unrepaid
<1>4. p \in PaymentIds /\ p \in DOMAIN t /\ t[p].tx = x
  OBVIOUS
<1> HIDE DEF p
<1>5. Loan \notin TxIds \cup PaymentIds \cup AccountIds \cup GoalIds /\ Loan # Visit
  BY IdsApart, NamesApart
<1>6. Table(rest) /\ Core(rest) /\ EventFits(rest)
  BY <1>1, <1>2, <1>4, DropPayment DEF Flat
<1>7. DOMAIN rest = DOMAIN t \ {p} /\ \A y \in DOMAIN t : y # p => rest[y] = t[y]
  BY DEF Delete, Restrict
<1> HIDE DEF rest
<1>8. Loan \in DOMAIN rest /\ rest[Loan] = t[Loan]
  BY <1>2, <1>4, <1>5, <1>7
<1>9. /\ w \in Debts /\ w.orig = t[Loan].orig
      /\ w.status = IF Remaining(rest, Loan) = 0 THEN "paid" ELSE "open"
  <2>1. t[Loan] \in Debts
    BY <1>1, <1>2 DEF Conforms
  <2> QED
    BY <1>8, <2>1 DEF Debts
<1> HIDE DEF w
<1>10. Paid(rest, Loan) \in Int /\ Paid(rest, Loan) <= t[Loan].orig /\ t[Loan].orig \in Int
  BY <1>1, <1>2, <1>6, <1>8, PaidType, FieldsAre DEF Core, NotOverpaid, Table
<1>11. Table(u) /\ Core(u) /\ EventFits(u)
  <2>1. RowOk(Loan, w) /\ Loan \in Ids
    BY <1>9, RowOkIs
  <2>2. PlanFits(rest, Loan, w)
    BY <1>5, <1>9, <1>10, IdsApart, NamesApart DEF PlanFits
  <2> QED
    BY <1>5, <1>6, <2>1, <2>2, EditPlan
<1>12. /\ DOMAIN u = DOMAIN t \ {p} /\ u[Loan] = w
       /\ \A y \in DOMAIN t : y # p /\ y # Loan => u[y] = t[y]
  BY <1>7, <1>8 DEF Put
<1> HIDE DEF u
<1>13. StatusRight(u)
  <2>1. Paid(u, Loan) = Paid(rest, Loan)
    <3>1. \A y \in PaymentIds : /\ y \in DOMAIN u <=> y \in DOMAIN rest
                                /\ y \in DOMAIN rest => u[y].amt = rest[y].amt
      BY <1>5, <1>7, <1>12
    <3> QED
      BY <1>6, <1>11, <3>1, PaidSame DEF Table
  <2>2. Remaining(rest, Loan) = IF t[Loan].orig - Paid(rest, Loan) > 0
                                THEN t[Loan].orig - Paid(rest, Loan) ELSE 0
    <3>1. t[Loan].orig - Paid(rest, Loan) \in Int
      BY <1>10
    <3> QED
      BY <1>8, <3>1, MaxZero DEF Remaining
  <2> QED
    BY <1>9, <1>10, <1>12, <2>1, <2>2 DEF StatusRight
<1>14. \A y \in TxIds : y # p /\ y # Loan
  BY <1>4, IdsApart
<1>15. Visit \notin {p, Loan} /\ \A h \in GoalIds : h \notin {p, Loan}
  BY <1>4, IdsApart, NamesApart
<1>16. \A y \in TxIds : y \in DOMAIN t /\ y # x =>
          /\ t[y].src = "planned-event" => Visit \in DOMAIN u /\ u[Visit].paid = y
          /\ t[y].src = "debt" =>
                t[y].of \in DOMAIN u /\ u[t[y].of].tx = y /\ u[t[y].of].amt = t[y].amt
  <2> SUFFICES ASSUME NEW y \in TxIds, y \in DOMAIN t, y # x
               PROVE  /\ t[y].src = "planned-event" => Visit \in DOMAIN u /\ u[Visit].paid = y
                      /\ t[y].src = "debt" =>
                            /\ t[y].of \in DOMAIN u /\ u[t[y].of].tx = y
                            /\ u[t[y].of].amt = t[y].amt
    OBVIOUS
  <2>1. t[y].src = "planned-event" => Visit \in DOMAIN u /\ u[Visit].paid = y
    BY <1>1, <1>12, <1>15 DEF Flat, EventFits
  <2>2. t[y].src = "debt" => /\ t[y].of \in PaymentIds /\ t[y].of \in DOMAIN t
                             /\ t[t[y].of].tx = y /\ t[t[y].of].amt = t[y].amt
    BY <1>1, FieldsAre, TxTypes DEF Flat, RepaymentFits
  <2> QED
    BY <1>4, <1>5, <1>12, <2>1, <2>2
<1>17. Visit \in DOMAIN u =>
          /\ u[Visit].goal # None => u[Visit].goal \in DOMAIN u
          /\ u[Visit].paid # None => /\ u[Visit].paid \in DOMAIN t /\ u[Visit].paid # x
                                     /\ t[u[Visit].paid].of = Visit
  <2>1. Visit \in DOMAIN t /\ t[Visit].goal # None =>
           t[Visit].goal \in GoalIds /\ t[Visit].goal \in DOMAIN t
    BY <1>1, FieldsAre DEF Flat, EventFits
  <2>2. Visit \in DOMAIN t /\ t[Visit].paid # None =>
           /\ t[Visit].paid \in TxIds /\ t[Visit].paid \in DOMAIN t
           /\ t[t[Visit].paid].of = Visit
    BY <1>1, FieldsAre DEF Flat, EventFits
  <2>3. t[x].of # Visit
    BY <1>4, <1>15 DEF p
  <2> QED
    BY <1>12, <1>15, <2>1, <2>2, <2>3
<1>18. \A q \in PaymentIds : q \in DOMAIN u =>
          /\ Loan \in DOMAIN u
          /\ u[q].tx # None => u[q].tx \in DOMAIN t /\ u[q].tx # x /\ t[u[q].tx].of = q
  <2>1. \A q \in PaymentIds : q \in DOMAIN u => q \in DOMAIN t /\ u[q] = t[q] /\ q # t[x].of
    BY <1>5, <1>12 DEF p
  <2> QED
    BY <1>1, <1>4, <1>5, <1>12, <2>1 DEF Flat, RepaymentFits
<1>19. Detached(t, u, x)
  BY <1>11, <1>12, <1>13, <1>14, <1>16, <1>17, <1>18 DEF Detached, StatusKept
<1> QED
  BY <1>3, <1>19

\* Any row, taken off what hangs on it.
LEMMA RowDetaches ==
    ASSUME NEW t, Good(t), NEW x \in TxIds, x \in DOMAIN t
    PROVE  Detached(t, Unrepaid(Unpaid(t, x), x), x)
<1>1. CASE PaysFor(t, x, t[x].of)
  BY <1>1, UnpaidDetaches
<1>2. CASE ~PaysFor(t, x, t[x].of)
  <2>1. Unpaid(t, x) = t
    BY <1>2, Zenon DEF Unpaid
  <2>2. Table(t) /\ Conforms(t) /\ Flat(t) /\ Core(t)
    BY DEF Good, Table, Flat, Core
  <2>3. Rows(t, "payment") = DOMAIN t \cap PaymentIds
    BY <2>2, RowsAre
  <2>4. CASE t[x].of \in PaymentIds /\ t[x].of \in DOMAIN t /\ t[t[x].of].tx = x
    BY <2>1, <2>4, UnrepaidDetaches
  <2>5. CASE ~(t[x].of \in PaymentIds /\ t[x].of \in DOMAIN t /\ t[t[x].of].tx = x)
    <3>1. Unrepaid(t, x) = t
      BY <2>3, <2>5, Zenon DEF Unrepaid
    <3>2. \A y \in TxIds : y \in DOMAIN t =>
             /\ t[y].src = "planned-event" => Visit \in DOMAIN t /\ t[Visit].paid = y
             /\ t[y].src = "debt" =>
                   t[y].of \in DOMAIN t /\ t[t[y].of].tx = y /\ t[t[y].of].amt = t[y].amt
      BY <2>2 DEF Flat, EventFits, RepaymentFits
    <3>3. Visit \in DOMAIN t =>
             /\ t[Visit].goal # None => t[Visit].goal \in DOMAIN t
             /\ t[Visit].paid # None => /\ t[Visit].paid \in DOMAIN t /\ t[Visit].paid # x
                                        /\ t[t[Visit].paid].of = Visit
      <4>1. Visit \in DOMAIN t => Visit \in Rows(t, "event")
        BY <2>2, RowsAre
      <4> QED
        BY <1>2, <2>2, <4>1 DEF Flat, EventFits, PaysFor
    <3>4. \A p \in PaymentIds : p \in DOMAIN t =>
             /\ Loan \in DOMAIN t
             /\ t[p].tx # None => t[p].tx \in DOMAIN t /\ t[p].tx # x /\ t[t[p].tx].of = p
      BY <2>2, <2>5 DEF Flat, RepaymentFits
    <3> QED
      BY <2>1, <2>2, <3>1, <3>2, <3>3, <3>4 DEF Detached, StatusKept
  <2> QED
    BY <2>4, <2>5
<1> QED
  BY <1>1, <1>2

\* deleteTransaction.
LEMMA DeleteTransactionSteps ==
    ASSUME NEW d, Ready(d), DeleteTransaction(d)
    PROVE  \E new : Does(d, new) /\ Step(d, new)
<1> DEFINE t == db[d]
           u(x) == Unrepaid(Unpaid(t, x), x)
<1>1. PICK x \in Txs(t) :
         /\ \A acc \in Rows(t, "account") :
               Balance(Delete(u(x), {x} \cup FundingGone(t, x)), acc) >= 0
         /\ Does(d, Delete(u(x), {x} \cup FundingGone(t, x)))
  BY DEF DeleteTransaction
<1> DEFINE w == u(x)
           S == {x} \cup FundingGone(t, x)
           n == Delete(w, S)
<1>2. Good(t) /\ Table(t) /\ Conforms(t) /\ Flat(t)
  BY DEF Ready, Good, Table
<1>3. x \in TxIds /\ x \in DOMAIN t /\ Txs(t) = DOMAIN t \cap TxIds
  BY <1>2, RowsAre
<1>4. Detached(t, w, x)
  BY <1>2, <1>3, RowDetaches
<1>5. (\A acc \in Rows(t, "account") : Balance(n, acc) >= 0) /\ Does(d, n)
  BY <1>1
<1> HIDE DEF t, w
<1>6. \A y \in FundingGone(t, x) : /\ y \in TxIds /\ y \in DOMAIN t
                                   /\ t[y].src = "manual" /\ t[y].of = None
  <2>1. \A y \in TxIds : y \in DOMAIN t /\ t[y].key \in {FundingOf(Rent), FundingOf(Visit)} =>
           t[y].src = "manual" /\ t[y].of = None
    BY <1>2, FieldsAre, TxTypes
  <2>2. t[x].src = "commitment" => t[x].key = Rent
    BY <1>2, <1>3 DEF Flat, Realized
  <2>3. PaysFor(t, x, t[x].of) => t[x].of = Visit
    BY <1>2, RowsAre DEF PaysFor
  <2>4. \A y \in FundingGone(t, x) : y \in TxIds /\ y \in DOMAIN t
           /\ t[y].key \in {FundingOf(Rent), FundingOf(Visit)}
    BY <1>3, <2>2, <2>3 DEF FundingGone, Keyed
  <2> QED
    BY <2>1, <2>4
<1>7. t[x].src = "commitment" =>
         \A f \in TxIds : f \in DOMAIN t /\ t[f].key = FundingOf(Rent) => f \in S
  <2>1. t[x].src = "commitment" => t[x].key = Rent
    BY <1>2, <1>3 DEF Flat, Realized
  <2> QED
    BY <1>3, <2>1 DEF FundingGone, Keyed
<1>8. S \subseteq TxIds /\ \A y \in S : y # x => t[y].of = None /\ t[y].src = "manual"
  BY <1>3, <1>6
<1> HIDE DEF S
<1>9. Table(n) /\ Core(n)
  <2>1. \A y \in S : y \in DOMAIN w /\ w[y].src = "commitment" =>
           \A f \in TxIds : f \in DOMAIN w /\ w[f].key = FundingOf(Rent) => f \in S
    BY <1>4, <1>7, <1>8 DEF Detached
  <2> QED
    BY <1>4, <1>8, <2>1, DropTxs DEF Detached
<1>10. DOMAIN n = DOMAIN w \ S /\ \A y \in DOMAIN w : y \notin S => n[y] = w[y]
  BY DEF Delete, Restrict
<1> HIDE DEF n
<1>11. x \in S
  BY DEF S
<1>12. /\ \A y \in PaymentIds \cup GoalIds : y \notin S
       /\ \A y \in {Visit, Loan} : y \notin S
  BY <1>8, IdsApart
<1>13. EventFits(n)
  <2>1. \A y \in TxIds : y \in DOMAIN n /\ n[y].src = "planned-event" =>
           Visit \in DOMAIN n /\ n[Visit].paid = y
    BY <1>4, <1>10, <1>11, <1>12 DEF Detached
  <2>2. Visit \in DOMAIN n => Visit \in DOMAIN w /\ n[Visit] = w[Visit]
    BY <1>10, <1>12
  <2>3. Visit \in DOMAIN n => n[Visit].goal \in GoalIds \cup {None}
    BY <1>9, FieldsAre DEF Table
  <2>4. Visit \in DOMAIN n => (n[Visit].goal # None => n[Visit].goal \in DOMAIN n)
    BY <1>4, <1>10, <1>12, <2>2, <2>3 DEF Detached
  <2>5. Visit \in DOMAIN n => n[Visit].paid \in TxIds \cup {None}
    BY <1>9, FieldsAre DEF Table
  <2>6. Visit \in DOMAIN n /\ n[Visit].paid # None =>
           n[Visit].paid \in DOMAIN n /\ n[n[Visit].paid].of = Visit
    <3>1. Visit # None
      BY NamesApart
    <3> QED
      BY <1>4, <1>8, <1>10, <2>2, <2>5, <3>1 DEF Detached
  <2> QED
    BY <2>1, <2>4, <2>6 DEF EventFits
<1>14. RepaymentFits(n)
  <2>1. \A y \in TxIds : y \in DOMAIN n /\ n[y].src = "debt" =>
           /\ n[y].of \in PaymentIds /\ n[y].of \in DOMAIN n
           /\ n[n[y].of].tx = y /\ n[n[y].of].amt = n[y].amt
    <3> SUFFICES ASSUME NEW y \in TxIds, y \in DOMAIN n, n[y].src = "debt"
                 PROVE  /\ n[y].of \in PaymentIds /\ n[y].of \in DOMAIN n
                        /\ n[n[y].of].tx = y /\ n[n[y].of].amt = n[y].amt
      OBVIOUS
    <3>1. n[y].of \in PaymentIds
      BY <1>9, FieldsAre, TxTypes DEF Table
    <3> QED
      BY <1>4, <1>10, <1>11, <1>12, <3>1 DEF Detached
  <2>2. \A p \in PaymentIds : p \in DOMAIN n =>
           Loan \in DOMAIN n /\ (n[p].tx # None => n[p].tx \in DOMAIN n /\ n[n[p].tx].of = p)
    <3> SUFFICES ASSUME NEW p \in PaymentIds, p \in DOMAIN n
                 PROVE  /\ Loan \in DOMAIN n
                        /\ n[p].tx # None => n[p].tx \in DOMAIN n /\ n[n[p].tx].of = p
      OBVIOUS
    <3>1. n[p] = w[p] /\ p \in DOMAIN w /\ Loan \in DOMAIN n
      BY <1>4, <1>10, <1>12 DEF Detached
    <3>2. n[p].tx \in TxIds \cup {None} /\ p # None
      BY <1>9, FieldsAre, IdsApart DEF Table
    <3> QED
      BY <1>4, <1>8, <1>10, <3>1, <3>2 DEF Detached
  <2> QED
    BY <2>1, <2>2 DEF RepaymentFits
<1>15. Good(n)
  BY <1>9, <1>13, <1>14 DEF Good, Flat, Core
<1>16. Solvent(t, n)
  BY <1>5 DEF Solvent
<1>17. StatusKept(t, n)
  <2>1. \A p \in PaymentIds : /\ p \in DOMAIN n <=> p \in DOMAIN w
                              /\ p \in DOMAIN w => n[p].amt = w[p].amt
    BY <1>10, <1>12
  <2>2. Loan \in DOMAIN n => Loan \in DOMAIN w /\ n[Loan] = w[Loan]
    BY <1>10, <1>12
  <2>3. StatusKept(w, n)
    BY <1>4, <1>9, <2>1, <2>2, StatusSame DEF Detached
  <2> QED
    BY <1>4, <2>3 DEF Detached, StatusKept
<1>18. Step(d, n)
  BY <1>4, <1>10, <1>15, <1>16, <1>17 DEF Step, Detached, t
<1> QED
  BY <1>5, <1>18

-----------------------------------------------------------------------------
(* The commands of the plan.                                               *)

\* A command that writes one row of the plan, not an account nor the debt.
LEMMA EditPlanStep ==
    ASSUME NEW d, Ready(d), NEW e \in Ids,
           e \notin TxIds \cup PaymentIds \cup AccountIds \cup {Loan}, NEW v, RowOk(e, v),
           PlanFits(db[d], e, v), e = Visit => EventRow(db[d], v)
    PROVE  Step(d, Put(db[d], e, v))
<1> DEFINE t == db[d]
           n == Put(t, e, v)
<1>1. Good(t)
  BY DEF Ready
<1>2. /\ DOMAIN n = DOMAIN t \cup {e}
      /\ \A x \in DOMAIN t : x # e => n[x] = t[x]
  BY DEF Put
<1>3. PlanFits(t, e, v) /\ (e = Visit => EventRow(t, v))
  OBVIOUS
<1> HIDE DEF t
<1>4. Good(n)
  BY <1>1, <1>3, EditPlan DEF Good, Flat, Core
<1> HIDE DEF n
<1>5. Solvent(t, n)
  BY <1>1, <1>2, <1>4, SolventSame DEF Good
<1>6. StatusKept(t, n)
  BY <1>1, <1>2, <1>4, StatusSame DEF Good
<1>7. Step(d, n)
  BY <1>2, <1>4, <1>5, <1>6 DEF Step, t
<1> QED
  BY <1>7 DEF n, t

\* A command that deletes one.
LEMMA DropPlanStep ==
    ASSUME NEW d, Ready(d), NEW e \in DOMAIN db[d], e \notin TxIds \cup PaymentIds,
           PlanGoes(db[d], e)
    PROVE  Step(d, Delete(db[d], {e}))
<1> DEFINE t == db[d]
           n == Delete(t, {e})
<1>1. Good(t) /\ PlanGoes(t, e) /\ e \in DOMAIN t
  BY DEF Ready
<1>2. /\ DOMAIN n = DOMAIN t \ {e}
      /\ \A x \in DOMAIN t : x # e => n[x] = t[x]
  BY DEF Delete, Restrict
<1> HIDE DEF t
<1>3. Good(n)
  BY <1>1, DropPlan
<1> HIDE DEF n
<1>4. Solvent(t, n)
  BY <1>1, <1>2, <1>3, SolventSame DEF Good
<1>5. StatusKept(t, n)
  BY <1>1, <1>2, <1>3, StatusSame DEF Good
<1>6. Step(d, n)
  BY <1>2, <1>3, <1>4, <1>5 DEF Step, t
<1> QED
  BY <1>6 DEF n, t

\* saveAccount.
LEMMA SaveAccountSteps ==
    ASSUME NEW d, Ready(d), SaveAccount(d)
    PROVE  \E new : Does(d, new) /\ Step(d, new)
<1> DEFINE t == db[d]
           old(acc) == IF acc \in DOMAIN t THEN t[acc] ELSE Account(0, FALSE)
           values(acc) == {[old(acc) EXCEPT !.open = IF @ = 0 THEN 1 ELSE 0],
                           [old(acc) EXCEPT !.prot = ~@], [old(acc) EXCEPT !.arch = ~@]}
           saved(acc, v) ==
              /\ acc \in DOMAIN t /\ v.prot # old(acc).prot => KeepsPurpose(t, acc)
              /\ Balance(Put(t, acc, v), acc) >= 0 /\ Does(d, Put(t, acc, v))
<1>0. PICK acc \in {Cash, Stash, Spare} : \E v \in values(acc) : saved(acc, v)
  BY DEF SaveAccount
<1>1. PICK v \in values(acc) : saved(acc, v)
  BY <1>0
<1> DEFINE n == Put(t, acc, v)
           o == old(acc)
<1>2. Good(t) /\ Table(t) /\ Conforms(t) /\ Flat(t)
  BY DEF Ready, Good, Table
<1>3. /\ acc \in AccountIds /\ Txs(t) = DOMAIN t \cap TxIds
      /\ Rows(t, "goal") = DOMAIN t \cap GoalIds /\ Rows(t, "account") = DOMAIN t \cap AccountIds
  BY <1>2, RowsAre DEF AccountIds
<1>4. o \in Accounts
  BY <1>2, <1>3 DEF Conforms, Accounts, Account
<1>5. acc \in DOMAIN t => o = t[acc]
  OBVIOUS
<1>6. /\ acc \in DOMAIN t /\ v.prot # o.prot => KeepsPurpose(t, acc)
      /\ Balance(n, acc) >= 0 /\ Does(d, n)
      /\ v \in {[o EXCEPT !.open = IF o.open = 0 THEN 1 ELSE 0], [o EXCEPT !.prot = ~o.prot],
                [o EXCEPT !.arch = ~o.arch]}
  BY <1>1
<1> HIDE DEF t, o
<1>7. v \in Accounts
  <2>1. /\ [o EXCEPT !.open = IF o.open = 0 THEN 1 ELSE 0] \in Accounts
        /\ [o EXCEPT !.prot = ~o.prot] \in Accounts
        /\ [o EXCEPT !.arch = ~o.arch] \in Accounts
    <3>1. o.prot \in BOOLEAN /\ o.arch \in BOOLEAN
      BY <1>4 DEF Accounts
    <3>2. (IF o.open = 0 THEN 1 ELSE 0) \in Int /\ (~o.prot) \in BOOLEAN /\ (~o.arch) \in BOOLEAN
      BY <3>1
    <3> QED
      BY <1>4, <3>2, Zenon DEF Accounts
  <2> QED
    BY <1>6, <2>1
<1>8. PlanFits(t, acc, v)
  BY <1>3, <1>5, <1>6, IdsApart DEF PlanFits, KeepsPurpose, On
<1>9. acc \in Ids /\ RowOk(acc, v) /\ acc \notin TxIds \cup PaymentIds /\ acc \notin {Visit, Loan}
  BY <1>3, <1>7, RowOkIs, IdsApart
<1>10. Good(n)
  BY <1>2, <1>8, <1>9, EditPlan DEF Good, Flat, Core
<1>11. /\ DOMAIN n = DOMAIN t \cup {acc} /\ \A x \in DOMAIN t : x # acc => n[x] = t[x]
  BY DEF Put
<1> HIDE DEF n
<1>12. Solvent(t, n)
  <2> SUFFICES ASSUME NEW a \in AccountIds, a \in DOMAIN t, a # acc
               PROVE  ~(Balance(n, a) < Balance(t, a))
    BY <1>3, <1>6 DEF Solvent
  <2>1. n[a].open = t[a].open
    BY <1>11
  <2>2. \A x \in TxIds : /\ x \in DOMAIN n <=> x \in DOMAIN t
                         /\ x \in DOMAIN t => Effect(n[x], a) = Effect(t[x], a)
    BY <1>9, <1>11
  <2>3. Balance(n, a) = Balance(t, a)
    BY <1>2, <1>10, <2>1, <2>2, BalanceSame DEF Good, Table
  <2>4. Balance(t, a) \in Int
    BY <1>2, BalanceType, FieldsAre DEF Table
  <2> QED
    BY <2>3, <2>4
<1>13. StatusKept(t, n)
  BY <1>2, <1>9, <1>10, <1>11, StatusSame DEF Good
<1>14. Step(d, n)
  BY <1>9, <1>10, <1>11, <1>12, <1>13 DEF Step, t
<1> QED
  BY <1>6, <1>14

\* deleteAccount.
LEMMA DeleteAccountSteps ==
    ASSUME NEW d, Ready(d), DeleteAccount(d)
    PROVE  \E new : Does(d, new) /\ Step(d, new)
<1> DEFINE t == db[d]
<1>1. PICK acc \in Rows(t, "account") : Refer(t, acc) = {} /\ Does(d, Delete(t, {acc}))
  BY DEF DeleteAccount
<1>2. Conforms(t)
  BY DEF Ready, Good, Table
<1> HIDE DEF t
<1>3. acc \in AccountIds /\ acc \in DOMAIN t /\ Txs(t) = DOMAIN t \cap TxIds
  BY <1>2, RowsAre
<1>4. \A x \in TxIds : x \in DOMAIN t => acc \notin {t[x].from, t[x].to}
  BY <1>1, <1>3 DEF Refer, On
<1>5. \A p \in {Rent, Salary, Visit, Preset, Settings} \cup GoalIds :
         p \in DOMAIN t => t[p].acc # acc
  BY <1>1, <1>2, KindsAre DEF Refer
<1>6. PlanGoes(t, acc) /\ acc \notin TxIds \cup PaymentIds
  BY <1>3, <1>4, <1>5, IdsApart DEF PlanGoes
<1>7. Step(d, Delete(t, {acc}))
  BY <1>3, <1>6, DropPlanStep DEF t
<1> QED
  BY <1>1, <1>7

\* What there is to show of a row of the plan that is neither an account, a
\* goal, the event nor the debt.
LEMMA EditSmallStep ==
    ASSUME NEW d, Ready(d), NEW e \in {Costs, Wages, Rent, Salary, Preset, Settings}, NEW v,
           e \in {Costs, Wages} => v \in Categories,
           e = Rent => v \in Commitments /\ v.acc \in DOMAIN db[d],
           e = Salary => v \in Incomes /\ v.acc \in DOMAIN db[d],
           e = Preset => v \in Defaults("preset"),
           e = Settings => v \in Defaults("settings"),
           e \in {Preset, Settings} /\ v.acc # None => v.acc \in DOMAIN db[d]
    PROVE  Step(d, Put(db[d], e, v))
<1>1. /\ e \notin TxIds \cup PaymentIds \cup AccountIds \cup GoalIds
      /\ e \notin {Loan, Visit}
  BY IdsApart, NamesApart
<1>2. e \in Ids
  BY IdsApart
<1>3. RowOk(e, v)
  BY <1>1, NamesApart DEF RowOk
<1>4. PlanFits(db[d], e, v)
  BY <1>1, NamesApart DEF PlanFits
<1> QED
  BY <1>1, <1>2, <1>3, <1>4, EditPlanStep

\* saveCategory and deleteCategory.
LEMMA CategorySteps ==
    ASSUME NEW d, Ready(d), SaveCategory(d) \/ DeleteCategory(d)
    PROVE  \E new : Does(d, new) /\ Step(d, new)
<1> DEFINE t == db[d]
<1>1. Conforms(t)
  BY DEF Ready, Good, Table
<1>2. Rows(t, "category") = DOMAIN t \cap {Costs, Wages}
  BY <1>1, RowsAre
<1>3. CASE SaveCategory(d)
  <2>1. PICK c \in Rows(t, "category"), kind \in {"expense", "income"} :
           Does(d, Put(t, c, Category(kind)))
    BY <1>3 DEF SaveCategory
  <2>2. Category(kind) \in Categories
    BY DEF Category, Categories
  <2>3. Step(d, Put(t, c, Category(kind)))
    BY <1>2, <2>2, NamesApart, EditSmallStep
  <2> QED
    BY <2>1, <2>3
<1>4. CASE DeleteCategory(d)
  <2>1. PICK c \in Rows(t, "category") : Does(d, Delete(t, {c}))
    BY <1>4 DEF DeleteCategory
  <2>2. c \in DOMAIN t /\ c \in {Costs, Wages}
    BY <1>2
  <2>3. c \notin TxIds \cup PaymentIds /\ PlanGoes(t, c)
    BY <2>2, IdsApart, NamesApart DEF PlanGoes
  <2>4. Step(d, Delete(t, {c}))
    BY <2>2, <2>3, DropPlanStep
  <2> QED
    BY <2>1, <2>4
<1> QED
  BY <1>3, <1>4

\* saveCommitment and deleteCommitment.
LEMMA CommitmentSteps ==
    ASSUME NEW d, Ready(d), SaveCommitment(d) \/ DeleteCommitment(d)
    PROVE  \E new : Does(d, new) /\ Step(d, new)
<1> DEFINE t == db[d]
<1>1. Good(t) /\ Table(t) /\ Conforms(t) /\ Flat(t)
  BY DEF Ready, Good, Table
<1>2. Rent \in DOMAIN t
  BY DEF SaveCommitment, DeleteCommitment
<1>3. t[Rent] \in Commitments /\ t[Rent].acc \in DOMAIN t
  BY <1>1, <1>2 DEF Conforms, Flat, PlanAccounts
<1>4. ASSUME NEW v \in Commitments, v.acc \in DOMAIN t
      PROVE  Step(d, Put(t, Rent, v))
  BY <1>4, NamesApart, EditSmallStep
<1>5. \A b \in BOOLEAN : [t[Rent] EXCEPT !.active = b] \in Commitments
                         /\ [t[Rent] EXCEPT !.active = b].acc = t[Rent].acc
  BY <1>3 DEF Commitments
<1>6. CASE SaveCommitment(d)
  <2>1. PICK v \in Edited(t, Rent) : Does(d, Put(t, Rent, v))
    BY <1>6 DEF SaveCommitment
  <2>2. v \in Commitments /\ v.acc \in DOMAIN t
    <3>1. CASE v \in {[t[Rent] EXCEPT !.acc = acc] : acc \in Rows(t, "account")}
      <4>1. PICK acc \in Rows(t, "account") : v = [t[Rent] EXCEPT !.acc = acc]
        BY <3>1
      <4>2. acc \in AccountIds /\ acc \in DOMAIN t
        BY <1>1, RowsAre
      <4> QED
        BY <1>3, <4>1, <4>2 DEF Commitments
    <3>2. CASE v = [t[Rent] EXCEPT !.active = ~t[Rent].active]
      <4>1. (~t[Rent].active) \in BOOLEAN
        OBVIOUS
      <4> QED
        BY <1>3, <1>5, <3>2, <4>1
    <3> QED
      BY <2>1, <3>1, <3>2 DEF Edited
  <2> QED
    BY <1>4, <2>1, <2>2
<1>7. CASE DeleteCommitment(d)
  <2> DEFINE history == {x \in Keyed(t, Rent) : t[x].src = "commitment"}
  <2>1. Does(d, Retired(t, Rent, history))
    BY <1>7 DEF DeleteCommitment
  <2>2. CASE history = {}
    <3>1. \A x \in TxIds : x \in DOMAIN t => t[x].src # "commitment"
      BY <1>1, <2>2, RowsAre DEF Flat, Realized, Keyed
    <3>2. PlanGoes(t, Rent) /\ Rent \notin TxIds \cup PaymentIds
      BY <3>1, IdsApart, NamesApart DEF PlanGoes
    <3>3. Step(d, Delete(t, {Rent}))
      BY <1>2, <3>2, DropPlanStep
    <3> QED
      BY <2>1, <2>2, <3>3 DEF Retired
  <2>3. CASE history # {}
    <3>1. Step(d, Put(t, Rent, [t[Rent] EXCEPT !.active = FALSE]))
      BY <1>3, <1>4, <1>5
    <3> QED
      BY <2>1, <2>3, <3>1 DEF Retired
  <2> QED
    BY <2>2, <2>3
<1> QED
  BY <1>6, <1>7

\* savePlannedIncome and deletePlannedIncome.
LEMMA PlannedIncomeSteps ==
    ASSUME NEW d, Ready(d), SavePlannedIncome(d) \/ DeletePlannedIncome(d)
    PROVE  \E new : Does(d, new) /\ Step(d, new)
<1> DEFINE t == db[d]
<1>1. Good(t) /\ Table(t) /\ Conforms(t) /\ Flat(t)
  BY DEF Ready, Good, Table
<1>2. Salary \in DOMAIN t
  BY DEF SavePlannedIncome, DeletePlannedIncome
<1>3. t[Salary] \in Incomes /\ t[Salary].acc \in DOMAIN t
  BY <1>1, <1>2 DEF Conforms, Flat, PlanAccounts
<1>4. ASSUME NEW v \in Incomes, v.acc \in DOMAIN t
      PROVE  Step(d, Put(t, Salary, v))
  BY <1>4, NamesApart, EditSmallStep
<1>5. \A b \in BOOLEAN : [t[Salary] EXCEPT !.active = b] \in Incomes
                         /\ [t[Salary] EXCEPT !.active = b].acc = t[Salary].acc
  BY <1>3 DEF Incomes
<1>6. CASE SavePlannedIncome(d)
  <2>1. PICK v \in Edited(t, Salary) : Does(d, Put(t, Salary, v))
    BY <1>6 DEF SavePlannedIncome
  <2>2. v \in Incomes /\ v.acc \in DOMAIN t
    <3>1. CASE v \in {[t[Salary] EXCEPT !.acc = acc] : acc \in Rows(t, "account")}
      <4>1. PICK acc \in Rows(t, "account") : v = [t[Salary] EXCEPT !.acc = acc]
        BY <3>1
      <4>2. acc \in AccountIds /\ acc \in DOMAIN t
        BY <1>1, RowsAre
      <4> QED
        BY <1>3, <4>1, <4>2 DEF Incomes
    <3>2. CASE v = [t[Salary] EXCEPT !.active = ~t[Salary].active]
      <4>1. (~t[Salary].active) \in BOOLEAN
        OBVIOUS
      <4> QED
        BY <1>3, <1>5, <3>2, <4>1
    <3> QED
      BY <2>1, <3>1, <3>2 DEF Edited
  <2> QED
    BY <1>4, <2>1, <2>2
<1>7. CASE DeletePlannedIncome(d)
  <2> DEFINE history == {x \in Txs(t) : t[x].of = Salary}
  <2>1. Does(d, Retired(t, Salary, history))
    BY <1>7 DEF DeletePlannedIncome
  <2>2. CASE history = {}
    <3>1. \A x \in TxIds : x \in DOMAIN t => t[x].of # Salary
      BY <1>1, <2>2, RowsAre
    <3>2. PlanGoes(t, Salary) /\ Salary \notin TxIds \cup PaymentIds
      BY <3>1, IdsApart, NamesApart DEF PlanGoes
    <3>3. Step(d, Delete(t, {Salary}))
      BY <1>2, <3>2, DropPlanStep
    <3> QED
      BY <2>1, <2>2, <3>3 DEF Retired
  <2>3. CASE history # {}
    <3>1. Step(d, Put(t, Salary, [t[Salary] EXCEPT !.active = FALSE]))
      BY <1>3, <1>4, <1>5
    <3> QED
      BY <2>1, <2>3, <3>1 DEF Retired
  <2> QED
    BY <2>2, <2>3
<1> QED
  BY <1>6, <1>7

\* saveGoal.
LEMMA SaveGoalSteps ==
    ASSUME NEW d, Ready(d), SaveGoal(d)
    PROVE  \E new : Does(d, new) /\ Step(d, new)
<1> DEFINE t == db[d]
           old(g, acc) == IF g \in DOMAIN t THEN t[g] ELSE Goal(acc)
           value(g, acc, sinking, arch) ==
              [old(g, acc) EXCEPT !.acc = acc, !.sinking = sinking, !.arch = arch]
<1>1. PICK g \in {Trip, NewGoal}, acc \in Rows(t, "account"), sinking \in BOOLEAN,
           arch \in BOOLEAN :
         LET v == value(g, acc, sinking, arch)
             new == Put(t, g, v)
         IN  /\ v.used => v.sinking
             /\ \A h \in Rows(t, "goal") : t[h].acc = acc => h = g
             /\ t[acc].prot
             /\ v.used => \E e \in Rows(t, "event") : t[e].paid # None /\ Completes(new, g, e)
             /\ old(g, acc).acc # acc => On(t, old(g, acc).acc) = {}
             /\ Does(d, new)
  BY DEF SaveGoal
<1> DEFINE o == old(g, acc)
           v == value(g, acc, sinking, arch)
           n == Put(t, g, v)
<1>2. Good(t) /\ Table(t) /\ Conforms(t) /\ Flat(t)
  BY DEF Ready, Good, Table
<1>3. /\ g \in GoalIds /\ acc \in AccountIds /\ acc \in DOMAIN t
      /\ Txs(t) = DOMAIN t \cap TxIds /\ Rows(t, "goal") = DOMAIN t \cap GoalIds
      /\ Rows(t, "event") = DOMAIN t \cap {Visit}
  BY <1>2, RowsAre DEF GoalIds
<1>4. o \in Goals /\ (g \in DOMAIN t => o = t[g])
  BY <1>2, <1>3 DEF Conforms, Goals, Goal, Amounts
<1>5. /\ v.used => v.sinking
      /\ \A h \in Rows(t, "goal") : t[h].acc = acc => h = g
      /\ t[acc].prot
      /\ v.used => \E e \in Rows(t, "event") : t[e].paid # None /\ Completes(n, g, e)
      /\ o.acc # acc => On(t, o.acc) = {}
      /\ Does(d, n)
  BY <1>1
<1>6. v = [o EXCEPT !.acc = acc, !.sinking = sinking, !.arch = arch]
  OBVIOUS
<1> HIDE DEF o, v, t
<1>7. v \in Goals /\ v.acc = acc
  BY <1>3, <1>4, <1>6 DEF Goals
<1>8. Visit # g /\ g \notin TxIds \cup PaymentIds \cup AccountIds
      /\ g \notin {Rent, Salary, Visit, Preset, Settings, Loan}
  BY <1>3, IdsApart
<1>9. n[g] = v /\ \A y \in DOMAIN t : y # g => n[y] = t[y]
  BY DEF Put
<1>10. v.used => /\ Visit \in DOMAIN t /\ t[Visit].goal = g
                 /\ t[Visit].acc = v.acc /\ t[Visit].paid # None
  BY <1>3, <1>5, <1>8, <1>9 DEF Completes
<1>11. \A x \in TxIds : x \in DOMAIN t /\ t[x].src = "goal" /\ t[x].of = g => t[x].to = acc
  <2> SUFFICES ASSUME NEW x \in TxIds, x \in DOMAIN t, t[x].src = "goal", t[x].of = g
               PROVE  t[x].to = acc
    OBVIOUS
  <2>1. g \in DOMAIN t /\ t[x].to = o.acc
    BY <1>2, <1>4 DEF Flat, Realized
  <2>2. x \in On(t, o.acc)
    BY <1>3, <2>1 DEF On
  <2> QED
    BY <1>5, <2>1, <2>2
<1>12. PlanFits(t, g, v)
  BY <1>3, <1>5, <1>7, <1>8, <1>10, <1>11 DEF PlanFits
<1>13. g \in Ids /\ RowOk(g, v)
  BY <1>3, <1>7, RowOkIs
<1>14. Step(d, n)
  BY <1>8, <1>12, <1>13, EditPlanStep DEF t
<1> QED
  BY <1>5, <1>14

\* deleteGoal.
LEMMA DeleteGoalSteps ==
    ASSUME NEW d, Ready(d), DeleteGoal(d)
    PROVE  \E new : Does(d, new) /\ Step(d, new)
<1> DEFINE t == db[d]
           history(g) == On(t, t[g].acc) \cup {x \in Txs(t) : t[x].of = g}
                         \cup {e \in Rows(t, "event") : t[e].goal = g}
<1>1. PICK g \in Rows(t, "goal") :
         Does(d, IF history(g) = {} THEN Delete(t, {g})
                 ELSE Put(t, g, [t[g] EXCEPT !.arch = TRUE]))
  BY DEF DeleteGoal
<1>2. Good(t) /\ Table(t) /\ Conforms(t) /\ Flat(t)
  BY DEF Ready, Good, Table
<1>3. /\ g \in GoalIds /\ g \in DOMAIN t /\ t[g] \in Goals
      /\ Txs(t) = DOMAIN t \cap TxIds /\ Rows(t, "event") = DOMAIN t \cap {Visit}
  BY <1>2, RowsAre DEF Conforms
<1>4. /\ g \notin TxIds \cup PaymentIds \cup AccountIds
      /\ g \notin {Rent, Salary, Visit, Preset, Settings, Loan}
  BY <1>3, IdsApart
<1>5. CASE history(g) = {}
  <2>1. \A x \in TxIds : x \in DOMAIN t => t[x].of # g
    BY <1>3, <1>5
  <2>2. Visit \in DOMAIN t => t[Visit].goal # g
    BY <1>3, <1>5
  <2> HIDE DEF t
  <2>3. PlanGoes(t, g)
    BY <1>4, <2>1, <2>2 DEF PlanGoes
  <2>4. Step(d, Delete(t, {g}))
    BY <1>3, <1>4, <2>3, DropPlanStep DEF t
  <2> QED
    BY <1>1, <1>5, <2>4
<1>6. CASE history(g) # {}
  <2> DEFINE v == [t[g] EXCEPT !.arch = TRUE]
  <2>1. v \in Goals /\ v.acc = t[g].acc /\ v.used = t[g].used /\ v.sinking = t[g].sinking
    BY <1>3 DEF Goals
  <2>2. Does(d, Put(t, g, v))
    BY <1>1, <1>6
  <2> HIDE DEF v, t
  <2>3. PlanFits(t, g, v)
    BY <1>2, <1>3, <1>4, <2>1 DEF PlanFits, Flat, PlanAccounts, GoalFits, Realized
  <2>4. g \in Ids /\ RowOk(g, v)
    BY <1>3, <2>1, RowOkIs
  <2>5. Step(d, Put(t, g, v))
    BY <1>4, <2>3, <2>4, EditPlanStep DEF t
  <2> QED
    BY <2>2, <2>5
<1> QED
  BY <1>5, <1>6

\* saveDebt and deleteDebt.
LEMMA DebtSteps ==
    ASSUME NEW d, Ready(d), SaveDebt(d) \/ DeleteDebt(d)
    PROVE  \E new : Does(d, new) /\ Step(d, new)
<1> DEFINE t == db[d]
<1>1. Good(t) /\ Table(t) /\ Conforms(t) /\ Flat(t)
  BY DEF Ready, Good, Table
<1>2. CASE SaveDebt(d)
  <2>1. PICK orig \in 1..2, status \in {"open", "paid"} :
           /\ Loan \in DOMAIN t /\ Paid(t, Loan) <= orig
           /\ (Paid(t, Loan) = orig) = (status = "paid")
           /\ Does(d, Put(t, Loan, [t[Loan] EXCEPT !.orig = orig, !.status = status]))
    BY <1>2 DEF SaveDebt
  <2> DEFINE v == [t[Loan] EXCEPT !.orig = orig, !.status = status]
             n == Put(t, Loan, v)
  <2>2. v \in Debts /\ v.orig = orig /\ v.status = status
    <3>1. t[Loan] \in Debts /\ orig \in Amounts
      BY <1>1, <2>1 DEF Conforms, Amounts
    <3> QED
      BY <3>1 DEF Debts
  <2>3. /\ Loan \in DOMAIN t /\ Paid(t, Loan) <= orig
        /\ (Paid(t, Loan) = orig) = (status = "paid") /\ Does(d, n)
    BY <2>1
  <2> HIDE DEF v, t
  <2>4. /\ Loan \notin TxIds \cup PaymentIds \cup AccountIds \cup GoalIds
        /\ Loan \notin {Rent, Salary, Visit, Preset, Settings}
    BY IdsApart, NamesApart
  <2>5. PlanFits(t, Loan, v)
    BY <2>2, <2>3, <2>4 DEF PlanFits
  <2>6. Loan \in Ids /\ RowOk(Loan, v)
    BY <2>2, RowOkIs
  <2>7. Good(n)
    BY <1>1, <2>4, <2>5, <2>6, EditPlan DEF Good, Flat, Core
  <2>8. DOMAIN n = DOMAIN t /\ n[Loan] = v /\ \A x \in DOMAIN t : x # Loan => n[x] = t[x]
    BY <2>3 DEF Put
  <2> HIDE DEF n
  <2>9. Solvent(t, n)
    BY <1>1, <2>4, <2>7, <2>8, SolventSame DEF Good
  <2>10. StatusKept(t, n)
    <3>1. \A p \in PaymentIds : p \in DOMAIN t => n[p] = t[p]
      BY <2>4, <2>8
    <3>2. Paid(n, Loan) = Paid(t, Loan)
      BY <1>1, <2>7, <2>8, <3>1, PaidSame DEF Good, Table
    <3> QED
      BY <2>2, <2>3, <2>8, <3>2 DEF StatusKept, StatusRight
  <2>11. Step(d, n)
    BY <2>7, <2>8, <2>9, <2>10 DEF Step, t
  <2> QED
    BY <2>3, <2>11
<1>3. CASE DeleteDebt(d)
  <2>1. Loan \in DOMAIN t /\ Rows(t, "payment") = {} /\ Does(d, Delete(t, {Loan}))
    BY <1>3 DEF DeleteDebt
  <2>2. \A p \in PaymentIds : p \notin DOMAIN t
    BY <1>1, <2>1, RowsAre
  <2>3. PlanGoes(t, Loan) /\ Loan \notin TxIds \cup PaymentIds
    BY <2>2, IdsApart, NamesApart DEF PlanGoes
  <2>4. Step(d, Delete(t, {Loan}))
    BY <2>1, <2>3, DropPlanStep
  <2> QED
    BY <2>1, <2>4
<1> QED
  BY <1>2, <1>3

\* savePlannedEvent and deletePlannedEvent.
LEMMA PlannedEventSteps ==
    ASSUME NEW d, Ready(d), SavePlannedEvent(d) \/ DeletePlannedEvent(d)
    PROVE  \E new : Does(d, new) /\ Step(d, new)
<1> DEFINE t == db[d]
<1>1. Good(t) /\ Table(t) /\ Conforms(t) /\ Flat(t)
  BY DEF Ready, Good, Table
<1>2. Visit \notin TxIds \cup PaymentIds \cup AccountIds \cup GoalIds \cup {Loan}
      /\ Visit \notin {Rent, Salary, Preset, Settings}
  BY IdsApart, NamesApart
<1>3. CASE SavePlannedEvent(d)
  <2> DEFINE value(acc, goal) == [t[Visit] EXCEPT !.acc = acc, !.goal = goal]
  <2>1. PICK acc \in Rows(t, "account"), goal \in Rows(t, "goal") \cup {None} :
           /\ Visit \in DOMAIN t /\ Settled(t[Visit], value(acc, goal))
           /\ Does(d, Put(t, Visit, value(acc, goal)))
    BY <1>3 DEF SavePlannedEvent
  <2> DEFINE v == value(acc, goal)
  <2>2. /\ acc \in AccountIds /\ acc \in DOMAIN t /\ goal \in GoalIds \cup {None}
        /\ goal # None => goal \in DOMAIN t
    BY <1>1, RowsAre
  <2>3. v \in Events /\ v.acc = acc /\ v.goal = goal /\ v.paid = t[Visit].paid
    <3>1. t[Visit] \in Events
      BY <1>1, <2>1 DEF Conforms
    <3> QED
      BY <2>2, <3>1 DEF Events
  <2>4. Visit \in DOMAIN t /\ Settled(t[Visit], v) /\ Does(d, Put(t, Visit, v))
    BY <2>1
  <2> HIDE DEF v, t
  <2>5. PlanFits(t, Visit, v)
    <3>1. \A g \in GoalIds : g \in DOMAIN t /\ t[g].used =>
             v.goal = g /\ v.acc = t[g].acc /\ v.paid # None
      BY <1>1, <2>3, <2>4 DEF Flat, GoalFits, Settled
    <3> QED
      BY <1>2, <2>2, <2>3, <3>1 DEF PlanFits
  <2>6. EventRow(t, v)
    BY <1>1, <2>2, <2>3, <2>4 DEF EventRow, Flat, EventFits
  <2>7. Visit \in Ids /\ RowOk(Visit, v)
    BY <2>3, RowOkIs
  <2>8. Step(d, Put(t, Visit, v))
    BY <1>2, <2>5, <2>6, <2>7, EditPlanStep DEF t
  <2> QED
    BY <2>4, <2>8
<1>4. CASE DeletePlannedEvent(d)
  <2>1. Visit \in DOMAIN t /\ t[Visit].paid = None /\ Does(d, Delete(t, {Visit}))
    BY <1>4 DEF DeletePlannedEvent
  <2>2. PlanGoes(t, Visit)
    BY <1>2, <2>1 DEF PlanGoes
  <2>3. Step(d, Delete(t, {Visit}))
    BY <1>2, <2>1, <2>2, DropPlanStep
  <2> QED
    BY <2>1, <2>3
<1> QED
  BY <1>3, <1>4

\* savePreset, deletePreset and updateSettings.
LEMMA PreferenceSteps ==
    ASSUME NEW d, Ready(d), SavePreset(d) \/ DeletePreset(d) \/ UpdateSettings(d)
    PROVE  \E new : Does(d, new) /\ Step(d, new)
<1> DEFINE t == db[d]
<1>1. Rows(t, "account") = DOMAIN t \cap AccountIds
  BY RowsAre DEF Ready, Good, Table
<1>2. \A acc \in AccountIds \cup {None} :
         /\ Default("preset", acc) \in Defaults("preset") /\ Default("preset", acc).acc = acc
         /\ Default("settings", acc) \in Defaults("settings")
         /\ Default("settings", acc).acc = acc
  BY DEF Default, Defaults
<1>3. CASE SavePreset(d)
  <2>1. PICK acc \in {Spare, None} \cap (Rows(t, "account") \cup {None}) :
           Does(d, Put(t, Preset, Default("preset", acc)))
    BY <1>3 DEF SavePreset
  <2>2. Step(d, Put(t, Preset, Default("preset", acc)))
    <3>1. acc \in AccountIds \cup {None} /\ (acc # None => acc \in DOMAIN t)
      BY <1>1
    <3>2. Preset \notin {Costs, Wages, Rent, Salary, Settings}
      BY NamesApart
    <3> QED
      BY <1>2, <3>1, <3>2, EditSmallStep
  <2> QED
    BY <2>1, <2>2
<1>4. CASE DeletePreset(d)
  <2>1. Preset \in DOMAIN t /\ Does(d, Delete(t, {Preset}))
    BY <1>4 DEF DeletePreset
  <2>2. PlanGoes(t, Preset) /\ Preset \notin TxIds \cup PaymentIds
    BY IdsApart, NamesApart DEF PlanGoes
  <2>3. Step(d, Delete(t, {Preset}))
    BY <2>1, <2>2, DropPlanStep
  <2> QED
    BY <2>1, <2>3
<1>5. CASE UpdateSettings(d)
  <2>1. PICK acc \in Rows(t, "account") : Does(d, Put(t, Settings, Default("settings", acc)))
    BY <1>5 DEF UpdateSettings
  <2>2. Step(d, Put(t, Settings, Default("settings", acc)))
    <3>1. acc \in AccountIds \cup {None} /\ (acc # None => acc \in DOMAIN t)
      BY <1>1
    <3>2. Settings \notin {Costs, Wages, Rent, Salary, Preset}
      BY NamesApart
    <3> QED
      BY <1>2, <3>1, <3>2, EditSmallStep
  <2> QED
    BY <2>1, <2>2
<1> QED
  BY <1>3, <1>4, <1>5

-----------------------------------------------------------------------------
(* The tables a device starts from, or starts over with.                   *)

\* The named ids are finitely many.
LEMMA NamedFinite ==
    IsFiniteSet(AccountIds \cup GoalIds \cup {Costs, Wages, Rent, Salary, Visit, Loan,
                                              Preset, Settings})
<1> DEFINE f == [i \in 1..15 |-> Names[i]]
           T == {Names[i] : i \in 1..15}
<1>1. IsFiniteSet(1..15)
  <2>1. \A a, b \in Int : IsFiniteSet(a..b)
    BY FS_Interval
  <2>2. 1 \in Int /\ 15 \in Int
    OBVIOUS
  <2> QED
    BY ONLY <2>1, <2>2
<1>2. IsFiniteSet(T)
  <2>1. f \in Surjection(1..15, T)
    BY DEF Surjection
  <2> HIDE DEF f, T
  <2> QED
    BY <1>1, <2>1, FS_Surjection
<1>3. /\ Names[1] = Cash /\ Names[2] = Stash /\ Names[3] = Spare /\ Names[4] = NewAccount
      /\ Names[5] = Costs /\ Names[6] = Wages /\ Names[7] = Rent /\ Names[8] = Salary
      /\ Names[9] = Trip /\ Names[10] = NewGoal /\ Names[11] = Visit /\ Names[12] = Loan
      /\ Names[13] = Preset /\ Names[14] = Settings
  BY DEF Names
<1>4. /\ 1 \in 1..15 /\ 2 \in 1..15 /\ 3 \in 1..15 /\ 4 \in 1..15 /\ 5 \in 1..15
      /\ 6 \in 1..15 /\ 7 \in 1..15 /\ 8 \in 1..15 /\ 9 \in 1..15 /\ 10 \in 1..15
      /\ 11 \in 1..15 /\ 12 \in 1..15 /\ 13 \in 1..15 /\ 14 \in 1..15
  OBVIOUS
<1>5. AccountIds \cup GoalIds \cup {Costs, Wages, Rent, Salary, Visit, Loan, Preset, Settings}
        \subseteq T
  <2>1. \A i \in 1..15 : Names[i] \in T
    OBVIOUS
  <2> HIDE DEF T
  <2> QED
    BY ONLY <1>3, <1>4, <2>1 DEF AccountIds, GoalIds
<1> QED
  BY <1>2, <1>5, FS_Subset

\* Without ledger and repayments: nothing is paid, balances are as opened.
LEMMA NothingHappened ==
    ASSUME NEW t, Conforms(t)
    PROVE  /\ (\A p \in PaymentIds : p \notin DOMAIN t) => Paid(t, Loan) = 0
           /\ \A acc \in AccountIds : acc \in DOMAIN t
                 /\ (\A x \in TxIds : x \notin DOMAIN t) => Balance(t, acc) = t[acc].open
<1>1. SumFunctionOnSet([p \in {} |-> t[p].amt], {}) = 0
  BY SumPicks, FS_EmptySet
<1>2. ASSUME \A p \in PaymentIds : p \notin DOMAIN t
      PROVE  Paid(t, Loan) = 0
  <2>1. DOMAIN t \cap PaymentIds = {}
    BY <1>2
  <2>2. Paid(t, Loan) = SumFunction([p \in {} |-> t[p].amt])
    BY <2>1, PaidIs
  <2> QED
    BY <1>1, <2>2 DEF SumFunction
<1>3. ASSUME NEW acc \in AccountIds, acc \in DOMAIN t, \A x \in TxIds : x \notin DOMAIN t
      PROVE  Balance(t, acc) = t[acc].open
  <2>1. DOMAIN t \cap TxIds = {}
    BY <1>3
  <2>2. Balance(t, acc) = t[acc].open + SumFunction([x \in {} |-> Effect(t[x], acc)])
    BY <2>1, BalanceIs
  <2>3. SumFunctionOnSet([x \in {} |-> Effect(t[x], acc)], {}) = 0
    BY SumPicks, FS_EmptySet
  <2>4. t[acc].open \in Int
    BY <1>3, FieldsAre
  <2> QED
    BY <2>2, <2>3, <2>4 DEF SumFunction
<1> QED
  BY <1>2, <1>3

\* The rows of the plan as it is set up.
LEMMA PlanRows ==
    /\ DOMAIN Plan = {Cash, Stash, Spare, Costs, Wages, Rent, Salary, Trip, Visit, Loan,
                      Preset, Settings}
    /\ Plan = [e \in DOMAIN Plan |-> Plan[e]]
    /\ Plan[Cash] = Account(2, FALSE) /\ Plan[Stash] = Account(1, TRUE)
    /\ Plan[Spare] = Account(0, FALSE) /\ Plan[Costs] = Category("expense")
    /\ Plan[Wages] = Category("income") /\ Plan[Rent] = Commitment /\ Plan[Salary] = Income
    /\ Plan[Trip] = Goal(Stash) /\ Plan[Visit] = Event /\ Plan[Loan] = Debt
    /\ Plan[Preset] = Default("preset", Cash) /\ Plan[Settings] = Default("settings", Cash)
<1>1. /\ DOMAIN Plan = {Cash, Stash, Spare, Costs, Wages, Rent, Salary, Trip, Visit, Loan,
                        Preset, Settings}
      /\ Plan = [e \in DOMAIN Plan |-> Plan[e]]
  <2> DEFINE S == {Cash, Stash, Spare, Costs, Wages, Rent, Salary, Trip, Visit, Loan, Preset,
                   Settings}
             F(e) == CASE e = Cash -> Account(2, FALSE) [] e = Stash -> Account(1, TRUE)
                       [] e = Spare -> Account(0, FALSE)
                       [] e = Costs -> Category("expense") [] e = Wages -> Category("income")
                       [] e = Rent -> Commitment [] e = Salary -> Income
                       [] e = Trip -> Goal(Stash)
                       [] e = Visit -> Event [] e = Loan -> Debt
                       [] e = Preset -> Default("preset", Cash)
                       [] e = Settings -> Default("settings", Cash)
  <2>1. Plan = [e \in S |-> F(e)]
    BY DEF Plan
  <2> HIDE DEF F
  <2>2. DOMAIN Plan = S
    BY <2>1
  <2> HIDE DEF S
  <2>3. Plan = [e \in DOMAIN Plan |-> Plan[e]]
    BY <2>1, <2>2
  <2> QED
    BY <2>2, <2>3 DEF S
<1>2. /\ Plan[Cash] = Account(2, FALSE) /\ Plan[Stash] = Account(1, TRUE)
      /\ Plan[Spare] = Account(0, FALSE)
  BY NamesApart DEF Plan
<1>3. /\ Plan[Costs] = Category("expense") /\ Plan[Wages] = Category("income")
      /\ Plan[Rent] = Commitment /\ Plan[Salary] = Income
  BY NamesApart DEF Plan
<1>4. /\ Plan[Trip] = Goal(Stash) /\ Plan[Visit] = Event /\ Plan[Loan] = Debt
      /\ Plan[Preset] = Default("preset", Cash) /\ Plan[Settings] = Default("settings", Cash)
  BY NamesApart DEF Plan
<1> QED
  BY <1>1, <1>2, <1>3, <1>4

\* The rows are of their tables.
LEMMA FirstRows ==
    /\ Category("expense") \in Categories /\ Category("income") \in Categories
    /\ Commitment \in Commitments /\ Commitment.acc = Cash
    /\ Income \in Incomes /\ Income.acc = Cash
    /\ \A acc \in AccountIds : /\ Goal(acc) \in Goals /\ Goal(acc).acc = acc
                               /\ ~Goal(acc).used
    /\ Event \in Events /\ Event.acc = Stash /\ Event.goal = Trip /\ Event.paid = None
    /\ Debt \in Debts /\ Debt.orig = 2 /\ Debt.status = "open"
    /\ \A acc \in AccountIds, kind \in {"preset", "settings"} :
          Default(kind, acc) \in Defaults(kind) /\ Default(kind, acc).acc = acc
<1>2. Category("expense") \in Categories /\ Category("income") \in Categories
  BY DEF Category, Categories
<1>3. /\ Commitment \in Commitments /\ Commitment.acc = Cash
      /\ Income \in Incomes /\ Income.acc = Cash
  BY DEF Commitment, Commitments, Income, Incomes, Amounts, AccountIds
<1>4. \A acc \in AccountIds : Goal(acc) \in Goals /\ Goal(acc).acc = acc /\ ~Goal(acc).used
  BY DEF Goal, Goals, Amounts
<1>5. Event \in Events /\ Event.acc = Stash /\ Event.goal = Trip /\ Event.paid = None
  BY DEF Event, Events, AccountIds, GoalIds
<1>6. Debt \in Debts /\ Debt.orig = 2 /\ Debt.status = "open"
  BY DEF Debt, Debts, Amounts
<1>7. \A acc \in AccountIds, kind \in {"preset", "settings"} :
         Default(kind, acc) \in Defaults(kind) /\ Default(kind, acc).acc = acc
  BY DEF Default, Defaults
<1> QED
  BY <1>2, <1>3, <1>4, <1>5, <1>6, <1>7

\* The plan as it is set up is a table.
LEMMA PlanTable ==
    Table(Plan)
<1>1. \A e \in DOMAIN Plan : e \in Ids /\ RowOk(e, Plan[e])
  <2>1. Cash \in AccountIds /\ Stash \in AccountIds /\ Spare \in AccountIds /\ Trip \in GoalIds
    BY DEF AccountIds, GoalIds
  <2>2. /\ Plan[Cash] \in Accounts /\ Plan[Stash] \in Accounts /\ Plan[Spare] \in Accounts
        /\ Plan[Costs] \in Categories /\ Plan[Wages] \in Categories
        /\ Plan[Rent] \in Commitments /\ Plan[Salary] \in Incomes /\ Plan[Trip] \in Goals
        /\ Plan[Visit] \in Events /\ Plan[Loan] \in Debts
        /\ Plan[Preset] \in Defaults("preset") /\ Plan[Settings] \in Defaults("settings")
    <3>1. Account(2, FALSE) \in Accounts /\ Account(1, TRUE) \in Accounts
          /\ Account(0, FALSE) \in Accounts
      BY DEF Account, Accounts
    <3>2. /\ Goal(Stash) \in Goals /\ Default("preset", Cash) \in Defaults("preset")
          /\ Default("settings", Cash) \in Defaults("settings")
      BY <2>1, FirstRows
    <3>3. /\ Category("expense") \in Categories /\ Category("income") \in Categories
          /\ Commitment \in Commitments /\ Income \in Incomes /\ Event \in Events
          /\ Debt \in Debts
      BY FirstRows
    <3> QED
      BY ONLY <3>1, <3>2, <3>3, PlanRows
  <2>3. /\ RowOk(Cash, Plan[Cash]) /\ RowOk(Stash, Plan[Stash]) /\ RowOk(Spare, Plan[Spare])
        /\ RowOk(Costs, Plan[Costs]) /\ RowOk(Wages, Plan[Wages]) /\ RowOk(Rent, Plan[Rent])
        /\ RowOk(Salary, Plan[Salary]) /\ RowOk(Trip, Plan[Trip])
        /\ RowOk(Visit, Plan[Visit]) /\ RowOk(Loan, Plan[Loan])
        /\ RowOk(Preset, Plan[Preset]) /\ RowOk(Settings, Plan[Settings])
    BY <2>1, <2>2, RowOkIs
  <2> QED
    BY <2>1, <2>3, PlanRows, IdsApart
<1>2. DOMAIN Plan \subseteq AccountIds \cup GoalIds \cup {Costs, Wages, Rent, Salary, Visit,
                                                          Loan, Preset, Settings}
  BY PlanRows DEF AccountIds, GoalIds
<1>3. IsFiniteSet(DOMAIN Plan)
  BY <1>2, NamedFinite, FS_Subset
<1> QED
  BY <1>1, <1>3, PlanRows, ConformsIs DEF Table

\* Its links hold.
LEMMA PlanGood ==
    /\ Good(Plan) /\ StatusRight(Plan)
    /\ \A e \in TxIds \cup PaymentIds : e \notin DOMAIN Plan
    /\ \A acc \in AccountIds : acc \in DOMAIN Plan => Balance(Plan, acc) >= 0
<1>1. \A e \in TxIds \cup PaymentIds : e \notin DOMAIN Plan
  <2>1. DOMAIN Plan \subseteq AccountIds \cup GoalIds \cup {Costs, Wages, Rent, Salary, Visit,
                                                            Loan, Preset, Settings}
    BY PlanRows DEF AccountIds, GoalIds
  <2> QED
    BY <2>1, IdsApart
<1>2. Conforms(Plan)
  BY PlanTable DEF Table
<1>3. Cash \in AccountIds /\ Stash \in AccountIds /\ Trip \in GoalIds /\ Stash \in DOMAIN Plan
      /\ Cash \in DOMAIN Plan
  BY PlanRows DEF AccountIds, GoalIds
<1>4. \A g \in GoalIds : g \in DOMAIN Plan => g = Trip
  BY PlanRows, NamesApart DEF GoalIds
<1>5. Paid(Plan, Loan) = 0 /\ Plan[Loan].orig = 2 /\ Plan[Loan].status = "open"
  BY <1>1, <1>2, NothingHappened, PlanRows, FirstRows
<1>6. TxAccounts(Plan) /\ KeysApart(Plan) /\ Realized(Plan) /\ Funded(Plan)
      /\ RepaymentFits(Plan)
  BY <1>1 DEF TxAccounts, KeysApart, Realized, Funded, RepaymentFits
<1>7. PlanAccounts(Plan)
  BY <1>3, <1>4, PlanRows, FirstRows DEF PlanAccounts
<1>8. EventFits(Plan)
  BY <1>1, PlanRows, FirstRows DEF EventFits
<1>9. GoalFits(Plan)
  <2>1. Plan[Trip].acc = Stash /\ ~Plan[Trip].used
    BY <1>3, PlanRows, FirstRows
  <2>2. Plan[Stash].prot = TRUE
    <3>1. Account(1, TRUE).prot = TRUE
      BY DEF Account
    <3> QED
      BY ONLY <3>1, PlanRows
  <2> QED
    BY ONLY <1>4, <2>1, <2>2 DEF GoalFits
<1>10. NotOverpaid(Plan) /\ StatusRight(Plan)
  BY <1>5 DEF NotOverpaid, StatusRight
<1>11. \A acc \in AccountIds : acc \in DOMAIN Plan => Balance(Plan, acc) >= 0
  <2> SUFFICES ASSUME NEW acc \in AccountIds, acc \in DOMAIN Plan
               PROVE  Balance(Plan, acc) >= 0
    OBVIOUS
  <2>1. Balance(Plan, acc) = Plan[acc].open
    BY <1>1, <1>2, NothingHappened
  <2>2. acc \in {Cash, Stash, Spare}
    BY PlanRows, NamesApart DEF AccountIds
  <2>3. Plan[acc].open \in {0, 1, 2}
    <3>1. Account(2, FALSE).open = 2 /\ Account(1, TRUE).open = 1 /\ Account(0, FALSE).open = 0
      BY DEF Account
    <3> QED
      BY ONLY <2>2, <3>1, PlanRows
  <2> QED
    BY <2>1, <2>3
<1> QED
  BY <1>1, <1>6, <1>7, <1>8, <1>9, <1>10, <1>11, PlanTable DEF Good, Flat

\* What no table has: no rows, and all its links.
LEMMA NothingGood ==
    Good(<<>>) /\ DOMAIN <<>> = {}
<1>1. DOMAIN <<>> = {} /\ <<>> = [e \in DOMAIN <<>> |-> <<>>[e]]
  OBVIOUS
<1> DEFINE t == <<>>
<1> HIDE DEF t
<1>2. DOMAIN t = {} /\ t = [e \in DOMAIN t |-> t[e]]
  BY <1>1 DEF t
<1>3. Table(t)
  BY <1>2, FS_EmptySet DEF Table, Conforms
<1>4. TxAccounts(t) /\ PlanAccounts(t) /\ KeysApart(t) /\ Realized(t) /\ Funded(t)
  BY <1>2 DEF TxAccounts, PlanAccounts, KeysApart, Realized, Funded
<1>5. EventFits(t) /\ GoalFits(t) /\ RepaymentFits(t) /\ NotOverpaid(t)
  BY <1>2 DEF EventFits, GoalFits, RepaymentFits, NotOverpaid
<1> QED
  BY <1>2, <1>3, <1>4, <1>5 DEF Good, Flat, t

\* resetAllFinanceData, importPlanBlueprint and replaceWithBackup start over.
LEMMA AnewSteps ==
    ASSUME NEW d, Ready(d),
           ResetAllFinanceData(d) \/ ImportPlanBlueprint(d) \/ ReplaceWithBackup(d)
    PROVE  \E new : Does(d, new) /\ Step(d, new)
<1> DEFINE t == db[d]
<1>1. Rows(t, "account") = DOMAIN t \cap AccountIds
  BY RowsAre DEF Ready, Good, Table
<1>2. CASE ResetAllFinanceData(d)
  <2> DEFINE n == <<>>
  <2>1. Does(d, n)
    BY <1>2 DEF ResetAllFinanceData
  <2> HIDE DEF n
  <2>2. Good(n) /\ DOMAIN n = {}
    BY NothingGood DEF n
  <2>3. Solvent(t, n) /\ StatusKept(t, n)
    BY <2>2 DEF Solvent, Rows, StatusKept, StatusRight
  <2> QED
    BY <2>1, <2>2, <2>3 DEF Step
<1>3. CASE ImportPlanBlueprint(d)
  <2> DEFINE n == Blueprint
  <2>1. Does(d, n) /\ DOMAIN t \subseteq {Settings}
    BY <1>3 DEF ImportPlanBlueprint
  <2>2. /\ DOMAIN n = {NewAccount, NewGoal, Settings}
        /\ n = [e \in DOMAIN n |-> n[e]]
    <3> DEFINE S == {NewAccount, NewGoal, Settings}
               F(e) == CASE e = NewAccount -> Account(1, TRUE) [] e = NewGoal -> Goal(NewAccount)
                         [] e = Settings -> Default("settings", NewAccount)
    <3>1. n = [e \in S |-> F(e)]
      BY DEF Blueprint
    <3> HIDE DEF F, n
    <3>2. DOMAIN n = S
      BY <3>1
    <3> HIDE DEF S
    <3>3. n = [e \in DOMAIN n |-> n[e]]
      BY <3>1, <3>2
    <3> QED
      BY <3>2, <3>3 DEF S
  <2>3. /\ n[NewAccount] = Account(1, TRUE) /\ n[NewGoal] = Goal(NewAccount)
        /\ n[Settings] = Default("settings", NewAccount)
    BY NamesApart DEF Blueprint
  <2> HIDE DEF n
  <2>4. /\ NewAccount \in AccountIds /\ NewGoal \in GoalIds
    BY DEF AccountIds, GoalIds
  <2>5. /\ n[NewAccount] \in Accounts /\ n[NewGoal] \in Goals /\ n[Settings] \in Defaults("settings")
        /\ n[NewAccount].prot = TRUE /\ n[NewGoal].acc = NewAccount /\ ~n[NewGoal].used
        /\ n[Settings].acc = NewAccount
    <3>1. Account(1, TRUE) \in Accounts /\ Account(1, TRUE).prot = TRUE
      BY DEF Account, Accounts
    <3>2. /\ Goal(NewAccount) \in Goals /\ Goal(NewAccount).acc = NewAccount
          /\ ~Goal(NewAccount).used
          /\ Default("settings", NewAccount) \in Defaults("settings")
          /\ Default("settings", NewAccount).acc = NewAccount
      BY <2>4, FirstRows
    <3> QED
      BY ONLY <2>3, <3>1, <3>2
  <2>6. \A e \in DOMAIN n : e \in Ids /\ RowOk(e, n[e])
    <3>1. RowOk(NewAccount, n[NewAccount]) /\ NewAccount \in Ids
      BY <2>4, <2>5, RowOkIs
    <3>2. RowOk(NewGoal, n[NewGoal]) /\ NewGoal \in Ids
      BY <2>4, <2>5, RowOkIs
    <3>3. RowOk(Settings, n[Settings]) /\ Settings \in Ids
      BY <2>5, RowOkIs
    <3> QED
      BY <2>2, <3>1, <3>2, <3>3
  <2>7. IsFiniteSet(DOMAIN n)
    <3>1. DOMAIN n \subseteq AccountIds \cup GoalIds \cup {Costs, Wages, Rent, Salary, Visit,
                                                           Loan, Preset, Settings}
      BY <2>2, <2>4
    <3> QED
      BY <3>1, NamedFinite, FS_Subset
  <2>8. Table(n)
    BY <2>2, <2>6, <2>7, ConformsIs DEF Table
  <2>9. /\ \A e \in TxIds \cup PaymentIds : e \notin DOMAIN n
        /\ Rent \notin DOMAIN n /\ Salary \notin DOMAIN n /\ Visit \notin DOMAIN n
        /\ Loan \notin DOMAIN n /\ Preset \notin DOMAIN n
        /\ \A g \in GoalIds : g \in DOMAIN n => g = NewGoal
    <3>1. \A e \in TxIds \cup PaymentIds : e \notin DOMAIN n
      BY <2>2, <2>4, IdsApart
    <3>2. \A g \in GoalIds : g \in DOMAIN n => g = NewGoal
      BY <2>2, <2>4, IdsApart
    <3> QED
      BY <2>2, <3>1, <3>2, NamesApart
  <2>10. TxAccounts(n) /\ KeysApart(n) /\ Realized(n) /\ Funded(n) /\ EventFits(n)
         /\ RepaymentFits(n) /\ NotOverpaid(n)
    BY <2>9 DEF TxAccounts, KeysApart, Realized, Funded, EventFits, RepaymentFits, NotOverpaid
  <2>11. PlanAccounts(n) /\ GoalFits(n)
    BY <2>2, <2>5, <2>9 DEF PlanAccounts, GoalFits
  <2>12. Rows(t, "account") = {}
    BY <1>1, <2>1, IdsApart
  <2>13. Solvent(t, n) /\ StatusKept(t, n)
    BY <2>9, <2>12 DEF Solvent, StatusKept, StatusRight
  <2> QED
    BY <2>1, <2>8, <2>9, <2>10, <2>11, <2>13 DEF Step, Good, Flat
<1>4. CASE ReplaceWithBackup(d)
  <2>1. Does(d, Plan)
    BY <1>4 DEF ReplaceWithBackup
  <2>2. Solvent(t, Plan)
    BY <1>1, PlanGood DEF Solvent, Rows
  <2> QED
    BY <2>1, <2>2, PlanGood DEF Step, StatusKept
<1> QED
  BY <1>2, <1>3, <1>4

\* The tables after a visit was paid from the savings and half of the loan
\* was repaid.
LEMMA LivedGood ==
    Good(Lived) /\ \A e \in DOMAIN Lived \cap (TxIds \cup PaymentIds) : e[2] = None
<1> DEFINE tx == <<"tx", None, 0>>
           funding == <<"funding", None, 0>>
           payment == <<"payment", None, 0>>
           S == {tx, funding, payment, Visit, Trip}
           F(e) == CASE e = tx -> [Tx("expense", 2, Stash, None, "planned-event")
                                     EXCEPT !.of = Visit]
                     [] e = funding -> [Tx("transfer", 1, Cash, Stash, "manual")
                                          EXCEPT !.key = FundingOf(Visit)]
                     [] e = payment -> Payment(1, None)
                     [] e = Visit -> [Event EXCEPT !.paid = tx]
                     [] e = Trip -> [Goal(Stash) EXCEPT !.used = TRUE]
           r == TxRow("expense", 2, Stash, None, "planned-event", None, Visit)
           f == TxRow("transfer", 1, Cash, Stash, "manual", FundingOf(Visit), None)
           n == Lived
<1>1. /\ tx \in TxIds /\ funding \in TxIds /\ payment \in PaymentIds
      /\ tx # funding /\ tx[2] = None /\ funding[2] = None /\ payment[2] = None
  BY DEF TxIds, PaymentIds
<1>2. n = PutAll(Plan, [e \in S |-> F(e)])
  BY DEF Lived
<1>3. /\ tx \notin {funding, payment, Visit, Trip} /\ funding \notin {payment, Visit, Trip}
      /\ payment \notin {Visit, Trip} /\ Visit # Trip
      /\ Trip \in GoalIds /\ Cash \in AccountIds /\ Stash \in AccountIds
  <2>1. Trip \in GoalIds /\ Cash \in AccountIds /\ Stash \in AccountIds
    BY DEF GoalIds, AccountIds
  <2> HIDE DEF tx, funding, payment
  <2> QED
    BY <1>1, <2>1, IdsApart
<1>4. F(tx) = r /\ F(funding) = f /\ F(payment) = Payment(1, None)
      /\ F(Visit) = [Event EXCEPT !.paid = tx] /\ F(Trip) = [Goal(Stash) EXCEPT !.used = TRUE]
  <2>1. [Tx("expense", 2, Stash, None, "planned-event") EXCEPT !.of = Visit] = r
    BY DEF Tx, TxRow
  <2>2. [Tx("transfer", 1, Cash, Stash, "manual") EXCEPT !.key = FundingOf(Visit)] = f
    BY DEF Tx, TxRow
  <2> HIDE DEF tx, funding, payment, r, f
  <2> QED
    BY <1>3, <2>1, <2>2
<1> HIDE DEF F, n, tx, funding, payment, r, f
<1>5. /\ DOMAIN n = DOMAIN Plan \cup S /\ n = [e \in DOMAIN n |-> n[e]]
      /\ \A e \in S : n[e] = F(e)
      /\ \A e \in DOMAIN Plan : e \notin S => n[e] = Plan[e]
  <2> DEFINE w == [e \in S |-> F(e)]
  <2>1. DOMAIN w = S /\ \A e \in S : w[e] = F(e)
    OBVIOUS
  <2>2. n = PutAll(Plan, w)
    BY <1>2
  <2> HIDE DEF w, S
  <2>3. /\ DOMAIN n = DOMAIN Plan \cup DOMAIN w /\ n = [e \in DOMAIN n |-> n[e]]
        /\ \A e \in DOMAIN w : n[e] = w[e]
        /\ \A e \in DOMAIN Plan : e \notin DOMAIN w => n[e] = Plan[e]
    BY ONLY <2>2 DEF PutAll
  <2> QED
    BY ONLY <2>1, <2>3
<1>6. /\ r \in Transactions /\ r.type = "expense" /\ r.from = Stash /\ r.src = "planned-event"
      /\ r.key = None /\ r.of = Visit
  <2>1. r \in Transactions
    BY <1>3, IdsApart, TxRowOk DEF r
  <2> QED
    BY <2>1, TxRowFields DEF r
<1>7. /\ f \in Transactions /\ f.type = "transfer" /\ f.from = Cash /\ f.to = Stash
      /\ f.src = "manual" /\ f.key = FundingOf(Visit) /\ f.of = None
  <2>1. f \in Transactions
    BY <1>3, IdsApart, TxRowOk DEF f
  <2> QED
    BY <2>1, TxRowFields DEF f
<1>8. /\ Payment(1, None) \in Payments /\ Payment(1, None).amt = 1 /\ Payment(1, None).tx = None
  BY DEF Payment, Payments, Amounts
<1>9. /\ n[Visit] \in Events /\ n[Visit].acc = Stash /\ n[Visit].goal = Trip
      /\ n[Visit].paid = tx
  <2>1. n[Visit] = [Event EXCEPT !.paid = tx]
    BY <1>4, <1>5
  <2> QED
    BY <1>1, <1>3, <2>1 DEF Event, Events
<1>10. /\ n[Trip] \in Goals /\ n[Trip].acc = Stash /\ n[Trip].sinking = TRUE
  <2>1. n[Trip] = [Goal(Stash) EXCEPT !.used = TRUE]
    BY <1>4, <1>5
  <2>2. Goal(Stash) \in Goals /\ Goal(Stash).acc = Stash
    BY <1>3, FirstRows
  <2>3. Goal(Stash).sinking = TRUE
    BY DEF Goal
  <2> DEFINE g == Goal(Stash)
  <2> HIDE DEF g
  <2>4. /\ [g EXCEPT !.used = TRUE] \in Goals /\ [g EXCEPT !.used = TRUE].acc = Stash
        /\ [g EXCEPT !.used = TRUE].sinking = TRUE
    BY <2>2, <2>3 DEF g, Goals
  <2> QED
    BY <2>1, <2>4 DEF g
<1>11. n[tx] = r /\ n[funding] = f /\ n[payment] = Payment(1, None)
  BY <1>4, <1>5
<1>12. \A e \in DOMAIN Plan : e \in Ids /\ RowOk(e, Plan[e])
  BY PlanTable, ConformsIs DEF Table
<1>13. Table(n)
  <2>1. /\ RowOk(tx, n[tx]) /\ RowOk(funding, n[funding]) /\ RowOk(payment, n[payment])
        /\ tx \in Ids /\ funding \in Ids /\ payment \in Ids
    BY <1>1, <1>6, <1>7, <1>8, <1>11, RowOkIs
  <2>2. RowOk(Visit, n[Visit]) /\ RowOk(Trip, n[Trip]) /\ Visit \in Ids /\ Trip \in Ids
    BY <1>3, <1>9, <1>10, RowOkIs
  <2>3. \A e \in DOMAIN n : e \in Ids /\ RowOk(e, n[e])
    BY <1>5, <1>12, <2>1, <2>2
  <2>4. DOMAIN n = DOMAIN Plan \cup {tx} \cup {funding} \cup {payment}
    BY <1>5, PlanRows
  <2>5. IsFiniteSet(DOMAIN n)
    <3>1. IsFiniteSet(DOMAIN Plan \cup {tx})
      BY PlanTable, FS_AddElement DEF Table
    <3>2. IsFiniteSet(DOMAIN Plan \cup {tx} \cup {funding})
      BY <3>1, FS_AddElement
    <3> QED
      BY <2>4, <3>2, FS_AddElement
  <2> QED
    BY <1>5, <2>3, <2>5, ConformsIs DEF Table
<1>14. /\ \A x \in TxIds : x \in DOMAIN n <=> x = tx \/ x = funding
       /\ \A p \in PaymentIds : p \in DOMAIN n <=> p = payment
  <2>1. \A e \in TxIds \cup PaymentIds : e \notin DOMAIN Plan
    BY PlanGood
  <2> QED
    BY <1>1, <1>3, <1>5, <2>1, IdsApart
<1>15. TxAccounts(n) /\ KeysApart(n) /\ Realized(n) /\ Funded(n)
  <2>1. Stash \in DOMAIN n /\ Cash \in DOMAIN n /\ Stash # Cash
    BY <1>5, PlanRows, NamesApart
  <2>2. Visit # Salary /\ None # Salary
    BY NamesApart
  <2>3. FundingOf(Visit) # FundingOf(Rent) /\ FundingOf(Rent) # None
    BY IdsApart
  <2>4. TxAccounts(n)
    BY <1>6, <1>7, <1>11, <1>14, <2>1 DEF TxAccounts
  <2>5. KeysApart(n)
    BY <1>6, <1>7, <1>11, <1>14 DEF KeysApart
  <2>6. Realized(n)
    BY <1>6, <1>7, <1>11, <1>14, <2>2 DEF Realized
  <2>7. Funded(n)
    BY <1>6, <1>7, <1>11, <1>14, <2>3 DEF Funded
  <2> QED
    BY <2>4, <2>5, <2>6, <2>7
<1>16. \A e \in {Rent, Salary, Preset, Settings, Loan, Stash} :
          n[e] = Plan[e] /\ e \in DOMAIN n
  <2>1. {Rent, Salary, Preset, Settings, Loan, Stash} \cap S = {}
    <3>1. {Rent, Salary, Preset, Settings, Loan, Stash} \cap {Visit, Trip} = {}
      BY NamesApart
    <3>2. {Rent, Salary, Preset, Settings, Loan, Stash} \cap {tx, funding, payment} = {}
      BY <1>1, <1>3, IdsApart
    <3> QED
      BY <3>1, <3>2
  <2>2. {Rent, Salary, Preset, Settings, Loan, Stash} \subseteq DOMAIN Plan
    BY PlanRows
  <2> HIDE DEF S
  <2> QED
    BY <1>5, <2>1, <2>2
<1>17. \A g \in GoalIds : g \in DOMAIN n => g = Trip
  <2>1. \A g \in GoalIds : g \in DOMAIN Plan => g = Trip
    BY PlanRows, NamesApart DEF GoalIds
  <2> QED
    BY <1>1, <1>5, <2>1, IdsApart
<1>18. PlanAccounts(n)
  <2>1. Flat(Plan) /\ DOMAIN Plan \subseteq DOMAIN n
    BY <1>5, PlanGood DEF Good
  <2>2. Stash \in DOMAIN n
    BY <1>16
  <2>3. {Rent, Salary, Preset, Settings} \subseteq DOMAIN Plan
    BY PlanRows
  <2>4. PlanAccounts(Plan)
    BY <2>1 DEF Flat
  <2> QED
    BY <1>9, <1>10, <1>16, <1>17, <2>1, <2>2, <2>3, <2>4 DEF PlanAccounts
<1>19. EventFits(n)
  <2>1. Trip \in DOMAIN n /\ tx \in DOMAIN n
    BY <1>5
  <2>2. \A x \in TxIds : x \in DOMAIN n /\ n[x].src = "planned-event" => x = tx
    BY <1>7, <1>11, <1>14
  <2>3. Visit \in DOMAIN n /\ n[tx].of = Visit
    BY <1>5, <1>6, <1>11
  <2> QED
    BY <1>9, <2>1, <2>2, <2>3 DEF EventFits
<1>20. GoalFits(n)
  <2>1. n[Stash].prot = TRUE
    <3>1. Account(1, TRUE).prot = TRUE
      BY DEF Account
    <3> QED
      BY <1>16, <3>1, PlanRows
  <2>2. Visit \in DOMAIN n /\ tx # None
    BY <1>1, <1>5, IdsApart
  <2> QED
    BY <1>9, <1>10, <1>17, <2>1, <2>2 DEF GoalFits
<1>21. RepaymentFits(n)
  <2>1. \A x \in TxIds : x \in DOMAIN n => n[x].src # "debt"
    BY <1>6, <1>7, <1>11, <1>14
  <2>2. \A p \in PaymentIds : p \in DOMAIN n => n[p].tx = None
    BY <1>8, <1>11, <1>14
  <2> QED
    BY <1>16, <2>1, <2>2 DEF RepaymentFits
<1>22. NotOverpaid(n)
  <2>1. Conforms(n) /\ Conforms(Plan) /\ IsFiniteSet(DOMAIN Plan)
    BY <1>13, PlanTable DEF Table
  <2>2. \A p \in PaymentIds : p \notin DOMAIN Plan
    BY PlanGood
  <2>3. Paid(n, Loan) = Paid(Plan, Loan) + n[payment].amt
    BY <1>1, <1>14, <2>1, <2>2, PaidAdds
  <2>4. Paid(Plan, Loan) = 0
    BY <2>1, <2>2, NothingHappened
  <2>5. n[Loan].orig = 2
    BY <1>16, PlanRows, FirstRows
  <2> QED
    BY <1>8, <1>11, <2>3, <2>4, <2>5 DEF NotOverpaid
<1>23. \A e \in DOMAIN n \cap (TxIds \cup PaymentIds) : e[2] = None
  BY <1>1, <1>14
<1> QED
  BY <1>13, <1>15, <1>18, <1>19, <1>20, <1>21, <1>22, <1>23 DEF Good, Flat, n

\* The tables after the salary came in, a part of it was saved, and the rent
\* was paid from the savings.
LEMMA BusyGood ==
    Good(Busy) /\ \A e \in DOMAIN Busy \cap (TxIds \cup PaymentIds) : e[2] = None
<1> DEFINE a == <<"tx", None, 0>>
           b == <<"tx", None, 1>>
           c == <<"tx", None, 2>>
           funding == <<"funding", None, 0>>
           S == {a, b, c, funding}
           F(e) == CASE e = a -> [Tx("expense", 1, Cash, None, "commitment") EXCEPT !.key = Rent]
                     [] e = b -> [Tx("income", 1, Cash, None, "planned-income")
                                    EXCEPT !.key = Salary, !.of = Salary]
                     [] e = c -> [Tx("transfer", 1, Cash, Stash, "goal") EXCEPT !.of = Trip]
                     [] e = funding -> [Tx("transfer", 1, Stash, Cash, "manual")
                                          EXCEPT !.key = FundingOf(Rent)]
           ra == TxRow("expense", 1, Cash, None, "commitment", Rent, None)
           rb == TxRow("income", 1, Cash, None, "planned-income", Salary, Salary)
           rc == TxRow("transfer", 1, Cash, Stash, "goal", None, Trip)
           f == TxRow("transfer", 1, Stash, Cash, "manual", FundingOf(Rent), None)
           n == Busy
<1>1. /\ a \in TxIds /\ b \in TxIds /\ c \in TxIds /\ funding \in TxIds
      /\ a[2] = None /\ b[2] = None /\ c[2] = None /\ funding[2] = None
      /\ a \notin {b, c, funding} /\ b \notin {c, funding} /\ c # funding
  BY DEF TxIds
<1>2. n = PutAll(Plan, [e \in S |-> F(e)])
  BY DEF Busy
<1>3. Trip \in GoalIds /\ Cash \in AccountIds /\ Stash \in AccountIds
  BY DEF GoalIds, AccountIds
<1>4. F(a) = ra /\ F(b) = rb /\ F(c) = rc /\ F(funding) = f
  <2>1. [Tx("expense", 1, Cash, None, "commitment") EXCEPT !.key = Rent] = ra
    BY DEF Tx, TxRow
  <2>2. [Tx("income", 1, Cash, None, "planned-income") EXCEPT !.key = Salary, !.of = Salary] = rb
    BY TxRowIs
  <2>3. [Tx("transfer", 1, Cash, Stash, "goal") EXCEPT !.of = Trip] = rc
    BY DEF Tx, TxRow
  <2>4. [Tx("transfer", 1, Stash, Cash, "manual") EXCEPT !.key = FundingOf(Rent)] = f
    BY DEF Tx, TxRow
  <2> HIDE DEF a, b, c, funding, ra, rb, rc, f
  <2> QED
    BY <1>1, <2>1, <2>2, <2>3, <2>4
<1> HIDE DEF F, n, a, b, c, funding, ra, rb, rc, f
<1>5. /\ DOMAIN n = DOMAIN Plan \cup S /\ n = [e \in DOMAIN n |-> n[e]]
      /\ \A e \in S : n[e] = F(e)
      /\ \A e \in DOMAIN Plan : e \notin S => n[e] = Plan[e]
  <2> DEFINE w == [e \in S |-> F(e)]
  <2>1. DOMAIN w = S /\ \A e \in S : w[e] = F(e)
    OBVIOUS
  <2>2. n = PutAll(Plan, w)
    BY <1>2
  <2> HIDE DEF w, S
  <2>3. /\ DOMAIN n = DOMAIN Plan \cup DOMAIN w /\ n = [e \in DOMAIN n |-> n[e]]
        /\ \A e \in DOMAIN w : n[e] = w[e]
        /\ \A e \in DOMAIN Plan : e \notin DOMAIN w => n[e] = Plan[e]
    BY ONLY <2>2 DEF PutAll
  <2> QED
    BY ONLY <2>1, <2>3
<1>6. /\ ra \in Transactions /\ ra.type = "expense" /\ ra.from = Cash /\ ra.src = "commitment"
      /\ ra.key = Rent /\ ra.of = None /\ ra.amt = 1
  <2>1. ra \in Transactions
    BY <1>3, IdsApart, TxRowOk DEF ra
  <2> QED
    BY <2>1, TxRowFields DEF ra
<1>7. /\ rb \in Transactions /\ rb.type = "income" /\ rb.from = Cash
      /\ rb.src = "planned-income" /\ rb.key = Salary /\ rb.of = Salary
  <2>1. rb \in Transactions
    <3>1. Salary \notin {FundingOf(Rent), FundingOf(Visit)}
      BY IdsApart
    <3> QED
      BY <1>3, <3>1 DEF rb, TxRow, Transactions
  <2> QED
    BY <2>1, TxRowFields DEF rb
<1>8. /\ rc \in Transactions /\ rc.type = "transfer" /\ rc.from = Cash /\ rc.to = Stash
      /\ rc.src = "goal" /\ rc.key = None /\ rc.of = Trip
  <2>1. rc \in Transactions
    BY <1>3, IdsApart, TxRowOk DEF rc
  <2> QED
    BY <2>1, TxRowFields DEF rc
<1>9. /\ f \in Transactions /\ f.type = "transfer" /\ f.from = Stash /\ f.to = Cash
      /\ f.src = "manual" /\ f.key = FundingOf(Rent) /\ f.of = None /\ f.amt = 1
  <2>1. f \in Transactions
    BY <1>3, IdsApart, TxRowOk DEF f
  <2> QED
    BY <2>1, TxRowFields DEF f
<1>10. n[a] = ra /\ n[b] = rb /\ n[c] = rc /\ n[funding] = f
  BY <1>4, <1>5
<1>11. \A e \in DOMAIN Plan : e \in Ids /\ RowOk(e, Plan[e])
  BY PlanTable, ConformsIs DEF Table
<1>12. Table(n)
  <2>1. /\ RowOk(a, n[a]) /\ RowOk(b, n[b]) /\ RowOk(c, n[c]) /\ RowOk(funding, n[funding])
        /\ a \in Ids /\ b \in Ids /\ c \in Ids /\ funding \in Ids
    BY <1>1, <1>6, <1>7, <1>8, <1>9, <1>10, RowOkIs
  <2>2. \A e \in DOMAIN n : e \in Ids /\ RowOk(e, n[e])
    BY <1>5, <1>11, <2>1
  <2>3. DOMAIN n = DOMAIN Plan \cup {a} \cup {b} \cup {c} \cup {funding}
    BY <1>5
  <2>4. IsFiniteSet(DOMAIN n)
    <3>1. IsFiniteSet(DOMAIN Plan \cup {a})
      BY PlanTable, FS_AddElement DEF Table
    <3>2. IsFiniteSet(DOMAIN Plan \cup {a} \cup {b})
      BY <3>1, FS_AddElement
    <3>3. IsFiniteSet(DOMAIN Plan \cup {a} \cup {b} \cup {c})
      BY <3>2, FS_AddElement
    <3> QED
      BY <2>3, <3>3, FS_AddElement
  <2> QED
    BY <1>5, <2>2, <2>4, ConformsIs DEF Table
<1>13. /\ \A x \in TxIds : x \in DOMAIN n <=> x \in {a, b, c, funding}
       /\ \A p \in PaymentIds : p \notin DOMAIN n
  <2>1. \A e \in TxIds \cup PaymentIds : e \notin DOMAIN Plan
    BY PlanGood
  <2> QED
    BY <1>1, <1>5, <2>1, IdsApart
<1>14. \A e \in DOMAIN Plan : e \in DOMAIN n /\ n[e] = Plan[e]
  <2>1. \A e \in TxIds \cup PaymentIds : e \notin DOMAIN Plan
    BY PlanGood
  <2> QED
    BY <1>1, <1>5, <2>1
<1>15. \A e : e \notin TxIds => (e \in DOMAIN n <=> e \in DOMAIN Plan)
  BY <1>1, <1>5
<1>16. Cash \in DOMAIN Plan /\ Stash \in DOMAIN Plan /\ Trip \in DOMAIN Plan
       /\ Rent \in DOMAIN Plan /\ Salary \in DOMAIN Plan
  BY PlanRows
<1>17. TxAccounts(n)
  <2>1. Stash \in DOMAIN n /\ Cash \in DOMAIN n /\ Stash # Cash
    BY <1>14, <1>16, NamesApart
  <2> QED
    BY <1>6, <1>7, <1>8, <1>9, <1>10, <1>13, <2>1 DEF TxAccounts
<1>18. KeysApart(n)
  <2>1. Rent # Salary /\ FundingOf(Rent) \notin {Rent, Salary}
    BY NamesApart, IdsApart
  <2> QED
    BY <1>6, <1>7, <1>8, <1>9, <1>10, <1>13, <2>1 DEF KeysApart
<1>19. Realized(n)
  <2>1. Salary # None /\ Trip # Salary
    BY NamesApart
  <2>2. n[Trip].acc = Stash
    BY <1>3, <1>14, <1>16, PlanRows, FirstRows
  <2>3. Trip \in DOMAIN n /\ Rent \in DOMAIN n /\ Salary \in DOMAIN n
    BY <1>14, <1>16
  <2> QED
    BY <1>6, <1>7, <1>8, <1>9, <1>10, <1>13, <2>1, <2>2, <2>3 DEF Realized
<1>20. Funded(n)
  <2>1. n[Stash].prot = TRUE /\ n[Cash].prot = FALSE
    <3>1. Account(1, TRUE).prot = TRUE /\ Account(2, FALSE).prot = FALSE
      BY DEF Account
    <3> QED
      BY <1>14, <1>16, <3>1, PlanRows
  <2>2. \A x \in TxIds : x \in DOMAIN n /\ n[x].key = FundingOf(Rent) => x = funding
    <3>1. FundingOf(Rent) \notin {None, Rent, Salary}
      BY IdsApart
    <3> QED
      BY <1>6, <1>7, <1>8, <1>10, <1>13, <3>1
  <2>3. FundingFits(n, funding)
    BY <1>1, <1>6, <1>9, <1>10, <1>13, <2>1 DEF FundingFits
  <2> QED
    BY <2>2, <2>3 DEF Funded
<1>21. PlanAccounts(n) /\ EventFits(n) /\ GoalFits(n)
  <2>1. Flat(Plan)
    BY PlanGood DEF Good
  <2>2. /\ {Rent, Salary, Visit, Preset, Settings} \cap TxIds = {} /\ GoalIds \cap TxIds = {}
    BY IdsApart
  <2>3. PlanAccounts(n)
    BY <1>14, <1>15, <2>1, <2>2 DEF Flat, PlanAccounts
  <2>4. Visit \in DOMAIN Plan => n[Visit] = Plan[Visit] /\ Plan[Visit].paid = None
    BY <1>14, PlanRows, FirstRows
  <2>5. EventFits(n)
    BY <1>6, <1>7, <1>8, <1>9, <1>10, <1>13, <1>14, <1>15, <2>1, <2>2, <2>4
       DEF Flat, EventFits
  <2>6. GoalFits(n)
    <3>1. GoalFits(Plan) /\ PlanAccounts(Plan)
      BY <2>1 DEF Flat
    <3>2. \A g \in GoalIds : (g \in DOMAIN n <=> g \in DOMAIN Plan)
             /\ (g \in DOMAIN n => n[g] = Plan[g] /\ n[Plan[g].acc] = Plan[Plan[g].acc])
      BY <1>14, <1>15, <2>2, <3>1 DEF PlanAccounts
    <3>3. Visit \in DOMAIN n <=> Visit \in DOMAIN Plan
      BY <1>15, <2>2
    <3> QED
      BY <2>4, <3>1, <3>2, <3>3 DEF GoalFits
  <2> QED
    BY <2>3, <2>5, <2>6
<1>22. RepaymentFits(n) /\ NotOverpaid(n)
  <2>1. \A x \in TxIds : x \in DOMAIN n => n[x].src # "debt"
    BY <1>6, <1>7, <1>8, <1>9, <1>10, <1>13
  <2>2. Paid(n, Loan) = 0
    BY <1>12, <1>13, NothingHappened DEF Table
  <2>3. n[Loan].orig = 2
    BY <1>14, PlanRows, FirstRows
  <2> QED
    BY <1>13, <2>1, <2>2, <2>3 DEF RepaymentFits, NotOverpaid
<1>23. \A e \in DOMAIN n \cap (TxIds \cup PaymentIds) : e[2] = None
  BY <1>1, <1>13
<1> QED
  BY <1>12, <1>17, <1>18, <1>19, <1>20, <1>21, <1>22, <1>23 DEF Good, Flat, n

\* What a command writes.
LEMMA CommandSteps ==
    ASSUME NEW d, Ready(d), Ledger(d) \/ Planning(d)
    PROVE  \E new : Does(d, new) /\ Step(d, new)
<1>1. CASE Ledger(d)
  BY <1>1, SaveTransactionSteps, DeleteTransactionSteps, AdjustAccountBalanceSteps,
     MarkCommitmentPaidSteps, LinkTransactionToCommitmentSteps, UnlinkCommitmentPaymentSteps,
     MarkPlannedIncomeReceivedSteps, MarkPlannedEventPaidSteps, WithdrawFromGoalSteps,
     ContributeToGoalSteps, RecordDebtPaymentSteps DEF Ledger
<1>2. CASE Planning(d)
  BY <1>2, SaveAccountSteps, DeleteAccountSteps, CategorySteps, CommitmentSteps,
     PlannedIncomeSteps, SaveGoalSteps, DeleteGoalSteps, DebtSteps, PlannedEventSteps,
     PreferenceSteps, AnewSteps DEF Planning
<1> QED
  BY <1>1, <1>2

\* And it is counted.
LEMMA CommandGives ==
    ASSUME NEW d, Ledger(d) \/ Planning(d)
    PROVE  made' = [made EXCEPT ![d] = @ + 1]
<1>1. CASE Ledger(d)
  BY <1>1, Zenon DEF Ledger, Gives, SaveTransaction, DeleteTransaction, AdjustAccountBalance,
     MarkCommitmentPaid, LinkTransactionToCommitment, UnlinkCommitmentPayment,
     MarkPlannedIncomeReceived, MarkPlannedEventPaid, WithdrawFromGoal, ContributeToGoal,
     RecordDebtPayment
<1>2. CASE Planning(d)
  BY <1>2, Zenon DEF Planning, Gives, SaveAccount, DeleteAccount, SaveCategory, DeleteCategory,
     SaveCommitment, DeleteCommitment, SavePlannedIncome, DeletePlannedIncome, SaveGoal,
     DeleteGoal, SaveDebt, DeleteDebt, SavePlannedEvent, DeletePlannedEvent, SavePreset,
     DeletePreset, UpdateSettings, ResetAllFinanceData, ImportPlanBlueprint, ReplaceWithBackup
<1> QED
  BY <1>1, <1>2

-----------------------------------------------------------------------------
(* Groups on their way, and what a command adds to them.                   *)

\* Sound tables are good ones, with ids given out.
LEMMA SoundIs ==
    ASSUME NEW t, NEW m
    PROVE  Sound(t, m) <=> Good(t) /\ Numbered(DOMAIN t, m)
BY FlatIs DEF Sound, Good, Table

\* More commands make no id one that was not given out.
LEMMA NumberedLater ==
    ASSUME NEW S, NEW m, NEW n, \A d \in Devices : m[d] \in Nat /\ n[d] \in Nat /\ m[d] <= n[d],
           \A e \in S \cap (TxIds \cup PaymentIds) : e[3] \in Nat,
           Numbered(S, m)
    PROVE  Numbered(S, n)
BY DEF Numbered

\* The last part of a row's id is a number.
LEMMA IdNumbers ==
    \A e \in TxIds \cup PaymentIds : e[3] \in Nat
BY DEF TxIds, PaymentIds

\* Groups that fit still do when there are more commands.
LEMMA QueueLater ==
    ASSUME NEW q, NEW m, NEW n, \A d \in Devices : m[d] \in Nat /\ n[d] \in Nat /\ m[d] <= n[d],
           QueueFits(q, m)
    PROVE  QueueFits(q, n)
<1>1. ASSUME NEW i \in 1..Len(q)
      PROVE  GroupFits(q[i], n)
  <2>1. GroupFits(q[i], m)
    BY DEF QueueFits
  <2>2. Numbered(DOMAIN q[i].chg, n)
    BY <2>1, NumberedLater, IdNumbers DEF GroupFits
  <2> QED
    BY <2>1, <2>2 DEF GroupFits
<1> QED
  BY <1>1 DEF QueueFits

\* One group more.
LEMMA QueueGrows ==
    ASSUME NEW q, NEW m, QueueFits(q, m), NEW g, GroupFits(g, m)
    PROVE  QueueFits(Append(q, g), m)
<1> DEFINE T == Range(q) \cup {g}
           h == Append(q, g)
<1>1. q \in Seq(T)
  BY SeqMonotonic DEF QueueFits
<1>2. /\ h \in Seq(T) /\ Len(h) = Len(q) + 1 /\ Len(q) \in Nat
      /\ \A i \in 1..Len(q) : h[i] = q[i]
      /\ h[Len(q) + 1] = g
  BY <1>1, AppendProperties, LenProperties
<1> HIDE DEF h, T
<1>3. h \in Seq(Range(h))
  BY <1>2, SeqOfRange
<1>4. ASSUME NEW i \in 1..Len(h)
      PROVE  GroupFits(h[i], m)
  <2>1. CASE i = Len(q) + 1
    BY <1>2, <2>1
  <2>2. CASE i # Len(q) + 1
    <3>1. i \in 1..Len(q)
      BY <1>2, <2>2
    <3> QED
      BY <1>2, <3>1 DEF QueueFits
  <2> QED
    BY <2>1, <2>2
<1> QED
  BY <1>3, <1>4 DEF QueueFits, h

\* One queue behind another.
LEMMA QueueJoins ==
    ASSUME NEW q, NEW r, NEW m, QueueFits(q, m), QueueFits(r, m)
    PROVE  QueueFits(q \o r, m) /\ Len(q) \in Nat /\ Len(q) <= Len(q \o r)
              /\ Len(q \o r) \in Nat
<1> DEFINE T == Range(q) \cup Range(r)
           h == q \o r
<1>1. q \in Seq(T) /\ r \in Seq(T)
  BY SeqMonotonic DEF QueueFits
<1>2. Len(q) \in Nat /\ Len(r) \in Nat
  BY <1>1, LenProperties
<1>3. /\ h \in Seq(T) /\ Len(h) = Len(q) + Len(r)
      /\ \A i \in 1..Len(q) + Len(r) : h[i] = IF i <= Len(q) THEN q[i] ELSE r[i - Len(q)]
  BY <1>1, ConcatProperties
<1> HIDE DEF h, T
<1>4. h \in Seq(Range(h))
  BY <1>3, SeqOfRange
<1>5. ASSUME NEW i \in 1..Len(h)
      PROVE  GroupFits(h[i], m)
  <2>1. CASE i <= Len(q)
    <3>1. i \in 1..Len(q) /\ h[i] = q[i]
      BY <1>2, <1>3, <2>1
    <3> QED
      BY <3>1 DEF QueueFits
  <2>2. CASE ~(i <= Len(q))
    <3>1. i - Len(q) \in 1..Len(r) /\ h[i] = r[i - Len(q)]
      BY <1>2, <1>3, <2>2
    <3> QED
      BY <3>1 DEF QueueFits
  <2> QED
    BY <2>1, <2>2
<1>6. Len(q) <= Len(h) /\ Len(h) \in Nat
  BY <1>2, <1>3
<1> QED
  BY <1>2, <1>4, <1>5, <1>6 DEF QueueFits, h

\* The version a device has of an entity is a number.
LEMMA VersionType ==
    ASSUME NEW d \in Devices, \A e \in DOMAIN ver[d] : ver[d][e] \in Nat \ {0}, NEW e
    PROVE  Version(d, e) \in Nat
BY DEF Version

\* A command, or a patch, that leaves good tables leaves the invariant.
LEMMA CommitKeeps ==
    ASSUME IInv, NEW d \in Devices, NEW new, Commit(d, new), Good(new),
           Numbered(DOMAIN new, made'), made' \in [Devices -> Nat],
           \A o \in Devices : made[o] <= made'[o],
           patch' = [o \in Devices |-> patch'[o]], \A o \in Devices : PatchFits(patch'[o])
    PROVE  IInv'
<1> DEFINE t == db[d]
           touched == {e \in DOMAIN new \cup DOMAIN t : Get(new, e) # Get(t, e)}
           change(e) == [pre |-> Get(t, e), old |-> Version(d, e), res |-> Get(new, e)]
           chg == [e \in touched |-> change(e)]
           g == [dev |-> d, chg |-> chg]
           up == [e \in touched |-> Version(d, e) + 1]
<1>1. /\ db' = [db EXCEPT ![d] = new]
      /\ outbox' = [outbox EXCEPT ![d] = Append(@, g)]
      /\ ver' = [ver EXCEPT ![d] = PutAll(@, up)]
      /\ UNCHANGED <<log, read, conflict, refused>>
  BY Zenon DEF Commit
<1>2. /\ TypeOK /\ db = [o \in Devices |-> db[o]] /\ ver = [o \in Devices |-> ver[o]]
      /\ outbox = [o \in Devices |-> outbox[o]] /\ QueueFits(log, made)
      /\ \A o \in Devices :
            Good(db[o]) /\ Numbered(DOMAIN db[o], made) /\ QueueFits(outbox[o], made)
  BY SoundIs, Zenon DEF IInv
<1>3. /\ made \in [Devices -> Nat] /\ read \in [Devices -> 0..Len(log)]
      /\ conflict \in [Devices -> BOOLEAN] /\ refused \in [Devices -> BOOLEAN]
      /\ \A o \in Devices : \A e \in DOMAIN ver[o] : ver[o][e] \in Nat \ {0}
  BY <1>2 DEF TypeOK
<1>4. \A o \in Devices : made[o] \in Nat /\ made'[o] \in Nat /\ made[o] <= made'[o]
  BY <1>3
<1>5. \A o \in Devices : Numbered(DOMAIN db[o], made')
  BY <1>2, <1>4, NumberedLater, IdNumbers
<1>6. \A e : Get(new, e) # None <=> e \in DOMAIN new
  BY NoneIsNoRow DEF Get, Good, Table
<1>7. touched \subseteq DOMAIN new \cup DOMAIN t
  OBVIOUS
<1>8. DOMAIN chg = touched /\ \A e \in touched : chg[e] = change(e)
  OBVIOUS
<1>9. \A e \in touched : chg[e].res = Get(new, e) /\ chg[e].old = Version(d, e)
  OBVIOUS
<1>10. DOMAIN up = touched /\ \A e \in touched : up[e] = Version(d, e) + 1
  OBVIOUS
<1>11. g.chg = chg
  OBVIOUS
<1> HIDE DEF t, touched, change, chg, g, up
<1>12. GroupFits(g, made')
  <2>1. IsFiniteSet(DOMAIN new \cup DOMAIN t)
    BY <1>2, FS_Union DEF Good, Table, t
  <2>2. IsFiniteSet(touched)
    BY <1>7, <2>1, FS_Subset
  <2>3. Numbered(touched, made')
    BY <1>5, <1>7 DEF Numbered, t
  <2>4. DOMAIN new \cup DOMAIN t \subseteq Ids
    BY <1>2 DEF Good, Table, Conforms, t
  <2>5. \A e \in touched : chg[e].old \in Nat
    BY <1>3, <1>9, VersionType
  <2>6. Conforms(Written(chg))
    <3> DEFINE w == Written(chg)
    <3>1. DOMAIN w = {e \in touched : chg[e].res # None}
      BY <1>8 DEF Written
    <3>2. \A e \in DOMAIN w : w[e] = chg[e].res
      BY DEF Written
    <3> HIDE DEF w
    <3>3. \A e \in DOMAIN w : e \in DOMAIN new /\ w[e] = new[e]
      BY <1>6, <1>9, <3>1, <3>2 DEF Get
    <3>4. \A e \in DOMAIN new : e \in Ids /\ RowOk(e, new[e])
      BY ConformsIs DEF Good, Table
    <3> QED
      BY <3>3, <3>4, ConformsIs DEF w
  <2> QED
    BY <1>7, <1>8, <1>11, <2>2, <2>3, <2>4, <2>5, <2>6 DEF GroupFits
<1>13. \A o \in Devices : o # d => db'[o] = db[o] /\ ver'[o] = ver[o] /\ outbox'[o] = outbox[o]
  BY <1>1, <1>2
<1>14. /\ db'[d] = new /\ ver'[d] = PutAll(ver[d], up) /\ outbox'[d] = Append(outbox[d], g)
       /\ db' = [o \in Devices |-> db'[o]] /\ ver' = [o \in Devices |-> ver'[o]]
       /\ outbox' = [o \in Devices |-> outbox'[o]]
  BY <1>1, <1>2
<1>15. \A o \in Devices : QueueFits(outbox'[o], made')
  <2>1. \A o \in Devices : QueueFits(outbox[o], made')
    BY <1>2, <1>4, QueueLater
  <2>2. QueueFits(Append(outbox[d], g), made')
    BY <1>12, <2>1, QueueGrows
  <2> QED
    BY <1>13, <1>14, <2>1, <2>2
<1>16. QueueFits(log', made')
  BY <1>1, <1>2, <1>4, QueueLater
<1>17. \A o \in Devices : \A e \in DOMAIN ver'[o] : ver'[o][e] \in Nat \ {0}
  <2>1. \A e : Version(d, e) \in Nat
    BY <1>3, VersionType
  <2>2. \A e \in DOMAIN ver'[d] : ver'[d][e] \in Nat \ {0}
    <3> DEFINE w == ver[d]
    <3> HIDE DEF w
    <3>1. /\ DOMAIN PutAll(w, up) = DOMAIN w \cup DOMAIN up
          /\ \A e \in DOMAIN up : PutAll(w, up)[e] = up[e]
          /\ \A e \in DOMAIN w : e \notin DOMAIN up => PutAll(w, up)[e] = w[e]
      BY DEF PutAll
    <3>2. \A e \in DOMAIN up : up[e] \in Nat \ {0}
      BY <1>10, <2>1
    <3>3. \A e \in DOMAIN w : w[e] \in Nat \ {0}
      BY <1>3 DEF w
    <3>4. \A e \in DOMAIN PutAll(w, up) : PutAll(w, up)[e] \in Nat \ {0}
      BY ONLY <3>1, <3>2, <3>3
    <3> QED
      BY <1>14, <3>4 DEF w
  <2> QED
    BY <1>3, <1>13, <2>2
<1>18. \A o \in Devices : Good(db'[o]) /\ Numbered(DOMAIN db'[o], made')
  BY <1>2, <1>5, <1>13, <1>14
<1>19. \A o \in Devices : Conforms(db'[o])
  BY <1>18 DEF Good, Table
<1>20. /\ read' \in [Devices -> 0..Len(log')]
       /\ conflict' \in [Devices -> BOOLEAN] /\ refused' \in [Devices -> BOOLEAN]
  BY <1>1, <1>3
<1>21. TypeOK'
  BY <1>17, <1>19, <1>20 DEF TypeOK
<1>22. \A o \in Devices : Sound(db'[o], made')
  BY <1>18, SoundIs
<1> QED
  BY <1>14, <1>15, <1>16, <1>21, <1>22 DEF IInv

\* The invariant holds to begin with.
LEMMA InitHolds ==
    Init => IInv
<1> SUFFICES ASSUME Init
             PROVE  IInv
  OBVIOUS
<1>1. PICK t \in {Plan, Lived, Busy} : db = [d \in Devices |-> t]
  BY DEF Init
<1>2. /\ ver = [d \in Devices |-> <<>>] /\ outbox = [d \in Devices |-> <<>>] /\ log = <<>>
      /\ read = [d \in Devices |-> 0] /\ made = read
      /\ conflict = [d \in Devices |-> FALSE] /\ refused = conflict
      /\ patch = [d \in Devices |-> None]
  BY DEF Init
<1>3. Good(t) /\ \A e \in DOMAIN t \cap (TxIds \cup PaymentIds) : e[2] = None
  BY <1>1, PlanGood, LivedGood, BusyGood
<1>4. None \notin Devices
  BY FinanceAssumption DEF FinanceAssumption
<1>5. \A d \in Devices : db[d] = t /\ ver[d] = <<>> /\ outbox[d] = <<>> /\ patch[d] = None
  BY <1>1, <1>2
<1>6. Numbered(DOMAIN t, made)
  BY <1>3, <1>4 DEF Numbered
<1>7. Sound(t, made)
  BY <1>3, <1>6, SoundIs
<1>8. QueueFits(<<>>, made) /\ Len(<<>>) = 0
  <2>1. <<>> \in Seq({}) /\ Len(<<>>) = 0
    BY EmptySeq
  <2>2. <<>> \in Seq(Range(<<>>))
    BY <2>1, SeqOfRange
  <2> QED
    BY <2>1, <2>2 DEF QueueFits
<1>9. TypeOK
  <2>1. \A d \in Devices : Conforms(db[d])
    BY <1>3, <1>5 DEF Good, Table
  <2>2. \A d \in Devices : \A e \in DOMAIN ver[d] : ver[d][e] \in Nat \ {0}
    BY <1>5, NothingGood
  <2>3. made \in [Devices -> Nat] /\ read \in [Devices -> 0..Len(log)]
    BY <1>2, <1>8
  <2>4. conflict \in [Devices -> BOOLEAN] /\ refused \in [Devices -> BOOLEAN]
    BY <1>2
  <2> QED
    BY <2>1, <2>2, <2>3, <2>4 DEF TypeOK
<1>10. PatchFits(None)
  BY DEF PatchFits
<1>11. /\ db = [d \in Devices |-> db[d]] /\ ver = [d \in Devices |-> ver[d]]
       /\ outbox = [d \in Devices |-> outbox[d]] /\ patch = [d \in Devices |-> patch[d]]
  BY <1>1, <1>2
<1>12. QueueFits(log, made)
  BY <1>2, <1>8
<1>13. \A d \in Devices : Sound(db[d], made) /\ QueueFits(outbox[d], made) /\ PatchFits(patch[d])
  BY <1>5, <1>7, <1>8, <1>10
<1> QED
  BY <1>9, <1>11, <1>12, <1>13 DEF IInv

\* Between commands the tables are ready for one.
LEMMA ReadyNow ==
    ASSUME IInv, NEW d \in Devices
    PROVE  Ready(d)
<1>1. Sound(db[d], made) /\ made \in [Devices -> Nat]
  BY DEF IInv, TypeOK
<1> QED
  BY <1>1, SoundIs DEF Ready

\* What a command does to its device's tables, and that it counts.
LEMMA CommandWrites ==
    ASSUME IInv, NEW d \in Devices, Ledger(d) \/ Planning(d)
    PROVE  \E new : /\ Commit(d, new) /\ UNCHANGED patch
                    /\ made' = [made EXCEPT ![d] = @ + 1] /\ db' = [db EXCEPT ![d] = new]
                    /\ Good(new) /\ Numbered(DOMAIN new, made')
                    /\ Solvent(db[d], new) /\ StatusKept(db[d], new)
<1>1. Ready(d)
  BY ReadyNow
<1>2. PICK new : Does(d, new) /\ Step(d, new)
  BY <1>1, CommandSteps
<1>3. made' = [made EXCEPT ![d] = @ + 1]
  BY CommandGives
<1>4. Commit(d, new) /\ UNCHANGED patch
  BY <1>2 DEF Does
<1>5. db' = [db EXCEPT ![d] = new]
  BY <1>4, Zenon DEF Commit
<1>6. /\ Good(new) /\ Solvent(db[d], new) /\ StatusKept(db[d], new)
      /\ DOMAIN new \cap (TxIds \cup PaymentIds)
           \subseteq DOMAIN db[d] \cup {NewTx(d), NewFunding(d), NewPayment(d)}
  BY <1>2 DEF Step
<1>7. made \in [Devices -> Nat] /\ Numbered(DOMAIN db[d], made)
  BY <1>1 DEF Ready
<1>8. /\ made'[d] = made[d] + 1 /\ made[d] \in Nat
      /\ \A o \in Devices : made[o] \in Nat /\ made'[o] \in Nat /\ made[o] <= made'[o]
  BY <1>3, <1>7
<1>9. Numbered(DOMAIN db[d], made')
  BY <1>7, <1>8, NumberedLater, IdNumbers
<1>10. \A e \in {NewTx(d), NewFunding(d), NewPayment(d)} : e[2] = d /\ e[3] = made[d] + 1
  BY DEF NewTx, NewFunding, NewPayment
<1>11. Numbered(DOMAIN new, made')
  <2> SUFFICES ASSUME NEW e \in DOMAIN new \cap (TxIds \cup PaymentIds), e[2] \in Devices
               PROVE  e[3] <= made'[e[2]]
    BY DEF Numbered
  <2>1. CASE e \in DOMAIN db[d]
    BY <1>9, <2>1 DEF Numbered
  <2>2. CASE e \in {NewTx(d), NewFunding(d), NewPayment(d)}
    BY <1>8, <1>10, <2>2
  <2> QED
    BY <1>6, <2>1, <2>2
<1> QED
  BY <1>3, <1>4, <1>5, <1>6, <1>11

\* A command leaves the invariant.
LEMMA CommandKeeps ==
    ASSUME IInv, NEW d \in Devices, Ledger(d) \/ Planning(d)
    PROVE  IInv'
<1>1. PICK new : /\ Commit(d, new) /\ UNCHANGED patch
                 /\ made' = [made EXCEPT ![d] = @ + 1]
                 /\ Good(new) /\ Numbered(DOMAIN new, made')
  BY CommandWrites
<1>2. made \in [Devices -> Nat]
  BY DEF IInv, TypeOK
<1>3. made' \in [Devices -> Nat] /\ \A o \in Devices : made[o] <= made'[o]
  BY <1>1, <1>2
<1>4. patch' = [o \in Devices |-> patch'[o]] /\ \A o \in Devices : PatchFits(patch'[o])
  BY <1>1 DEF IInv
<1> QED
  BY <1>1, <1>3, <1>4, CommitKeeps

-----------------------------------------------------------------------------
(* Plan patches.                                                           *)

\* The plan is the rows that are no ledger rows and no repayments.
LEMMA PlanOfIs ==
    ASSUME NEW t, Table(t)
    PROVE  /\ DOMAIN PlanOf(t) = DOMAIN t \ (TxIds \cup PaymentIds)
           /\ \A e \in DOMAIN PlanOf(t) : PlanOf(t)[e] = t[e]
           /\ Table(PlanOf(t))
<1> DEFINE n == PlanOf(t)
           S == {e \in DOMAIN t : t[e].is \notin {"tx", "payment"}}
<1>1. Conforms(t) /\ IsFiniteSet(DOMAIN t)
  BY DEF Table
<1>2. n = [e \in S |-> t[e]]
  BY DEF PlanOf, Restrict
<1>3. S = DOMAIN t \ (TxIds \cup PaymentIds)
  BY <1>1, KindsAre
<1> HIDE DEF n, S
<1>4. DOMAIN n = S /\ \A e \in S : n[e] = t[e]
  BY <1>2
<1>5. n = [e \in DOMAIN n |-> n[e]]
  BY <1>2, <1>4
<1>6. IsFiniteSet(DOMAIN n)
  BY <1>1, <1>3, <1>4, FS_Subset
<1>7. Conforms(n)
  BY <1>1, <1>3, <1>4, ConformsIs
<1> QED
  BY <1>3, <1>4, <1>5, <1>6, <1>7 DEF n, Table

\* A proposal writes rows of the plan.
LEMMA ProposalsFit ==
    ASSUME NEW t, Table(t), NEW p \in Proposals(t)
    PROVE  /\ IsFiniteSet(DOMAIN p)
           /\ \A e \in DOMAIN p : e \in Ids /\ e \notin TxIds \cup PaymentIds /\ RowOk(e, p[e])
<1>1. Conforms(t)
  BY DEF Table
<1>2. ASSUME NEW e \in Ids, e \notin TxIds \cup PaymentIds, NEW v, RowOk(e, v), p = Only(e, v)
      PROVE  /\ IsFiniteSet(DOMAIN p)
             /\ \A x \in DOMAIN p : x \in Ids /\ x \notin TxIds \cup PaymentIds /\ RowOk(x, p[x])
  <2>1. DOMAIN p = {e} /\ p[e] = v
    BY <1>2 DEF Only
  <2>2. IsFiniteSet({e})
    BY FS_Singleton
  <2> QED
    BY <1>2, <2>1, <2>2
<1>3. CASE \E e \in {Rent} \cap DOMAIN t : p = Only(Rent, [t[Rent] EXCEPT !.active = FALSE])
  <2> DEFINE v == [t[Rent] EXCEPT !.active = FALSE]
  <2>1. t[Rent] \in Commitments
    BY <1>1, <1>3 DEF Conforms
  <2>2. v \in Commitments
    BY <2>1 DEF Commitments
  <2>3. p = Only(Rent, v)
    BY <1>3
  <2> HIDE DEF v
  <2>4. Rent \in Ids /\ RowOk(Rent, v) /\ Rent \notin TxIds \cup PaymentIds
    BY <2>2, RowOkIs, IdsApart
  <2> QED
    BY <1>2, <2>3, <2>4
<1>4. CASE \E a \in {Spare, Trip} \cap DOMAIN t : p = Only(a, [t[a] EXCEPT !.arch = TRUE])
  <2>1. PICK a \in {Spare, Trip} \cap DOMAIN t : p = Only(a, [t[a] EXCEPT !.arch = TRUE])
    BY <1>4
  <2> DEFINE v == [t[a] EXCEPT !.arch = TRUE]
  <2>2. a \in Ids /\ RowOk(a, v) /\ a \notin TxIds \cup PaymentIds
    <3>1. CASE a = Spare
      <4>1. a \in AccountIds
        BY <3>1 DEF AccountIds
      <4>2. t[a] \in Accounts
        BY <1>1, <4>1 DEF Conforms
      <4>3. v \in Accounts
        BY <4>2 DEF Accounts
      <4> HIDE DEF v
      <4> QED
        BY <4>1, <4>3, RowOkIs, IdsApart
    <3>2. CASE a = Trip
      <4>1. a \in GoalIds
        BY <3>2 DEF GoalIds
      <4>2. t[a] \in Goals
        BY <1>1, <4>1 DEF Conforms
      <4>3. v \in Goals
        BY <4>2 DEF Goals
      <4> HIDE DEF v
      <4> QED
        BY <4>1, <4>3, RowOkIs, IdsApart
    <3> QED
      BY <3>1, <3>2
  <2> HIDE DEF v
  <2> QED
    BY <1>2, <2>1, <2>2 DEF v
<1>5. CASE \E a \in UNION {Rows(t, "account") : e \in {Trip} \cap DOMAIN t} :
              p = Only(Trip, [t[Trip] EXCEPT !.acc = a])
  <2>1. PICK a \in UNION {Rows(t, "account") : e \in {Trip} \cap DOMAIN t} :
               p = Only(Trip, [t[Trip] EXCEPT !.acc = a])
    BY <1>5
  <2>2. Trip \in DOMAIN t /\ a \in AccountIds /\ Trip \in GoalIds
    BY <1>1, RowsAre DEF GoalIds
  <2> DEFINE v == [t[Trip] EXCEPT !.acc = a]
  <2>3. t[Trip] \in Goals
    BY <1>1, <2>2 DEF Conforms
  <2>4. v \in Goals
    BY <2>2, <2>3 DEF Goals
  <2> HIDE DEF v
  <2>5. Trip \in Ids /\ RowOk(Trip, v) /\ Trip \notin TxIds \cup PaymentIds
    BY <2>2, <2>4, RowOkIs, IdsApart
  <2> QED
    BY <1>2, <2>1, <2>5 DEF v
<1>6. CASE \E e \in {v \in Rows(t, "event") : t[v].paid = None} :
              p = Only(Visit, [t[Visit] EXCEPT !.goal = None])
  <2> DEFINE v == [t[Visit] EXCEPT !.goal = None]
  <2>1. Visit \in DOMAIN t
    BY <1>1, <1>6, RowsAre
  <2>2. t[Visit] \in Events
    BY <1>1, <2>1 DEF Conforms
  <2>3. v \in Events
    BY <2>2 DEF Events
  <2>4. p = Only(Visit, v)
    BY <1>6
  <2> HIDE DEF v
  <2>5. Visit \in Ids /\ RowOk(Visit, v) /\ Visit \notin TxIds \cup PaymentIds
    BY <2>3, RowOkIs, IdsApart
  <2> QED
    BY <1>2, <2>4, <2>5
<1>7. CASE p = [e \in {NewAccount, NewGoal} |->
                  IF e = NewAccount THEN Account(0, TRUE) ELSE Goal(NewAccount)]
  <2>1. DOMAIN p = {NewAccount, NewGoal} /\ NewAccount # NewGoal
    BY <1>7, NamesApart
  <2>2. p[NewAccount] = Account(0, TRUE) /\ p[NewGoal] = Goal(NewAccount)
    BY <1>7, <2>1
  <2>3. NewAccount \in AccountIds /\ NewGoal \in GoalIds
    BY DEF AccountIds, GoalIds
  <2>4. p[NewAccount] \in Accounts
    BY <2>2 DEF Account, Accounts
  <2>5. p[NewGoal] \in Goals
    BY <2>2, <2>3, FirstRows
  <2>6. NewAccount \in Ids /\ RowOk(NewAccount, p[NewAccount])
    BY <2>3, <2>4, RowOkIs
  <2>7. NewGoal \in Ids /\ RowOk(NewGoal, p[NewGoal])
    BY <2>3, <2>5, RowOkIs
  <2>8. IsFiniteSet({NewAccount} \cup {NewGoal})
    BY FS_Singleton, FS_AddElement
  <2>9. DOMAIN p = {NewAccount} \cup {NewGoal}
    BY <2>1
  <2> QED
    BY <2>1, <2>3, <2>6, <2>7, <2>8, <2>9, IdsApart
<1> QED
  BY <1>3, <1>4, <1>5, <1>6, <1>7 DEF Proposals

\* What is prepared differs from what it was prepared from where it shows it.
LEMMA PreparedFits ==
    ASSUME NEW t, Table(t), NEW p \in Proposals(t), NEW q,
           q = [source |-> Fingerprint(t), next |-> PutAll(PlanOf(t), p), shown |-> DOMAIN p]
    PROVE  PatchFits(q)
<1> DEFINE s == PlanOf(t)
           n == PutAll(s, p)
<1>1. q.source = s /\ q.next = n /\ q.shown = DOMAIN p
  BY DEF Fingerprint
<1>2. /\ DOMAIN s = DOMAIN t \ (TxIds \cup PaymentIds) /\ Table(s)
  BY PlanOfIs
<1>3. /\ IsFiniteSet(DOMAIN p)
      /\ \A e \in DOMAIN p : e \in Ids /\ e \notin TxIds \cup PaymentIds /\ RowOk(e, p[e])
  BY ProposalsFit
<1> HIDE DEF s
<1>4. /\ DOMAIN n = DOMAIN s \cup DOMAIN p /\ \A e \in DOMAIN p : n[e] = p[e]
      /\ \A e \in DOMAIN s : e \notin DOMAIN p => n[e] = s[e]
  BY DEF PutAll
<1> HIDE DEF n
<1>5. IsFiniteSet(DOMAIN n)
  <2>1. IsFiniteSet(DOMAIN s) /\ IsFiniteSet(DOMAIN p)
    BY <1>2, <1>3 DEF Table
  <2>2. IsFiniteSet(DOMAIN s \cup DOMAIN p)
    BY ONLY <2>1, FS_Union
  <2> QED
    BY <1>4, <2>2
<1>6. \A e \in DOMAIN s : e \in Ids /\ RowOk(e, s[e])
  BY <1>2, ConformsIs DEF Table
<1>7. Conforms(n)
  BY <1>3, <1>4, <1>6, ConformsIs
<1>8. \A e \in DOMAIN n : n[e].is \notin {"tx", "payment"}
  BY <1>2, <1>3, <1>4, <1>7, KindsAre
<1> QED
  BY <1>1, <1>4, <1>5, <1>7, <1>8 DEF PatchFits

\* preparePlanPatch leaves the invariant.
LEMMA PrepareKeeps ==
    ASSUME IInv, NEW d \in Devices, PreparePlanPatch(d)
    PROVE  IInv' /\ UNCHANGED db
<1>1. PICK p \in Proposals(db[d]) :
         /\ patch' = [patch EXCEPT ![d] = [source |-> Fingerprint(db[d]),
                                           next |-> PutAll(PlanOf(db[d]), p),
                                           shown |-> DOMAIN p]]
         /\ UNCHANGED <<db, ver, outbox, log, read, conflict, refused>>
  BY DEF PreparePlanPatch
<1>2. made' = [made EXCEPT ![d] = @ + 1]
  BY DEF PreparePlanPatch, Gives
<1> DEFINE q == [source |-> Fingerprint(db[d]), next |-> PutAll(PlanOf(db[d]), p),
                 shown |-> DOMAIN p]
<1>3. /\ TypeOK /\ QueueFits(log, made) /\ patch = [o \in Devices |-> patch[o]]
      /\ \A o \in Devices : Good(db[o]) /\ Numbered(DOMAIN db[o], made)
            /\ QueueFits(outbox[o], made) /\ PatchFits(patch[o])
      /\ db = [o \in Devices |-> db[o]] /\ ver = [o \in Devices |-> ver[o]]
      /\ outbox = [o \in Devices |-> outbox[o]]
  BY SoundIs, Zenon DEF IInv
<1>4. made \in [Devices -> Nat]
  BY <1>3 DEF TypeOK
<1>5. /\ made' \in [Devices -> Nat]
      /\ \A o \in Devices : made[o] \in Nat /\ made'[o] \in Nat /\ made[o] <= made'[o]
  BY <1>2, <1>4
<1>6. PatchFits(q)
  <2>1. Table(db[d])
    BY <1>3 DEF Good
  <2> QED
    BY <2>1, PreparedFits
<1>7. patch' = [patch EXCEPT ![d] = q]
  BY <1>1
<1> HIDE DEF q
<1>8. patch' = [o \in Devices |-> patch'[o]] /\ \A o \in Devices : PatchFits(patch'[o])
  BY <1>3, <1>6, <1>7
<1>9. \A o \in Devices : Numbered(DOMAIN db[o], made') /\ QueueFits(outbox[o], made')
  BY <1>3, <1>5, NumberedLater, IdNumbers, QueueLater
<1>10. QueueFits(log, made')
  BY <1>3, <1>5, QueueLater
<1>11. \A o \in Devices : Sound(db[o], made')
  BY <1>3, <1>9, SoundIs
<1>12. TypeOK'
  BY <1>1, <1>3, <1>5 DEF TypeOK
<1> QED
  BY <1>1, <1>3, <1>8, <1>9, <1>10, <1>11, <1>12 DEF IInv

\* What applying a patch does to its device's tables.
LEMMA ApplyWrites ==
    ASSUME IInv, NEW d \in Devices, ApplyPlanPatch(d)
    PROVE  /\ patch' = [patch EXCEPT ![d] = None] /\ UNCHANGED made
           /\ \E new : /\ Commit(d, new) /\ db' = [db EXCEPT ![d] = new]
                       /\ Good(new) /\ Numbered(DOMAIN new, made)
                       /\ \A e : Get(new, e) # Get(db[d], e) => e \in patch[d].shown
<1> DEFINE t == db[d]
           q == patch[d]
           held == {"tx", "payment", "category", "settings"}
           today == {e \in DOMAIN t : t[e].is \in held}
           planned == {e \in DOMAIN q.next : q.next[e].is \notin held}
           plan == PutAll(Restrict(q.next, planned), Restrict(t, today))
           n == PutAll(t, plan)
<1>1. /\ q # None /\ Fingerprint(t) = q.source /\ Valid(plan) /\ Commit(d, n)
      /\ patch' = [patch EXCEPT ![d] = None] /\ UNCHANGED made
  BY Zenon DEF ApplyPlanPatch
<1>2. Good(t) /\ Numbered(DOMAIN t, made) /\ PatchFits(q)
  BY SoundIs DEF IInv
<1>3. Table(t) /\ Conforms(t)
  BY <1>2 DEF Good, Table
<1>4. /\ IsFiniteSet(DOMAIN q.next) /\ Conforms(q.next)
      /\ \A e \in DOMAIN q.next : q.next[e].is \notin {"tx", "payment"}
      /\ DOMAIN q.source \subseteq DOMAIN q.next
      /\ DOMAIN q.next = DOMAIN q.source \cup q.shown
      /\ \A e \in DOMAIN q.source \ q.shown : q.next[e] = q.source[e]
  BY <1>1, <1>2 DEF PatchFits
<1>5. q.source = PlanOf(t)
  BY <1>1 DEF Fingerprint
<1>6. /\ DOMAIN q.source = DOMAIN t \ (TxIds \cup PaymentIds)
      /\ \A e \in DOMAIN q.source : q.source[e] = t[e]
  BY <1>3, <1>5, PlanOfIs
<1> DEFINE H == TxIds \cup PaymentIds \cup {Costs, Wages, Settings}
<1>7. today = DOMAIN t \cap H
  BY <1>3, KindsAre
<1>8. planned = DOMAIN q.next \ H
  BY <1>4, KindsAre
<1>9. /\ DOMAIN plan = planned \cup today
      /\ \A e \in today : plan[e] = t[e]
      /\ \A e \in planned : e \notin today => plan[e] = q.next[e]
      /\ plan = [e \in DOMAIN plan |-> plan[e]]
  BY DEF PutAll, Restrict
<1>10. /\ DOMAIN n = DOMAIN t \cup DOMAIN plan /\ \A e \in DOMAIN plan : n[e] = plan[e]
       /\ n = [e \in DOMAIN n |-> n[e]]
  <2> HIDE DEF plan
  <2> QED
    BY DEF PutAll
<1> HIDE DEF t, q, today, planned, plan, n, H
<1>11. DOMAIN t \subseteq DOMAIN plan
  BY <1>4, <1>6, <1>7, <1>8, <1>9 DEF H
<1>12. DOMAIN n = DOMAIN plan /\ n = plan
  BY <1>9, <1>10, <1>11
<1>13. Table(n)
  <2>1. IsFiniteSet(DOMAIN t) /\ \A e \in DOMAIN t : e \in Ids /\ RowOk(e, t[e])
    BY <1>3, ConformsIs DEF Table
  <2>2. \A e \in DOMAIN q.next : e \in Ids /\ RowOk(e, q.next[e])
    BY <1>4, ConformsIs
  <2>3. IsFiniteSet(DOMAIN t \cup DOMAIN q.next)
    BY ONLY <1>4, <2>1, FS_Union
  <2>4. DOMAIN n \subseteq DOMAIN t \cup DOMAIN q.next
    BY <1>7, <1>8, <1>9, <1>12
  <2>5. IsFiniteSet(DOMAIN n)
    BY ONLY <2>3, <2>4, FS_Subset
  <2>6. \A e \in DOMAIN n : e \in Ids /\ RowOk(e, n[e])
    BY <1>7, <1>8, <1>9, <1>12, <2>1, <2>2
  <2> QED
    BY <1>10, <2>5, <2>6, ConformsIs DEF Table
<1>14. Good(n)
  <2>1. Linked(n)
    BY <1>1, <1>12 DEF Valid
  <2> QED
    BY <1>13, <2>1, FlatIs DEF Good, Table
<1>15. Numbered(DOMAIN n, made)
  <2>1. \A e \in DOMAIN n \cap (TxIds \cup PaymentIds) : e \in DOMAIN t
    BY <1>7, <1>8, <1>9, <1>12 DEF H
  <2> QED
    BY <1>2, <2>1 DEF Numbered
<1>16. ASSUME NEW e, Get(n, e) # Get(t, e)
       PROVE  e \in q.shown
  <2>1. CASE e \in today
    <3>1. e \in DOMAIN t /\ e \in DOMAIN n /\ n[e] = t[e]
      BY <1>7, <1>9, <1>12, <2>1
    <3> QED
      BY <1>16, <3>1 DEF Get
  <2>2. CASE e \in planned /\ e \notin today /\ e \notin q.shown
    <3>1. e \in DOMAIN q.source
      BY <1>4, <1>8, <2>2
    <3>2. e \in DOMAIN t /\ e \in DOMAIN n /\ n[e] = t[e]
      BY <1>4, <1>6, <1>9, <1>12, <2>2, <3>1
    <3> QED
      BY <1>16, <3>2 DEF Get
  <2>3. CASE e \notin planned \cup today
    <3>1. e \notin DOMAIN n /\ e \notin DOMAIN t
      BY <1>9, <1>11, <1>12, <2>3
    <3> QED
      BY <1>16, <3>1 DEF Get
  <2> QED
    BY <2>1, <2>2, <2>3
<1>17. db' = [db EXCEPT ![d] = n]
  BY <1>1, Zenon DEF Commit
<1>18. /\ Commit(d, n) /\ db' = [db EXCEPT ![d] = n] /\ Good(n) /\ Numbered(DOMAIN n, made)
       /\ \A e : Get(n, e) # Get(db[d], e) => e \in patch[d].shown
  BY <1>1, <1>14, <1>15, <1>16, <1>17 DEF t, q
<1>19. \E w : /\ Commit(d, w) /\ db' = [db EXCEPT ![d] = w] /\ Good(w)
               /\ Numbered(DOMAIN w, made)
               /\ \A e : Get(w, e) # Get(db[d], e) => e \in patch[d].shown
  BY ONLY <1>18, Zenon DEF Commit
<1>20. patch' = [patch EXCEPT ![d] = None] /\ UNCHANGED made
  BY <1>1
<1> QED
  BY ONLY <1>19, <1>20

\* applyPlanPatch leaves the invariant.
LEMMA ApplyKeeps ==
    ASSUME IInv, NEW d \in Devices, ApplyPlanPatch(d)
    PROVE  IInv'
<1>1. patch' = [patch EXCEPT ![d] = None] /\ made' = made
  BY ApplyWrites
<1>2. PICK new : Commit(d, new) /\ Good(new) /\ Numbered(DOMAIN new, made)
  BY ApplyWrites
<1>3. made \in [Devices -> Nat] /\ patch = [o \in Devices |-> patch[o]]
      /\ \A o \in Devices : PatchFits(patch[o])
  BY DEF IInv, TypeOK
<1>4. made' \in [Devices -> Nat] /\ \A o \in Devices : made[o] <= made'[o]
  BY <1>1, <1>3
<1>5. patch' = [o \in Devices |-> patch'[o]] /\ \A o \in Devices : PatchFits(patch'[o])
  <2>1. PatchFits(None)
    BY DEF PatchFits
  <2> QED
    BY <1>1, <1>3, <2>1
<1>6. Numbered(DOMAIN new, made')
  BY <1>1, <1>2
<1> QED
  BY <1>2, <1>4, <1>5, <1>6, CommitKeeps

-----------------------------------------------------------------------------
(* Synchronization.                                                        *)

\* What a device has come to after some of the groups.
Come(s, m, i) ==
    /\ s = [db |-> s.db, ver |-> s.ver, read |-> s.read, conflict |-> s.conflict,
            refused |-> s.refused]
    /\ Good(s.db) /\ Numbered(DOMAIN s.db, m)
    /\ \A e \in DOMAIN s.ver : s.ver[e] \in Nat \ {0}
    /\ s.read \in Nat /\ s.read <= i
    /\ s.conflict \in BOOLEAN /\ s.refused \in BOOLEAN

\* What a group another device wrote makes of the tables are tables.
LEMMA MergedFits ==
    ASSUME NEW s, NEW m, NEW i \in Nat, Come(s, m, i), NEW g, GroupFits(g, m)
    PROVE  LET n == Merged(s, g.chg) IN
           /\ n = [db |-> n.db, ver |-> n.ver, read |-> s.read, conflict |-> s.conflict,
                   refused |-> s.refused]
           /\ Table(n.db) /\ Numbered(DOMAIN n.db, m)
           /\ \A e \in DOMAIN n.ver : n.ver[e] \in Nat \ {0}
<1> DEFINE chg == g.chg
           C == DOMAIN chg
           gone == {e \in C : chg[e].res = None}
           w == [e \in C |-> chg[e].res]
           u == [e \in C |-> chg[e].old + 1]
           t == Delete(PutAll(s.db, w), gone)
           v == PutAll(s.ver, u)
           n == Merged(s, chg)
<1>1. s = [db |-> s.db, ver |-> s.ver, read |-> s.read, conflict |-> s.conflict,
           refused |-> s.refused]
  BY DEF Come
<1>2. n = [[s EXCEPT !.db = t] EXCEPT !.ver = v]
  BY DEF Merged
<1>3. \A e \in C : chg[e].old \in Nat
  BY DEF GroupFits
<1>4. DOMAIN w = C /\ \A e \in C : w[e] = chg[e].res
  OBVIOUS
<1>5. DOMAIN u = C /\ \A e \in C : u[e] = chg[e].old + 1
  OBVIOUS
<1> HIDE DEF t, v, n, w, u
<1>6. n = [db |-> t, ver |-> v, read |-> s.read, conflict |-> s.conflict,
           refused |-> s.refused]
  BY <1>1, <1>2
<1>7. n.db = t /\ n.ver = v
  BY <1>6
<1>8. \A e \in C : u[e] \in Nat \ {0}
  BY <1>3, <1>5
<1>9. \A e \in DOMAIN v : v[e] \in Nat \ {0}
  <2> DEFINE y == s.ver
  <2>1. \A e \in DOMAIN y : y[e] \in Nat \ {0}
    BY DEF Come
  <2>2. v = PutAll(y, u)
    BY DEF v
  <2> HIDE DEF y
  <2>3. /\ DOMAIN v = DOMAIN y \cup DOMAIN u
        /\ \A e \in DOMAIN u : v[e] = u[e]
        /\ \A e \in DOMAIN y : e \notin DOMAIN u => v[e] = y[e]
    BY ONLY <2>2 DEF PutAll
  <2> QED
    BY <1>5, <1>8, <2>1, <2>3
<1> DEFINE x == s.db
           z == PutAll(x, w)
<1>10. t = Delete(z, gone)
  BY DEF t
<1>11. Table(x) /\ Numbered(DOMAIN x, m)
  BY DEF Come, Good
<1> HIDE DEF x
<1>12. /\ DOMAIN z = DOMAIN x \cup C /\ \A e \in C : z[e] = w[e]
       /\ \A e \in DOMAIN x : e \notin C => z[e] = x[e]
  BY <1>4 DEF PutAll
<1> HIDE DEF z
<1>13. /\ DOMAIN t = DOMAIN z \ gone /\ \A e \in DOMAIN z : e \notin gone => t[e] = z[e]
       /\ t = [e \in DOMAIN t |-> t[e]]
  BY ONLY <1>10 DEF Delete, Restrict
<1>14. \A e \in C : e \notin gone => e \in Ids /\ RowOk(e, w[e])
  <2> DEFINE f == Written(chg)
  <2>1. DOMAIN f = {e \in C : chg[e].res # None} /\ \A e \in DOMAIN f : f[e] = chg[e].res
    BY DEF Written
  <2>2. Conforms(f)
    BY DEF GroupFits
  <2> HIDE DEF f
  <2>3. \A e \in DOMAIN f : e \in Ids /\ RowOk(e, f[e])
    BY <2>2, ConformsIs
  <2> QED
    BY <1>4, <2>1, <2>3
<1>15. IsFiniteSet(DOMAIN t)
  <2>1. IsFiniteSet(DOMAIN x) /\ IsFiniteSet(C)
    BY <1>11 DEF Table, GroupFits
  <2>2. IsFiniteSet(DOMAIN x \cup C)
    BY ONLY <2>1, FS_Union
  <2>3. DOMAIN t \subseteq DOMAIN x \cup C
    BY <1>12, <1>13
  <2> QED
    BY ONLY <2>2, <2>3, FS_Subset
<1>16. \A e \in DOMAIN t : e \in Ids /\ RowOk(e, t[e])
  <2>1. \A e \in DOMAIN x : e \in Ids /\ RowOk(e, x[e])
    BY <1>11, ConformsIs DEF Table
  <2> QED
    BY <1>12, <1>13, <1>14, <2>1
<1>17. Table(t)
  BY <1>13, <1>15, <1>16, ConformsIs DEF Table
<1>18. Numbered(DOMAIN t, m)
  <2>1. Numbered(C, m) /\ DOMAIN t \subseteq DOMAIN x \cup C
    BY <1>12, <1>13 DEF GroupFits
  <2> QED
    BY <1>11, <2>1 DEF Numbered
<1> QED
  BY <1>6, <1>7, <1>9, <1>17, <1>18 DEF n

\* One group more leaves tables whose links hold, or is not applied.
LEMMA ReceiveKeeps ==
    ASSUME NEW d, NEW s, NEW m, NEW i \in Nat, Come(s, m, i), NEW g, GroupFits(g, m)
    PROVE  Come(Receive(d, s, g), m, i + 1)
<1> DEFINE n == Merged(s, g.chg)
<1>1. /\ s = [db |-> s.db, ver |-> s.ver, read |-> s.read, conflict |-> s.conflict,
              refused |-> s.refused]
      /\ Good(s.db) /\ Numbered(DOMAIN s.db, m)
      /\ \A e \in DOMAIN s.ver : s.ver[e] \in Nat \ {0}
      /\ s.read \in Nat /\ s.read <= i
      /\ s.conflict \in BOOLEAN /\ s.refused \in BOOLEAN
  BY DEF Come
<1>2. /\ n = [db |-> n.db, ver |-> n.ver, read |-> s.read, conflict |-> s.conflict,
              refused |-> s.refused]
      /\ Table(n.db) /\ Numbered(DOMAIN n.db, m)
      /\ \A e \in DOMAIN n.ver : n.ver[e] \in Nat \ {0}
  BY MergedFits
<1>3. \/ Receive(d, s, g) = s
      \/ Receive(d, s, g) = [s EXCEPT !.read = @ + 1]
      \/ Receive(d, s, g) = [s EXCEPT !.read = @ + 1, !.conflict = TRUE]
      \/ Valid(n.db) /\ Receive(d, s, g) = [n EXCEPT !.read = @ + 1]
      \/ Receive(d, s, g) = [s EXCEPT !.refused = TRUE]
  BY Zenon DEF Receive
<1> HIDE DEF n
<1> DEFINE R(tables, versions, count, met, failed) ==
             [db |-> tables, ver |-> versions, read |-> count, conflict |-> met,
              refused |-> failed]
<1>4. ASSUME NEW tables, NEW versions, NEW count \in Nat, count <= i + 1,
             NEW met \in BOOLEAN, NEW failed \in BOOLEAN,
             Good(tables), Numbered(DOMAIN tables, m),
             \A e \in DOMAIN versions : versions[e] \in Nat \ {0}
      PROVE  Come(R(tables, versions, count, met, failed), m, i + 1)
  <2> DEFINE r == R(tables, versions, count, met, failed)
  <2>1. /\ r = [db |-> r.db, ver |-> r.ver, read |-> r.read, conflict |-> r.conflict,
                refused |-> r.refused]
        /\ r.db = tables /\ r.ver = versions /\ r.read = count /\ r.conflict = met
        /\ r.refused = failed
    OBVIOUS
  <2> HIDE DEF r
  <2> QED
    BY <1>4, <2>1 DEF Come, r
<1>5. s.read + 1 \in Nat /\ s.read + 1 <= i + 1 /\ s.read <= i + 1
  BY <1>1
<1>6. CASE Receive(d, s, g) = s
  <2>1. Receive(d, s, g) = R(s.db, s.ver, s.read, s.conflict, s.refused)
    BY <1>1, <1>6
  <2> HIDE DEF R
  <2> QED
    BY ONLY <1>1, <1>4, <1>5, <2>1
<1>7. CASE Receive(d, s, g) = [s EXCEPT !.read = @ + 1]
  <2>1. Receive(d, s, g) = R(s.db, s.ver, s.read + 1, s.conflict, s.refused)
    BY <1>1, <1>7
  <2> HIDE DEF R
  <2> QED
    BY ONLY <1>1, <1>4, <1>5, <2>1
<1>8. CASE Receive(d, s, g) = [s EXCEPT !.read = @ + 1, !.conflict = TRUE]
  <2>1. Receive(d, s, g) = R(s.db, s.ver, s.read + 1, TRUE, s.refused)
    BY <1>1, <1>8
  <2>2. TRUE \in BOOLEAN
    OBVIOUS
  <2> HIDE DEF R
  <2> QED
    BY ONLY <1>1, <1>4, <1>5, <2>1, <2>2
<1>9. CASE Valid(n.db) /\ Receive(d, s, g) = [n EXCEPT !.read = @ + 1]
  <2>1. Receive(d, s, g) = R(n.db, n.ver, s.read + 1, s.conflict, s.refused)
    BY <1>2, <1>9
  <2>2. Good(n.db)
    BY <1>2, <1>9, FlatIs DEF Good, Table, Valid
  <2> HIDE DEF R
  <2> QED
    BY ONLY <1>1, <1>2, <1>4, <1>5, <2>1, <2>2
<1>10. CASE Receive(d, s, g) = [s EXCEPT !.refused = TRUE]
  <2>1. Receive(d, s, g) = R(s.db, s.ver, s.read, s.conflict, TRUE)
    BY <1>1, <1>10
  <2>2. TRUE \in BOOLEAN
    OBVIOUS
  <2> HIDE DEF R
  <2> QED
    BY ONLY <1>1, <1>4, <1>5, <2>1, <2>2
<1> QED
  BY <1>3, <1>6, <1>7, <1>8, <1>9, <1>10

\* The function a cycle computes, with its parameters.
Body(h, n, d, lo, now, all) == IF n = lo THEN now ELSE Receive(d, h[n - 1], all[n])
Comes(h, d, lo, hi, now, all) == h = [n \in lo..hi |-> Body(h, n, d, lo, now, all)]

\* There is such a function, for any number of groups.
LEMMA ComesExists ==
    ASSUME NEW d, NEW lo \in Nat, NEW hi \in Nat, lo <= hi, NEW now, NEW all
    PROVE  \E h : Comes(h, d, lo, hi, now, all)
<1> DEFINE P == {n \in Nat : \E h : Comes(h, d, lo, lo + n, now, all)}
<1>1. 0 \in P
  <2> DEFINE h == [n \in lo..lo |-> now]
  <2>1. \A n \in lo..lo : Body(h, n, d, lo, now, all) = now
    BY DEF Body
  <2>2. Comes(h, d, lo, lo + 0, now, all)
    BY <2>1 DEF Comes
  <2> QED
    BY <2>2
<1>2. ASSUME NEW k \in Nat, k \in P
      PROVE  k + 1 \in P
  <2>1. PICK f : Comes(f, d, lo, lo + k, now, all)
    BY <1>2
  <2> DEFINE top == lo + k + 1
             h == [n \in lo..top |->
                     IF n = top THEN Body(f, top, d, lo, now, all) ELSE f[n]]
  <2>2. \A n \in lo..top : n # top => n \in lo..(lo + k) /\ h[n] = f[n]
    OBVIOUS
  <2>3. \A n \in lo..(lo + k) : f[n] = Body(f, n, d, lo, now, all)
    <3> DEFINE B(n) == Body(f, n, d, lo, now, all)
    <3>1. f = [n \in lo..(lo + k) |-> B(n)]
      BY <2>1 DEF Comes
    <3> HIDE DEF B
    <3>2. \A n \in lo..(lo + k) : f[n] = B(n)
      BY <3>1
    <3> QED
      BY <3>2 DEF B
  <2>4. \A n \in lo..top : Body(h, n, d, lo, now, all) = Body(f, n, d, lo, now, all)
    <3> TAKE n \in lo..top
    <3>1. n # lo => n - 1 \in lo..top /\ n - 1 # top
      OBVIOUS
    <3>2. n # lo => h[n - 1] = f[n - 1]
      BY <2>2, <3>1
    <3> HIDE DEF h, top
    <3> QED
      BY <3>2 DEF Body
  <2>5. h[top] = Body(f, top, d, lo, now, all)
    OBVIOUS
  <2>6. \A n \in lo..top : h[n] = Body(h, n, d, lo, now, all)
    <3> TAKE n \in lo..top
    <3>1. CASE n = top
      <4> HIDE DEF h, top
      <4> QED
        BY <2>4, <2>5, <3>1
    <3>2. CASE n # top
      <4> HIDE DEF h, top
      <4> QED
        BY <2>2, <2>3, <2>4, <3>2
    <3> QED
      BY <3>1, <3>2
  <2>7. h = [n \in lo..top |-> h[n]]
    OBVIOUS
  <2>8. Comes(h, d, lo, top, now, all)
    <3> HIDE DEF h, top
    <3> QED
      BY <2>6, <2>7 DEF Comes
  <2>9. top = lo + (k + 1)
    OBVIOUS
  <2> QED
    <3> HIDE DEF h, top
    <3> QED
      BY <2>8, <2>9
<1> HIDE DEF P
<1>3. Nat \subseteq P
  BY <1>1, <1>2, NumbersInTurn
<1>4. hi - lo \in P
  BY <1>3
<1>5. lo + (hi - lo) = hi
  OBVIOUS
<1> QED
  BY <1>4, <1>5 DEF P

\* A cycle comes to tables whose links hold.
LEMMA ComesTo ==
    ASSUME NEW d, NEW lo \in Nat, NEW hi \in Nat, lo <= hi, NEW now, NEW all, NEW m,
           Come(now, m, lo), \A i \in (lo + 1)..hi : GroupFits(all[i], m),
           NEW h, Comes(h, d, lo, hi, now, all)
    PROVE  Come(h[hi], m, hi)
<1> DEFINE P == {k \in Nat : lo + k <= hi => Come(h[lo + k], m, lo + k)}
<1>1. \A n \in lo..hi : h[n] = IF n = lo THEN now ELSE Receive(d, h[n - 1], all[n])
  <2> DEFINE B(n) == Body(h, n, d, lo, now, all)
  <2>1. h = [n \in lo..hi |-> B(n)]
    BY DEF Comes
  <2> HIDE DEF B
  <2>2. \A n \in lo..hi : h[n] = B(n)
    BY <2>1
  <2> QED
    BY <2>2 DEF B, Body
<1>2. 0 \in P
  BY <1>1
<1>3. ASSUME NEW k \in Nat, k \in P
      PROVE  k + 1 \in P
  <2> SUFFICES ASSUME lo + (k + 1) <= hi
               PROVE  Come(h[lo + (k + 1)], m, lo + (k + 1))
    OBVIOUS
  <2> DEFINE n == lo + k
  <2>1. Come(h[n], m, n)
    BY <1>3
  <2>2. n \in Nat /\ n + 1 \in lo..hi /\ n + 1 # lo /\ n + 1 \in (lo + 1)..hi
        /\ (n + 1) - 1 = n /\ lo + (k + 1) = n + 1
    OBVIOUS
  <2> HIDE DEF n
  <2>3. h[n + 1] = Receive(d, h[n], all[n + 1])
    BY <1>1, <2>2
  <2>4. GroupFits(all[n + 1], m)
    BY <2>2
  <2>5. Come(h[n + 1], m, n + 1)
    BY <2>1, <2>2, <2>3, <2>4, ReceiveKeeps
  <2> QED
    BY <2>2, <2>5
<1> HIDE DEF P
<1>4. Nat \subseteq P
  BY <1>2, <1>3, NumbersInTurn
<1>5. hi - lo \in P /\ lo + (hi - lo) = hi
  BY <1>4
<1> QED
  BY <1>5 DEF P

\* A cycle leaves the invariant, and the user's commands and patches.
LEMMA SyncKeeps ==
    ASSUME IInv, NEW d \in Devices, Sync(d)
    PROVE  IInv' /\ UNCHANGED <<patch, made>>
<1> DEFINE all == log \o outbox[d]
           now == [db |-> db[d], ver |-> ver[d], read |-> read[d],
                   conflict |-> conflict[d], refused |-> FALSE]
           lo == read[d]
           hi == Len(all)
           h == CHOOSE g : Comes(g, d, lo, hi, now, all)
           s == h[hi]
<1>1. /\ log' = all /\ outbox' = [outbox EXCEPT ![d] = <<>>]
      /\ db' = [db EXCEPT ![d] = s.db] /\ ver' = [ver EXCEPT ![d] = s.ver]
      /\ read' = [read EXCEPT ![d] = s.read]
      /\ conflict' = [conflict EXCEPT ![d] = s.conflict]
      /\ refused' = [refused EXCEPT ![d] = s.refused]
      /\ UNCHANGED <<patch, made>>
  BY Zenon DEF Sync, Comes, Body
<1>2. /\ TypeOK /\ QueueFits(log, made)
      /\ \A o \in Devices : Good(db[o]) /\ Numbered(DOMAIN db[o], made)
            /\ QueueFits(outbox[o], made) /\ PatchFits(patch[o])
      /\ db = [o \in Devices |-> db[o]] /\ ver = [o \in Devices |-> ver[o]]
      /\ outbox = [o \in Devices |-> outbox[o]] /\ patch = [o \in Devices |-> patch[o]]
  BY SoundIs, Zenon DEF IInv
<1>3. /\ made \in [Devices -> Nat] /\ read \in [Devices -> 0..Len(log)]
      /\ conflict \in [Devices -> BOOLEAN] /\ refused \in [Devices -> BOOLEAN]
      /\ \A o \in Devices : \A e \in DOMAIN ver[o] : ver[o][e] \in Nat \ {0}
  BY <1>2 DEF TypeOK
<1>4. /\ QueueFits(all, made) /\ Len(log) \in Nat /\ Len(log) <= hi /\ hi \in Nat
  BY <1>2, QueueJoins
<1>5. lo \in Nat /\ lo <= hi
  BY <1>3, <1>4
<1>6. now = [db |-> now.db, ver |-> now.ver, read |-> now.read, conflict |-> now.conflict,
             refused |-> now.refused]
      /\ now.db = db[d] /\ now.ver = ver[d] /\ now.read = lo /\ now.conflict = conflict[d]
      /\ now.refused = FALSE
  OBVIOUS
<1> HIDE DEF all, now, lo, s
<1>7. Come(now, made, lo)
  <2>1. Good(db[d]) /\ Numbered(DOMAIN db[d], made)
    BY <1>2
  <2>2. (\A e \in DOMAIN ver[d] : ver[d][e] \in Nat \ {0}) /\ conflict[d] \in BOOLEAN
    BY <1>3
  <2>3. FALSE \in BOOLEAN /\ lo <= lo
    BY <1>5
  <2> QED
    BY ONLY <1>5, <1>6, <2>1, <2>2, <2>3 DEF Come
<1>8. \A i \in (lo + 1)..hi : GroupFits(all[i], made)
  BY <1>4, <1>5 DEF QueueFits
<1>9. Comes(h, d, lo, hi, now, all)
  <2>1. \E g : Comes(g, d, lo, hi, now, all)
    BY <1>4, <1>5, ComesExists
  <2> QED
    BY <2>1, Zenon
<1> HIDE DEF h, hi
<1>10. Come(s, made, hi)
  BY <1>4, <1>5, <1>7, <1>8, <1>9, ComesTo DEF s, hi
<1>11. /\ Good(s.db) /\ Numbered(DOMAIN s.db, made)
       /\ \A e \in DOMAIN s.ver : s.ver[e] \in Nat \ {0}
       /\ s.read \in 0..hi /\ s.conflict \in BOOLEAN /\ s.refused \in BOOLEAN
  BY <1>4, <1>10 DEF Come, hi
<1>12. made' = made /\ patch' = patch
  BY <1>1
<1>13. \A o \in Devices :
          /\ o # d => db'[o] = db[o] /\ ver'[o] = ver[o] /\ outbox'[o] = outbox[o]
          /\ o = d => db'[o] = s.db /\ ver'[o] = s.ver /\ outbox'[o] = <<>>
  BY <1>1, <1>2
<1>14. /\ db' = [o \in Devices |-> db'[o]] /\ ver' = [o \in Devices |-> ver'[o]]
       /\ outbox' = [o \in Devices |-> outbox'[o]] /\ patch' = [o \in Devices |-> patch'[o]]
  BY <1>1, <1>2
<1>15. QueueFits(<<>>, made)
  <2>1. <<>> \in Seq({}) /\ Len(<<>>) = 0
    BY EmptySeq
  <2>2. <<>> \in Seq(Range(<<>>))
    BY <2>1, SeqOfRange
  <2> QED
    BY <2>1, <2>2 DEF QueueFits
<1>16. \A o \in Devices : Good(db'[o]) /\ Numbered(DOMAIN db'[o], made')
          /\ QueueFits(outbox'[o], made') /\ PatchFits(patch'[o])
  BY <1>2, <1>11, <1>12, <1>13, <1>15
<1>17. QueueFits(log', made')
  BY <1>1, <1>4, <1>12
<1>18. /\ read' \in [Devices -> 0..Len(log')]
       /\ conflict' \in [Devices -> BOOLEAN] /\ refused' \in [Devices -> BOOLEAN]
  <2>1. \A o \in Devices : read[o] \in 0..hi
    BY <1>3, <1>4 DEF hi
  <2>2. Len(log') = hi
    BY <1>1 DEF hi
  <2>3. read' = [o \in Devices |-> IF o = d THEN s.read ELSE read[o]]
    BY <1>1, <1>3
  <2>4. conflict' = [o \in Devices |-> IF o = d THEN s.conflict ELSE conflict[o]]
        /\ refused' = [o \in Devices |-> IF o = d THEN s.refused ELSE refused[o]]
    BY <1>1, <1>3
  <2> QED
    BY <1>3, <1>11, <2>1, <2>2, <2>3, <2>4
<1>19. \A o \in Devices : \A e \in DOMAIN ver'[o] : ver'[o][e] \in Nat \ {0}
  BY <1>3, <1>11, <1>13
<1>20. TypeOK'
  <2>1. \A o \in Devices : Conforms(db'[o])
    BY <1>16 DEF Good, Table
  <2>2. made' \in [Devices -> Nat]
    BY <1>3, <1>12
  <2> QED
    BY <1>18, <1>19, <2>1, <2>2 DEF TypeOK
<1>21. \A o \in Devices : Sound(db'[o], made')
  BY <1>16, SoundIs
<1> QED
  BY <1>1, <1>14, <1>16, <1>17, <1>20, <1>21 DEF IInv

-----------------------------------------------------------------------------
(* The theorems.                                                           *)

\* Every step of the specification leaves the invariant.
LEMMA StepKeeps ==
    IInv /\ [Next]_vars => IInv'
<1> SUFFICES ASSUME IInv, [Next]_vars
             PROVE  IInv'
  OBVIOUS
<1>1. CASE \E d \in Devices : Ledger(d) \/ Planning(d)
  BY <1>1, CommandKeeps
<1>2. CASE \E d \in Devices : PreparePlanPatch(d)
  BY <1>2, PrepareKeeps
<1>3. CASE \E d \in Devices : ApplyPlanPatch(d)
  BY <1>3, ApplyKeeps
<1>4. CASE \E d \in Devices : Sync(d)
  BY <1>4, SyncKeeps
<1>5. CASE UNCHANGED vars
  <2>1. IInv
    OBVIOUS
  <2> QED
    BY <1>5, <2>1 DEF vars, IInv, TypeOK
<1> QED
  BY <1>1, <1>2, <1>3, <1>4, <1>5 DEF Next

\* What always holds: the tables, the groups on their way and the patches on
\* show, in their types, with ids given out once and with every link.
THEOREM FinanceInvariant ==
    Spec => []IInv
<1>1. Init => IInv
  BY InitHolds
<1>2. IInv /\ [Next]_vars => IInv'
  BY StepKeeps
<1> QED
  BY <1>1, <1>2, PTL DEF Spec

\* Every row any device stores is one its table may hold (commands.ts, and
\* what parseFinanceData accepts of other devices' groups).
THEOREM TypesAreOK ==
    Spec => []TypeOK
<1>1. IInv => TypeOK
  BY DEF IInv
<1> QED
  BY <1>1, FinanceInvariant, PTL

\* Whatever commands, patches and other devices' groups come in whatever
\* order, the links between the tables hold (assertFinanceDataIntegrity).
THEOREM LinksAlwaysHold ==
    Spec => []LinksHold
<1>1. IInv => LinksHold
  BY DEF IInv, Sound, LinksHold
<1> QED
  BY <1>1, FinanceInvariant, PTL

\* A step that counts is a command of one device, or prepares a patch.
LEMMA CountedSteps ==
    ASSUME IInv, [Next]_vars, NEW d \in Devices, made'[d] # made[d]
    PROVE  Ledger(d) \/ Planning(d) \/ db' = db
<1>1. made \in [Devices -> Nat]
  BY DEF IInv, TypeOK
<1>2. CASE \E o \in Devices : Ledger(o) \/ Planning(o)
  <2>1. PICK o \in Devices : Ledger(o) \/ Planning(o)
    BY <1>2
  <2>2. made' = [made EXCEPT ![o] = @ + 1]
    BY <2>1, CommandGives
  <2>3. o = d
    BY <1>1, <2>2
  <2> QED
    BY <2>1, <2>3
<1>3. CASE \E o \in Devices : PreparePlanPatch(o)
  BY <1>3, PrepareKeeps
<1>4. CASE \E o \in Devices : ApplyPlanPatch(o)
  BY <1>4, ApplyWrites
<1>5. CASE \E o \in Devices : Sync(o)
  BY <1>5, SyncKeeps
<1>6. CASE UNCHANGED vars
  BY <1>6 DEF vars
<1> QED
  BY <1>2, <1>3, <1>4, <1>5, <1>6 DEF Next

\* No command takes an account lower and below zero (requireAvailableFunds
\* before every payment, saveAccount on a new opening balance).
THEOREM NoOverdraft ==
    Spec => CommandsNeverOverdraw
<1> DEFINE A == \A d \in Devices : made'[d] # made[d] =>
                   \A acc \in Rows(db[d], "account") \cap Rows(db'[d], "account") :
                      Balance(db'[d], acc) < Balance(db[d], acc) => Balance(db'[d], acc) >= 0
<1>1. IInv /\ [Next]_vars => A
  <2> SUFFICES ASSUME IInv, [Next]_vars, NEW d \in Devices, made'[d] # made[d]
               PROVE  Solvent(db[d], db'[d])
    BY DEF Solvent
  <2>1. Good(db[d]) /\ db = [o \in Devices |-> db[o]]
    BY SoundIs DEF IInv
  <2>2. CASE Ledger(d) \/ Planning(d)
    <3>1. PICK new : db' = [db EXCEPT ![d] = new] /\ Solvent(db[d], new)
      BY <2>2, CommandWrites
    <3>2. db'[d] = new
      BY <2>1, <3>1
    <3> QED
      BY <3>1, <3>2
  <2>3. CASE db' = db
    <3>1. Solvent(db[d], db[d])
      BY <2>1, SolventSame DEF Good
    <3> QED
      BY <2>3, <3>1
  <2> QED
    BY <2>2, <2>3, CountedSteps
<1> QED
  BY <1>1, FinanceInvariant, PTL DEF Spec, CommandsNeverOverdraw

\* A command leaves a debt marked paid exactly while its repayments cover it
\* (recordDebtPayment, deleteTransaction, saveDebt).
THEOREM DebtStatusIsRight ==
    Spec => DebtStatusFollows
<1> DEFINE A == \A d \in Devices :
                   made'[d] # made[d] /\ StatusRight(db[d]) => StatusRight(db'[d])
<1>1. IInv /\ [Next]_vars => A
  <2> SUFFICES ASSUME IInv, [Next]_vars, NEW d \in Devices, made'[d] # made[d],
                      StatusRight(db[d])
               PROVE  StatusRight(db'[d])
    OBVIOUS
  <2>1. db = [o \in Devices |-> db[o]]
    BY DEF IInv
  <2>2. CASE Ledger(d) \/ Planning(d)
    <3>1. PICK new : db' = [db EXCEPT ![d] = new] /\ StatusKept(db[d], new)
      BY <2>2, CommandWrites
    <3>2. db'[d] = new
      BY <2>1, <3>1
    <3> QED
      BY <3>1, <3>2 DEF StatusKept
  <2>3. CASE db' = db
    BY <2>3
  <2> QED
    BY <2>2, <2>3, CountedSteps
<1> QED
  BY <1>1, FinanceInvariant, PTL DEF Spec, DebtStatusFollows

\* Applying a patch changes what its preview showed and nothing else
\* (planningFingerprint and the rows applyPlanPatch takes from today).
THEOREM PatchOnlyWhatItShows ==
    Spec => PatchNeverOverwrites
<1> DEFINE A == \A d \in Devices : patch[d] # None /\ patch'[d] = None =>
                   \A e \in DOMAIN db[d] \cup DOMAIN db'[d] :
                      Get(db'[d], e) # Get(db[d], e) => e \in patch[d].shown
<1>1. IInv /\ [Next]_vars => A
  <2> SUFFICES ASSUME IInv, [Next]_vars, NEW d \in Devices,
                      patch[d] # None, patch'[d] = None
               PROVE  \A e : Get(db'[d], e) # Get(db[d], e) => e \in patch[d].shown
    OBVIOUS
  <2>1. db = [o \in Devices |-> db[o]] /\ patch = [o \in Devices |-> patch[o]]
    BY DEF IInv
  <2>2. CASE \E o \in Devices : Ledger(o) \/ Planning(o)
    <3>1. patch' = patch
      BY <2>2, CommandWrites
    <3> QED
      BY <3>1
  <2>3. CASE \E o \in Devices : PreparePlanPatch(o)
    <3>1. db' = db
      BY <2>3, PrepareKeeps
    <3> QED
      BY <3>1
  <2>4. CASE \E o \in Devices : ApplyPlanPatch(o)
    <3>1. PICK o \in Devices : ApplyPlanPatch(o)
      BY <2>4
    <3>2. patch' = [patch EXCEPT ![o] = None]
      BY <3>1, ApplyWrites
    <3>3. o = d
      BY <2>1, <3>2
    <3>4. PICK new : /\ db' = [db EXCEPT ![d] = new]
                     /\ \A e : Get(new, e) # Get(db[d], e) => e \in patch[d].shown
      BY <3>1, <3>3, ApplyWrites
    <3>5. db'[d] = new
      BY <2>1, <3>4
    <3> QED
      BY <3>4, <3>5
  <2>5. CASE \E o \in Devices : Sync(o)
    <3>1. patch' = patch
      BY <2>5, SyncKeeps
    <3> QED
      BY <3>1
  <2>6. CASE UNCHANGED vars
    BY <2>6 DEF vars
  <2> QED
    BY <2>2, <2>3, <2>4, <2>5, <2>6 DEF Next
<1> QED
  BY <1>1, FinanceInvariant, PTL DEF Spec, PatchNeverOverwrites

-----------------------------------------------------------------------------
(* Agreement: what a device that met no conflict holds of one entity, told   *)
(* by the groups that write it. q is the log and behind it the device's      *)
(* outbox, r how far the device has read, v the entity's value there, k its  *)
(* version, u its value before any group.                                    *)

Writes(q, i, e) == i \in 1..Len(q) /\ e \in DOMAIN q[i].chg
Owns(q, d, i, e) == Writes(q, i, e) /\ q[i].dev = d
Others(q, d, i, e) == Writes(q, i, e) /\ q[i].dev # d
\* The device wrote nothing of the entity from the i-th group on.
Silent(q, d, i, e) == \A j \in i..Len(q) : ~Owns(q, d, j, e)

\* Its own writes are of ever newer versions, all older than the one it has.
InTurn(q, d, e) ==
    \A i, j \in 1..Len(q) : Owns(q, d, i, e) /\ Owns(q, d, j, e) /\ i < j
        => q[i].chg[e].old <= q[j].chg[e].old
Ahead(q, d, e, k) ==
    \A i \in 1..Len(q) : Owns(q, d, i, e) => q[i].chg[e].old < k

\* It holds what it wrote last, or what it took of a newer version and has
\* only taken again since.
KeptOwn(q, d, r, e, v) ==
    \A i \in 1..Len(q) : Owns(q, d, i, e) /\ Silent(q, d, i + 1, e) =>
       \/ v = q[i].chg[e].res
       \/ \E j \in 1..r :
             /\ Others(q, d, j, e) /\ q[j].chg[e].old > q[i].chg[e].old
             /\ \A l \in j..r : Others(q, d, l, e) => q[l].chg[e].res = v

\* When the last write it has read is another's, and it wrote nothing since,
\* it holds that.
TookLast(q, d, r, e, v) ==
    \A i \in 1..r :
       /\ Others(q, d, i, e) /\ Silent(q, d, i, e)
       /\ \A j \in (i + 1)..r : ~Writes(q, j, e)
       => v = q[i].chg[e].res

\* What another wrote after it, it holds until it reads a write of a version
\* newer than its own.
TookNewer(q, d, r, e, v) ==
    \A i \in 1..r, g \in 1..Len(q) :
       Owns(q, d, g, e) /\ g < i /\ Writes(q, i, e) /\ Silent(q, d, i, e) =>
          \/ v = q[i].chg[e].res
          \/ \E j \in (i + 1)..r : Writes(q, j, e) /\ q[j].chg[e].old > q[g].chg[e].old

\* It neither wrote the entity nor read a write of it.
Fresh(q, d, r, e) ==
    (\A i \in 1..Len(q) : ~Owns(q, d, i, e)) /\ \A i \in 1..r : ~Writes(q, i, e)

View(q, d, r, e, v, k, u) ==
    /\ InTurn(q, d, e) /\ Ahead(q, d, e, k) /\ KeptOwn(q, d, r, e, v)
    /\ TookLast(q, d, r, e, v) /\ TookNewer(q, d, r, e, v)
    /\ Fresh(q, d, r, e) => v = u

\* The versions a queue's groups replace are numbers.
Versioned(q) ==
    \A i \in 1..Len(q) : \A e \in DOMAIN q[i].chg : q[i].chg[e].old \in Nat

\* Nothing written, nothing read: what there was.
LEMMA ViewBegins ==
    ASSUME NEW q, Len(q) = 0, NEW d, NEW e, NEW u, NEW k
    PROVE  View(q, d, 0, e, u, k, u)
BY DEF View, InTurn, Ahead, KeptOwn, TookLast, TookNewer, Writes, Owns

\* Other devices' groups come between the log and the outbox.
LEMMA ViewWaits ==
    ASSUME NEW q, NEW d, NEW r \in Nat, NEW e, NEW v, NEW k, NEW u,
           View(q, d, r, e, v, k, u),
           NEW p, Len(q) \in Nat, NEW n \in Nat, NEW m \in Nat, r <= n, n <= Len(q),
           Len(p) = Len(q) + m,
           \A i \in 1..n : p[i] = q[i],
           \A i \in (n + 1)..(n + m) : p[i].dev # d,
           \A i \in (n + m + 1)..Len(p) : p[i] = q[i - m]
    PROVE  View(p, d, r, e, v, k, u)
<1> DEFINE at(i) == IF i <= n THEN i ELSE i - m
           to(i) == IF i <= n THEN i ELSE i + m
<1>1. ASSUME NEW i, Owns(p, d, i, e)
      PROVE  i \in 1..Len(p) /\ at(i) \in 1..Len(q) /\ Owns(q, d, at(i), e) /\ p[i] = q[at(i)]
             /\ i = to(at(i))
  <2>1. i \in 1..Len(p) /\ p[i].dev = d /\ e \in DOMAIN p[i].chg
    BY <1>1 DEF Owns, Writes
  <2>2. i \in 1..n \/ i \in (n + m + 1)..Len(p)
    BY <2>1
  <2>3. at(i) \in 1..Len(q) /\ p[i] = q[at(i)] /\ i = to(at(i))
    <3>1. CASE i \in 1..n
      BY <3>1
    <3>2. CASE i \in (n + m + 1)..Len(p)
      <4>1. p[i] = q[i - m] /\ i - m \in 1..Len(q) /\ ~(i <= n) /\ ~(i - m <= n)
            /\ (i - m) + m = i
        BY <3>2
      <4> QED
        BY <4>1
    <3> QED
      BY <2>2, <3>1, <3>2
  <2> QED
    BY <2>1, <2>3 DEF Owns, Writes
<1>2. ASSUME NEW i, Owns(q, d, i, e)
      PROVE  Owns(p, d, to(i), e) /\ p[to(i)] = q[i] /\ to(i) \in 1..Len(p)
  BY <1>2 DEF Owns, Writes
<1>3. \A i \in 1..r : i \in 1..Len(p) /\ i \in 1..Len(q) /\ p[i] = q[i]
  OBVIOUS
<1>4. \A i \in 1..r : /\ Writes(p, i, e) <=> Writes(q, i, e)
                      /\ Others(p, d, i, e) <=> Others(q, d, i, e)
  BY <1>3 DEF Writes, Others
<1>5. ASSUME NEW i \in 1..(r + 1), Silent(p, d, i, e)
      PROVE  Silent(q, d, i, e)
  <2> SUFFICES ASSUME NEW j \in i..Len(q), Owns(q, d, j, e)
               PROVE  FALSE
    BY DEF Silent
  <2>1. Owns(p, d, to(j), e) /\ to(j) \in i..Len(p)
    BY <1>2
  <2> QED
    BY <1>5, <2>1 DEF Silent
<1>6. InTurn(p, d, e)
  <2> SUFFICES ASSUME NEW i \in 1..Len(p), NEW j \in 1..Len(p),
                      Owns(p, d, i, e), Owns(p, d, j, e), i < j
               PROVE  p[i].chg[e].old <= p[j].chg[e].old
    BY DEF InTurn
  <2>1. Owns(q, d, at(i), e) /\ Owns(q, d, at(j), e) /\ p[i] = q[at(i)] /\ p[j] = q[at(j)]
    BY <1>1
  <2>2. at(i) < at(j) /\ at(i) \in 1..Len(q) /\ at(j) \in 1..Len(q)
    BY <1>1
  <2> QED
    BY <2>1, <2>2 DEF View, InTurn
<1>7. Ahead(p, d, e, k)
  BY <1>1 DEF View, Ahead
<1>8. KeptOwn(p, d, r, e, v)
  <2> SUFFICES ASSUME NEW i \in 1..Len(p), Owns(p, d, i, e), Silent(p, d, i + 1, e)
               PROVE  \/ v = p[i].chg[e].res
                      \/ \E j \in 1..r :
                            /\ Others(p, d, j, e) /\ p[j].chg[e].old > p[i].chg[e].old
                            /\ \A l \in j..r : Others(p, d, l, e) => p[l].chg[e].res = v
    BY DEF KeptOwn
  <2>1. Owns(q, d, at(i), e) /\ p[i] = q[at(i)] /\ at(i) \in 1..Len(q)
    BY <1>1
  <2>2. Silent(q, d, at(i) + 1, e)
    <3> SUFFICES ASSUME NEW j \in (at(i) + 1)..Len(q), Owns(q, d, j, e)
                 PROVE  FALSE
      BY DEF Silent
    <3>1. Owns(p, d, to(j), e) /\ to(j) \in 1..Len(p)
      BY <1>2
    <3>2. to(j) \in (i + 1)..Len(p)
      BY <1>1, <2>1, <3>1
    <3> QED
      BY <3>1, <3>2 DEF Silent
  <2>3. CASE v = q[at(i)].chg[e].res
    BY <2>1, <2>3
  <2>4. CASE v # q[at(i)].chg[e].res
    <3>1. PICK j \in 1..r :
             /\ Others(q, d, j, e) /\ q[j].chg[e].old > q[at(i)].chg[e].old
             /\ \A l \in j..r : Others(q, d, l, e) => q[l].chg[e].res = v
      BY <2>1, <2>2, <2>4 DEF View, KeptOwn
    <3>2. Others(p, d, j, e) /\ p[j].chg[e].old > p[i].chg[e].old
      BY <1>3, <1>4, <2>1, <3>1
    <3>3. \A l \in j..r : Others(p, d, l, e) => p[l].chg[e].res = v
      BY <1>3, <1>4, <3>1
    <3> QED
      BY <3>2, <3>3
  <2> QED
    BY <2>3, <2>4
<1>9. TookLast(p, d, r, e, v)
  BY <1>3, <1>4, <1>5 DEF View, TookLast
<1>10. TookNewer(p, d, r, e, v)
  <2> SUFFICES ASSUME NEW i \in 1..r, NEW g \in 1..Len(p),
                      Owns(p, d, g, e), g < i, Writes(p, i, e), Silent(p, d, i, e)
               PROVE  \/ v = p[i].chg[e].res
                      \/ \E j \in (i + 1)..r :
                            Writes(p, j, e) /\ p[j].chg[e].old > p[g].chg[e].old
    BY DEF TookNewer
  <2>1. g \in 1..r /\ Owns(q, d, g, e) /\ p[g] = q[g] /\ g \in 1..Len(q)
    BY <1>1
  <2>2. Silent(q, d, i, e) /\ Writes(q, i, e)
    BY <1>4, <1>5
  <2>3. CASE v = q[i].chg[e].res
    BY <1>3, <2>3
  <2>4. CASE v # q[i].chg[e].res
    <3>1. PICK j \in (i + 1)..r : Writes(q, j, e) /\ q[j].chg[e].old > q[g].chg[e].old
      BY <2>1, <2>2, <2>4 DEF View, TookNewer
    <3>2. j \in 1..r
      OBVIOUS
    <3>3. Writes(p, j, e) /\ p[j].chg[e].old > p[g].chg[e].old
      BY <1>3, <1>4, <2>1, <3>1, <3>2
    <3> QED
      BY <3>3
  <2> QED
    BY <2>3, <2>4
<1>11. Fresh(p, d, r, e) => Fresh(q, d, r, e)
  BY <1>2, <1>4 DEF Fresh
<1> QED
  BY <1>6, <1>7, <1>8, <1>9, <1>10, <1>11 DEF View

\* The device writes the entity.
LEMMA ViewWrites ==
    ASSUME NEW q, NEW d, NEW r \in Nat, NEW e, NEW v, NEW k \in Nat, NEW u,
           View(q, d, r, e, v, k, u), Versioned(q),
           NEW p, Len(q) \in Nat, r <= Len(q), Len(p) = Len(q) + 1,
           \A i \in 1..Len(q) : p[i] = q[i],
           LET g == p[Len(p)] IN
              /\ g.dev = d /\ e \in DOMAIN g.chg /\ g.chg[e].old = k
    PROVE  View(p, d, r, e, p[Len(p)].chg[e].res, k + 1, u)
<1> DEFINE n == Len(q) + 1
           w == p[n].chg[e].res
<1>1. /\ Len(p) = n /\ n \in 1..Len(p) /\ p[n].dev = d /\ e \in DOMAIN p[n].chg
      /\ p[n].chg[e].old = k /\ p[Len(p)].chg[e].res = w
  OBVIOUS
<1>2. Owns(p, d, n, e)
  BY <1>1 DEF Owns, Writes
<1>3. \A i : Owns(p, d, i, e) => i = n \/ (i \in 1..Len(q) /\ Owns(q, d, i, e) /\ p[i] = q[i])
  BY <1>1 DEF Owns, Writes
<1>4. \A i \in 1..Len(q) : Owns(q, d, i, e) => q[i].chg[e].old \in Nat /\ q[i].chg[e].old < k
  BY DEF View, Ahead, Versioned, Owns, Writes
<1>5. \A i \in 1..n : ~Silent(p, d, i, e)
  BY <1>1, <1>2 DEF Silent
<1>6. InTurn(p, d, e)
  <2> SUFFICES ASSUME NEW i \in 1..Len(p), NEW j \in 1..Len(p),
                      Owns(p, d, i, e), Owns(p, d, j, e), i < j
               PROVE  p[i].chg[e].old <= p[j].chg[e].old
    BY DEF InTurn
  <2>1. i \in 1..Len(q) /\ Owns(q, d, i, e) /\ p[i] = q[i]
    BY <1>1, <1>3
  <2>2. CASE j = n
    BY <1>1, <1>4, <2>1, <2>2
  <2>3. CASE j # n
    BY <1>3, <2>1, <2>3 DEF View, InTurn
  <2> QED
    BY <2>2, <2>3
<1>7. Ahead(p, d, e, k + 1)
  <2> SUFFICES ASSUME NEW i \in 1..Len(p), Owns(p, d, i, e)
               PROVE  p[i].chg[e].old < k + 1
    BY DEF Ahead
  <2> QED
    BY <1>1, <1>3, <1>4
<1>8. KeptOwn(p, d, r, e, w)
  <2> SUFFICES ASSUME NEW i \in 1..Len(p), Owns(p, d, i, e), Silent(p, d, i + 1, e)
               PROVE  w = p[i].chg[e].res
    BY DEF KeptOwn
  <2>1. i + 1 \notin 1..n
    BY <1>5
  <2>2. i = n
    BY <1>1, <2>1
  <2> QED
    BY <2>2
<1>9. \A i \in 1..r : i \in 1..n
  OBVIOUS
<1>10. TookLast(p, d, r, e, w) /\ TookNewer(p, d, r, e, w)
  BY <1>5, <1>9 DEF TookLast, TookNewer
<1>11. ~Fresh(p, d, r, e)
  BY <1>1, <1>2 DEF Fresh
<1> QED
  BY <1>1, <1>6, <1>7, <1>8, <1>10, <1>11 DEF View

\* The device writes something else.
LEMMA ViewStays ==
    ASSUME NEW q, NEW d, NEW r \in Nat, NEW e, NEW v, NEW k, NEW u,
           View(q, d, r, e, v, k, u),
           NEW p, Len(q) \in Nat, r <= Len(q), Len(p) = Len(q) + 1,
           \A i \in 1..Len(q) : p[i] = q[i],
           e \notin DOMAIN p[Len(p)].chg
    PROVE  View(p, d, r, e, v, k, u)
<1>1. \A i : Writes(p, i, e) <=> Writes(q, i, e)
  BY DEF Writes
<1>2. \A i : Writes(q, i, e) => i \in 1..Len(q) /\ i \in 1..Len(p) /\ p[i] = q[i]
  BY DEF Writes
<1>3. \A i : /\ Owns(p, d, i, e) <=> Owns(q, d, i, e)
             /\ Others(p, d, i, e) <=> Others(q, d, i, e)
  BY <1>1, <1>2 DEF Owns, Others
<1>4. \A i : Owns(q, d, i, e) \/ Others(q, d, i, e) => Writes(q, i, e)
  BY DEF Owns, Others
<1>5. \A i \in Nat : Silent(p, d, i, e) => Silent(q, d, i, e)
  BY <1>3 DEF Silent
<1>6. InTurn(p, d, e) /\ Ahead(p, d, e, k)
  <2>1. InTurn(q, d, e) /\ Ahead(q, d, e, k)
    BY DEF View
  <2> QED
    BY <1>2, <1>3, <1>4, <2>1 DEF InTurn, Ahead
<1>7. KeptOwn(p, d, r, e, v)
  <2> SUFFICES ASSUME NEW i \in 1..Len(p), Owns(p, d, i, e), Silent(p, d, i + 1, e)
               PROVE  \/ v = p[i].chg[e].res
                      \/ \E j \in 1..r :
                            /\ Others(p, d, j, e) /\ p[j].chg[e].old > p[i].chg[e].old
                            /\ \A l \in j..r : Others(p, d, l, e) => p[l].chg[e].res = v
    BY DEF KeptOwn
  <2>1. /\ i \in 1..Len(q) /\ Owns(q, d, i, e) /\ p[i] = q[i]
        /\ Silent(q, d, i + 1, e)
    BY <1>2, <1>3, <1>4, <1>5
  <2>2. KeptOwn(q, d, r, e, v)
    BY DEF View
  <2>3. CASE v = q[i].chg[e].res
    BY <2>1, <2>3
  <2>4. CASE v # q[i].chg[e].res
    <3>1. PICK j \in 1..r :
             /\ Others(q, d, j, e) /\ q[j].chg[e].old > q[i].chg[e].old
             /\ \A l \in j..r : Others(q, d, l, e) => q[l].chg[e].res = v
      BY <2>1, <2>2, <2>4 DEF KeptOwn
    <3>2. Others(p, d, j, e) /\ p[j].chg[e].old > p[i].chg[e].old
      BY <1>2, <1>3, <1>4, <2>1, <3>1
    <3>3. \A l \in j..r : Others(p, d, l, e) => p[l].chg[e].res = v
      BY <1>2, <1>3, <1>4, <3>1
    <3> QED
      BY <3>2, <3>3
  <2> QED
    BY <2>3, <2>4
<1>8. TookLast(p, d, r, e, v)
  <2>1. TookLast(q, d, r, e, v)
    BY DEF View
  <2> QED
    BY <1>1, <1>2, <1>3, <1>4, <1>5, <2>1 DEF TookLast
<1>9. TookNewer(p, d, r, e, v)
  <2> SUFFICES ASSUME NEW i \in 1..r, NEW g \in 1..Len(p),
                      Owns(p, d, g, e), g < i, Writes(p, i, e), Silent(p, d, i, e)
               PROVE  \/ v = p[i].chg[e].res
                      \/ \E j \in (i + 1)..r :
                            Writes(p, j, e) /\ p[j].chg[e].old > p[g].chg[e].old
    BY DEF TookNewer
  <2>1. /\ g \in 1..Len(q) /\ Owns(q, d, g, e) /\ p[g] = q[g]
        /\ Writes(q, i, e) /\ p[i] = q[i] /\ Silent(q, d, i, e)
    BY <1>1, <1>2, <1>3, <1>4, <1>5
  <2>2. TookNewer(q, d, r, e, v)
    BY DEF View
  <2>3. CASE v = q[i].chg[e].res
    BY <2>1, <2>3
  <2>4. CASE v # q[i].chg[e].res
    <3>1. PICK j \in (i + 1)..r : Writes(q, j, e) /\ q[j].chg[e].old > q[g].chg[e].old
      BY <2>1, <2>2, <2>4 DEF TookNewer
    <3>2. Writes(p, j, e) /\ p[j].chg[e].old > p[g].chg[e].old
      BY <1>1, <1>2, <2>1, <3>1
    <3> QED
      BY <3>2
  <2> QED
    BY <2>3, <2>4
<1>10. Fresh(p, d, r, e) => Fresh(q, d, r, e)
  BY <1>1, <1>2, <1>3, <1>4 DEF Fresh
<1> QED
  BY <1>6, <1>7, <1>8, <1>9, <1>10 DEF View

\* The device reads a group of its own, or one that leaves the entity alone.
LEMMA ViewPasses ==
    ASSUME NEW q, NEW d, NEW r \in Nat, NEW e, NEW v, NEW k, NEW u,
           View(q, d, r, e, v, k, u), ~Others(q, d, r + 1, e)
    PROVE  View(q, d, r + 1, e, v, k, u)
<1>1. \A i \in 1..(r + 1) : i \in 1..r \/ i = r + 1
  OBVIOUS
<1>2. \A i \in 1..r : i \in 1..(r + 1)
  OBVIOUS
<1>3. KeptOwn(q, d, r + 1, e, v)
  <2> SUFFICES ASSUME NEW i \in 1..Len(q), Owns(q, d, i, e), Silent(q, d, i + 1, e),
                      v # q[i].chg[e].res
               PROVE  \E j \in 1..(r + 1) :
                         /\ Others(q, d, j, e) /\ q[j].chg[e].old > q[i].chg[e].old
                         /\ \A l \in j..(r + 1) : Others(q, d, l, e) => q[l].chg[e].res = v
    BY DEF KeptOwn
  <2>1. PICK j \in 1..r :
           /\ Others(q, d, j, e) /\ q[j].chg[e].old > q[i].chg[e].old
           /\ \A l \in j..r : Others(q, d, l, e) => q[l].chg[e].res = v
    BY DEF View, KeptOwn
  <2>2. \A l \in j..(r + 1) : l \in j..r \/ l = r + 1
    OBVIOUS
  <2> QED
    BY <1>2, <2>1, <2>2
<1>4. TookLast(q, d, r + 1, e, v)
  <2> SUFFICES ASSUME NEW i \in 1..(r + 1), Others(q, d, i, e), Silent(q, d, i, e),
                      \A j \in (i + 1)..(r + 1) : ~Writes(q, j, e)
               PROVE  v = q[i].chg[e].res
    BY DEF TookLast
  <2>1. i \in 1..r
    BY <1>1
  <2>2. \A j \in (i + 1)..r : ~Writes(q, j, e)
    OBVIOUS
  <2> QED
    BY <2>1, <2>2 DEF View, TookLast
<1>5. TookNewer(q, d, r + 1, e, v)
  <2> SUFFICES ASSUME NEW i \in 1..(r + 1), NEW g \in 1..Len(q), Owns(q, d, g, e), g < i,
                      Writes(q, i, e), Silent(q, d, i, e), v # q[i].chg[e].res
               PROVE  \E j \in (i + 1)..(r + 1) :
                         Writes(q, j, e) /\ q[j].chg[e].old > q[g].chg[e].old
    BY DEF TookNewer
  <2>1. i # r + 1
    <3> SUFFICES ASSUME i = r + 1
                 PROVE  FALSE
      OBVIOUS
    <3>1. i \in i..Len(q) /\ Owns(q, d, i, e)
      BY DEF Others, Owns, Writes
    <3> QED
      BY <3>1 DEF Silent
  <2>2. i \in 1..r
    BY <1>1, <2>1
  <2>3. PICK j \in (i + 1)..r : Writes(q, j, e) /\ q[j].chg[e].old > q[g].chg[e].old
    BY <2>2 DEF View, TookNewer
  <2>4. j \in (i + 1)..(r + 1)
    OBVIOUS
  <2> QED
    BY <2>3, <2>4
<1>6. Fresh(q, d, r + 1, e) => Fresh(q, d, r, e)
  BY <1>2 DEF Fresh
<1> QED
  BY <1>3, <1>4, <1>5, <1>6 DEF View

\* The device accepts another's write: of the version it has, or of the value.
LEMMA ViewTakes ==
    ASSUME NEW q, NEW d, NEW r \in Nat, NEW e, NEW v, NEW k \in Nat, NEW u,
           View(q, d, r, e, v, k, u), Versioned(q), Others(q, d, r + 1, e),
           q[r + 1].chg[e].old = k \/ q[r + 1].chg[e].res = v,
           NEW m \in Nat, m >= k
    PROVE  View(q, d, r + 1, e, q[r + 1].chg[e].res, m, u)
<1> DEFINE w == q[r + 1].chg[e].res
           o == q[r + 1].chg[e].old
<1>1. \A i \in 1..(r + 1) : i \in 1..r \/ i = r + 1
  OBVIOUS
<1>2. \A i \in 1..r : i \in 1..(r + 1)
  OBVIOUS
<1>3. \A i \in 1..Len(q) : Owns(q, d, i, e) => q[i].chg[e].old \in Nat /\ q[i].chg[e].old < k
  BY DEF View, Ahead, Versioned, Owns, Writes
<1>4. r + 1 \in 1..(r + 1) /\ Writes(q, r + 1, e) /\ Others(q, d, r + 1, e)
  BY DEF Others
<1>5. Ahead(q, d, e, m)
  BY <1>3 DEF Ahead
<1>6. KeptOwn(q, d, r + 1, e, w)
  <2> SUFFICES ASSUME NEW i \in 1..Len(q), Owns(q, d, i, e), Silent(q, d, i + 1, e),
                      w # q[i].chg[e].res
               PROVE  \E j \in 1..(r + 1) :
                         /\ Others(q, d, j, e) /\ q[j].chg[e].old > q[i].chg[e].old
                         /\ \A l \in j..(r + 1) : Others(q, d, l, e) => q[l].chg[e].res = w
    BY DEF KeptOwn
  <2>1. CASE w = v
    <3>1. PICK j \in 1..r :
             /\ Others(q, d, j, e) /\ q[j].chg[e].old > q[i].chg[e].old
             /\ \A l \in j..r : Others(q, d, l, e) => q[l].chg[e].res = v
      BY <2>1 DEF View, KeptOwn
    <3>2. \A l \in j..(r + 1) : l \in j..r \/ l = r + 1
      OBVIOUS
    <3> QED
      BY <1>2, <2>1, <3>1, <3>2
  <2>2. CASE o = k
    <3>1. o > q[i].chg[e].old
      BY <1>3, <2>2
    <3>2. \A l \in (r + 1)..(r + 1) : l = r + 1
      OBVIOUS
    <3> QED
      BY <1>4, <3>1, <3>2
  <2> QED
    BY <2>1, <2>2
<1>7. TookLast(q, d, r + 1, e, w)
  <2> SUFFICES ASSUME NEW i \in 1..(r + 1), \A j \in (i + 1)..(r + 1) : ~Writes(q, j, e)
               PROVE  w = q[i].chg[e].res
    BY DEF TookLast
  <2>1. i = r + 1
    BY <1>1, <1>4
  <2> QED
    BY <2>1
<1>8. TookNewer(q, d, r + 1, e, w)
  <2> SUFFICES ASSUME NEW i \in 1..(r + 1), NEW g \in 1..Len(q), Owns(q, d, g, e), g < i,
                      Writes(q, i, e), Silent(q, d, i, e), w # q[i].chg[e].res
               PROVE  \E j \in (i + 1)..(r + 1) :
                         Writes(q, j, e) /\ q[j].chg[e].old > q[g].chg[e].old
    BY DEF TookNewer
  <2>1. i \in 1..r
    BY <1>1
  <2>2. CASE w = v
    <3>1. PICK j \in (i + 1)..r : Writes(q, j, e) /\ q[j].chg[e].old > q[g].chg[e].old
      BY <2>1, <2>2 DEF View, TookNewer
    <3>2. j \in (i + 1)..(r + 1)
      OBVIOUS
    <3> QED
      BY <3>1, <3>2
  <2>3. CASE o = k
    <3>1. o > q[g].chg[e].old
      BY <1>3, <2>3
    <3>2. r + 1 \in (i + 1)..(r + 1)
      BY <2>1
    <3> QED
      BY <1>4, <3>1, <3>2
  <2> QED
    BY <2>2, <2>3
<1>9. ~Fresh(q, d, r + 1, e)
  BY <1>4 DEF Fresh
<1> QED
  BY <1>5, <1>6, <1>7, <1>8, <1>9 DEF View

\* Of the numbers up to n that are in a set, one is the last.
LEMMA LastUpTo ==
    ASSUME NEW S, NEW n \in Nat, NEW m \in 1..n, m \in S
    PROVE  \E i \in 1..n : i >= m /\ i \in S /\ \A j \in (i + 1)..n : j \notin S
<1> DEFINE P == {k \in Nat : \A x \in 1..k : x \in S =>
                    \E i \in 1..k : i >= x /\ i \in S /\ \A j \in (i + 1)..k : j \notin S}
<1>1. 0 \in P
  OBVIOUS
<1>2. ASSUME NEW k \in Nat, k \in P
      PROVE  k + 1 \in P
  <2> SUFFICES ASSUME NEW x \in 1..(k + 1), x \in S
               PROVE  \E i \in 1..(k + 1) :
                         i >= x /\ i \in S /\ \A j \in (i + 1)..(k + 1) : j \notin S
    OBVIOUS
  <2>1. CASE k + 1 \in S
    <3>1. k + 1 >= x /\ k + 1 \in 1..(k + 1) /\ \A j \in ((k + 1) + 1)..(k + 1) : FALSE
      OBVIOUS
    <3> QED
      BY <2>1, <3>1
  <2>2. CASE k + 1 \notin S
    <3>1. x \in 1..k
      BY <2>2
    <3>2. PICK i \in 1..k : i >= x /\ i \in S /\ \A j \in (i + 1)..k : j \notin S
      BY <1>2, <3>1
    <3>3. i \in 1..(k + 1) /\ \A j \in (i + 1)..(k + 1) : j \in (i + 1)..k \/ j = k + 1
      OBVIOUS
    <3> QED
      BY <2>2, <3>2, <3>3
  <2> QED
    BY <2>1, <2>2
<1> HIDE DEF P
<1>3. Nat \subseteq P
  BY <1>1, <1>2, NumbersInTurn
<1> QED
  BY <1>3 DEF P

\* What the devices hold of an entity, each having read every group.
Views(q, e, v, k, u) == \A d \in Devices : View(q, d, Len(q), e, v[d], k[d], u)

\* Devices that read every group, and met no conflict, hold the same value.
LEMMA ViewsAgree ==
    ASSUME NEW q, Len(q) \in Nat, Versioned(q), \A i \in 1..Len(q) : q[i].dev \in Devices,
           NEW e, NEW v, NEW k, NEW u,
           Views(q, e, v, k, u)
    PROVE  \A d, o \in Devices : v[d] = v[o]
<1>4. \A d \in Devices : View(q, d, Len(q), e, v[d], k[d], u)
  BY DEF Views
<1> DEFINE n == Len(q)
           W(i) == Writes(q, i, e)
           old(i) == q[i].chg[e].old
           res(i) == q[i].chg[e].res
           dev(i) == q[i].dev
<1>1. \A i : W(i) => i \in 1..n /\ old(i) \in Nat /\ dev(i) \in Devices
  BY DEF Writes, Versioned
<1>2. CASE \A i \in 1..n : ~W(i)
  <2>1. \A d \in Devices : Fresh(q, d, n, e)
    BY <1>2 DEF Fresh, Owns
  <2>2. \A d \in Devices : v[d] = u
    BY <1>4, <2>1 DEF View
  <2> QED
    BY <2>2
<1>3. CASE \E i \in 1..n : W(i)
  \* The last write, and its author.
  <2>1. PICK last \in 1..n : W(last) /\ \A j \in (last + 1)..n : ~W(j)
    <3> DEFINE S == {i \in 1..n : W(i)}
    <3>1. PICK m \in 1..n : m \in S
      BY <1>3
    <3>2. n \in Nat
      OBVIOUS
    <3> HIDE DEF n
    <3>3. \A j : j \in S <=> j \in 1..n /\ W(j)
      OBVIOUS
    <3> HIDE DEF S, W
    <3>4. \E i \in 1..n : i >= m /\ i \in S /\ \A j \in (i + 1)..n : j \notin S
      BY <3>1, <3>2, LastUpTo
    <3>5. PICK i \in 1..n : i \in S /\ \A j \in (i + 1)..n : j \notin S
      BY <3>4
    <3>6. \A j \in (i + 1)..n : j \in 1..n
      OBVIOUS
    <3> QED
      BY <3>3, <3>5, <3>6
  <2> DEFINE a == dev(last)
             y == res(last)
  <2>2. a \in Devices
    BY <1>1, <2>1
  \* Every other device took it last.
  <2>3. \A d \in Devices : d # a => v[d] = y
    <3> SUFFICES ASSUME NEW d \in Devices, d # a
                 PROVE  v[d] = y
      OBVIOUS
    <3>1. Others(q, d, last, e) /\ Silent(q, d, last, e)
      <4>1. \A j \in last..n : j = last \/ j \in (last + 1)..n
        OBVIOUS
      <4> QED
        BY <2>1, <4>1 DEF Others, Owns, Silent
    <3>2. TookLast(q, d, n, e, v[d])
      BY <1>4 DEF View
    <3> QED
      BY <2>1, <3>1, <3>2 DEF TookLast
  <2>4. v[a] = y
    <3> SUFFICES ASSUME v[a] # y
                 PROVE  FALSE
      OBVIOUS
    <3> DEFINE x == v[a]
    <3>1. Owns(q, a, last, e) /\ Silent(q, a, last + 1, e)
      BY <2>1 DEF Owns, Silent
    \* What its author took of a newer version, and from whom.
    <3>2. PICK f \in 1..n :
             /\ Others(q, a, f, e) /\ old(f) > old(last)
             /\ \A l \in f..n : Others(q, a, l, e) => res(l) = x
      BY <1>4, <2>2, <3>1 DEF View, KeptOwn
    <3> DEFINE b == dev(f)
    <3>3. W(f) /\ b # a /\ b \in Devices /\ old(f) \in Nat /\ old(last) \in Nat /\ res(f) = x
      BY <1>1, <2>1, <3>2 DEF Others
    <3>4. PICK g \in 1..n : g >= f /\ Owns(q, b, g, e) /\ Silent(q, b, g + 1, e)
      <4> DEFINE S == {i \in 1..n : Owns(q, b, i, e)}
      <4>1. f \in S /\ \A i : i \in S <=> i \in 1..n /\ Owns(q, b, i, e)
        BY <3>3 DEF Owns
      <4>2. n \in Nat
        OBVIOUS
      <4> HIDE DEF S, n
      <4>3. \E i \in 1..n : i >= f /\ i \in S /\ \A j \in (i + 1)..n : j \notin S
        BY <4>1, <4>2, LastUpTo
      <4>4. PICK i \in 1..n : i >= f /\ i \in S /\ \A j \in (i + 1)..n : j \notin S
        BY <4>3
      <4>5. \A j \in (i + 1)..n : j \in 1..n
        OBVIOUS
      <4>6. Silent(q, b, i + 1, e)
        BY <4>1, <4>4, <4>5 DEF Silent, n
      <4> QED
        BY <4>1, <4>4, <4>6
    <3>5. W(g) /\ Others(q, a, g, e) /\ g \in f..n /\ res(g) = x /\ old(g) \in Nat
      <4>1. W(g) /\ Others(q, a, g, e) /\ g \in f..n
        BY <3>3, <3>4 DEF Owns, Others
      <4> QED
        BY <1>1, <3>2, <4>1
    <3>6. old(g) >= old(f)
      <4>1. CASE g = f
        BY <3>3, <4>1
      <4>2. CASE g # f
        <5>1. Owns(q, b, f, e) /\ f < g
          BY <3>3, <3>4, <4>2 DEF Owns
        <5>2. InTurn(q, b, e)
          BY <1>4, <3>3 DEF View
        <5> QED
          BY <3>3, <3>4, <3>5, <5>1, <5>2 DEF InTurn
      <4> QED
        BY <4>1, <4>2
    \* What that device took of a still newer one.
    <3>7. v[b] = y
      BY <2>3, <3>3
    <3>8. PICK h \in 1..n :
             /\ Others(q, b, h, e) /\ old(h) > old(g)
             /\ \A l \in h..n : Others(q, b, l, e) => res(l) = y
      <4>1. KeptOwn(q, b, n, e, v[b])
        BY <1>4, <3>3 DEF View
      <4> QED
        BY <3>4, <3>5, <3>7, <4>1 DEF KeptOwn
    <3> DEFINE c == dev(h)
    <3>9. W(h) /\ c # b /\ c \in Devices /\ old(h) \in Nat /\ res(h) = y
      BY <1>1, <3>8 DEF Others
    \* The author's writes are no newer than its last, those of the second
    \* device after the first it took are no newer than that one's last.
    <3>10. \A i \in 1..n : Owns(q, a, i, e) => old(i) <= old(last)
      <4>1. \A i \in 1..n : Owns(q, a, i, e) => i = last \/ i < last
        BY <2>1 DEF Owns
      <4>2. InTurn(q, a, e)
        BY <1>4, <2>2 DEF View
      <4> QED
        BY <3>1, <3>3, <4>1, <4>2 DEF InTurn
    <3>11. \A i \in 1..n : Owns(q, b, i, e) => old(i) <= old(g)
      <4>1. \A i \in 1..n : Owns(q, b, i, e) => i = g \/ i < g
        BY <3>4 DEF Owns, Silent
      <4>2. InTurn(q, b, e)
        BY <1>4, <3>3 DEF View
      <4> QED
        BY <3>4, <3>5, <4>1, <4>2 DEF InTurn
    <3>12. c # a
      <4> SUFFICES ASSUME c = a
                   PROVE  FALSE
        OBVIOUS
      <4>1. Owns(q, a, h, e)
        BY <3>9 DEF Owns
      <4>2. old(h) <= old(last)
        BY <3>10, <4>1
      <4>3. old(h) > old(g) /\ old(f) > old(last)
        BY <3>2, <3>8
      <4> HIDE DEF old
      <4> QED
        BY <3>3, <3>5, <3>6, <3>9, <4>2, <4>3
    <3>13. h < f
      <4> SUFFICES ASSUME h >= f
                   PROVE  FALSE
        BY <3>8
      <4>1. h \in f..n /\ Others(q, a, h, e)
        BY <3>9, <3>12 DEF Others
      <4> QED
        BY <3>2, <3>9, <4>1
    \* From the first taken on nobody else writes.
    <3>14. \A i \in f..n : W(i) => dev(i) \in {a, b}
      <4> SUFFICES ASSUME NEW i \in f..n, W(i), dev(i) \notin {a, b}
                   PROVE  FALSE
        OBVIOUS
      <4>1. Others(q, a, i, e) /\ Others(q, b, i, e)
        BY DEF Others
      <4>2. i \in h..n
        BY <3>13
      <4> QED
        BY <3>2, <3>8, <4>1, <4>2
    <3>15. Owns(q, c, h, e) /\ Silent(q, c, f, e)
      <4>1. Owns(q, c, h, e)
        BY <3>9 DEF Owns
      <4> QED
        BY <3>9, <3>12, <3>14, <4>1 DEF Owns, Silent
    \* So the third device kept what it took, or read a newer one: of whom?
    <3>16. TookNewer(q, c, n, e, v[c]) /\ v[c] = y
      BY <1>4, <2>3, <3>9, <3>12 DEF View
    <3>17. PICK j \in (f + 1)..n : W(j) /\ old(j) > old(h)
      BY <3>3, <3>13, <3>15, <3>16 DEF TookNewer
    <3>18. j \in f..n /\ j \in 1..n /\ old(j) \in Nat /\ dev(j) \in {a, b}
      BY <1>1, <3>14, <3>17
    <3>19. CASE dev(j) = a
      <4>1. old(j) <= old(last)
        BY <3>10, <3>17, <3>18, <3>19 DEF Owns
      <4>2. old(h) > old(g) /\ old(f) > old(last) /\ old(j) > old(h)
        BY <3>2, <3>8, <3>17
      <4> HIDE DEF old
      <4> QED
        BY <3>3, <3>5, <3>6, <3>9, <3>18, <4>1, <4>2
    <3>20. CASE dev(j) = b
      <4>1. old(j) <= old(g)
        BY <3>11, <3>17, <3>18, <3>20 DEF Owns
      <4>2. old(h) > old(g) /\ old(j) > old(h)
        BY <3>8, <3>17
      <4> HIDE DEF old
      <4> QED
        BY <3>5, <3>9, <3>18, <4>1, <4>2
    <3> QED
      BY <3>18, <3>19, <3>20
  <2> QED
    BY <2>3, <2>4
<1> QED
  BY <1>2, <1>3

-----------------------------------------------------------------------------
(* Devices and the groups they wrote.                                        *)

Authors ==
    /\ \A i \in 1..Len(log) : log[i].dev \in Devices
    /\ \A d \in Devices : \A i \in 1..Len(outbox[d]) : outbox[d][i].dev = d

\* With t the tables all devices started from.
Agreeing(t) ==
    \A d \in Devices : ~conflict[d] =>
       \A e : View(log \o outbox[d], d, read[d], e, Get(db[d], e), Version(d, e), Get(t, e))

AgreeInv == Authors /\ \E t : Agreeing(t)

\* One queue behind another, group by group.
LEMMA JoinIs ==
    ASSUME NEW q, NEW p, NEW m, QueueFits(q, m), QueueFits(p, m)
    PROVE  /\ Len(q) \in Nat /\ Len(p) \in Nat /\ Len(q \o p) = Len(q) + Len(p)
           /\ \A i \in 1..Len(q) : (q \o p)[i] = q[i]
           /\ \A i \in (Len(q) + 1)..(Len(q) + Len(p)) : (q \o p)[i] = p[i - Len(q)]
           /\ Versioned(q \o p)
<1> DEFINE T == Range(q) \cup Range(p)
           h == q \o p
<1>1. q \in Seq(T) /\ p \in Seq(T)
  BY SeqMonotonic DEF QueueFits
<1>2. Len(q) \in Nat /\ Len(p) \in Nat
  BY <1>1, LenProperties
<1>3. /\ Len(h) = Len(q) + Len(p)
      /\ \A i \in 1..Len(q) + Len(p) : h[i] = IF i <= Len(q) THEN q[i] ELSE p[i - Len(q)]
  BY <1>1, ConcatProperties
<1>4. QueueFits(h, m)
  BY QueueJoins
<1> HIDE DEF h, T
<1>5. Versioned(h)
  BY <1>4 DEF QueueFits, GroupFits, Versioned
<1>6. \A i \in 1..Len(q) : h[i] = q[i]
  BY <1>2, <1>3
<1>7. \A i \in (Len(q) + 1)..(Len(q) + Len(p)) : h[i] = p[i - Len(q)]
  BY <1>2, <1>3
<1> QED
  BY <1>2, <1>3, <1>5, <1>6, <1>7 DEF h

\* One group more.
LEMMA AppendIs ==
    ASSUME NEW q, NEW m, QueueFits(q, m), NEW g
    PROVE  /\ Len(q) \in Nat /\ Len(Append(q, g)) = Len(q) + 1
           /\ \A i \in 1..Len(q) : Append(q, g)[i] = q[i]
           /\ Append(q, g)[Len(q) + 1] = g
<1> DEFINE T == Range(q) \cup {g}
<1>1. q \in Seq(T)
  BY SeqMonotonic DEF QueueFits
<1> QED
  BY <1>1, AppendProperties, LenProperties

\* Nothing behind a queue is the queue.
LEMMA JoinNothing ==
    ASSUME NEW q, NEW m, QueueFits(q, m)
    PROVE  QueueFits(<<>>, m) /\ Len(<<>>) = 0
<1>1. <<>> \in Seq({}) /\ Len(<<>>) = 0
  BY EmptySeq
<1>2. <<>> \in Seq(Range(<<>>))
  BY <1>1, SeqOfRange
<1> QED
  BY <1>1, <1>2 DEF QueueFits

\* At the start every device holds the same, and nothing was written.
LEMMA AgreeBegins ==
    Init => AgreeInv
<1> SUFFICES ASSUME Init
             PROVE  AgreeInv
  OBVIOUS
<1>1. PICK t : db = [d \in Devices |-> t]
  BY DEF Init
<1>2. /\ outbox = [d \in Devices |-> <<>>] /\ log = <<>> /\ read = [d \in Devices |-> 0]
  BY DEF Init
<1>3. Len(<<>>) = 0
  BY EmptySeq
<1>4. Authors
  BY <1>2, <1>3 DEF Authors
<1>5. ASSUME NEW d \in Devices, NEW e
      PROVE  View(log \o outbox[d], d, read[d], e, Get(db[d], e), Version(d, e), Get(t, e))
  <2>1. IInv
    BY InitHolds
  <2>2. QueueFits(log, made)
    BY <2>1 DEF IInv
  <2>3. log = <<>> /\ outbox[d] = <<>> /\ read[d] = 0 /\ db[d] = t
    BY <1>1, <1>2
  <2>4. Len(<<>> \o <<>>) = 0
    BY <1>3, <2>2, <2>3, JoinIs
  <2> QED
    BY <2>3, <2>4, ViewBegins
<1>6. Agreeing(t)
  BY <1>5 DEF Agreeing
<1> QED
  BY <1>4, <1>6 DEF AgreeInv

\* What a device writes, or a patch: it holds it, at the next version.
LEMMA CommitAgrees ==
    ASSUME IInv, IInv', AgreeInv, NEW d \in Devices, NEW new, Commit(d, new)
    PROVE  AgreeInv'
<1> DEFINE t == db[d]
           touched == {e \in DOMAIN new \cup DOMAIN t : Get(new, e) # Get(t, e)}
           change(e) == [pre |-> Get(t, e), old |-> Version(d, e), res |-> Get(new, e)]
           chg == [e \in touched |-> change(e)]
           g == [dev |-> d, chg |-> chg]
           up == [e \in touched |-> Version(d, e) + 1]
<1>1. /\ db' = [db EXCEPT ![d] = new]
      /\ outbox' = [outbox EXCEPT ![d] = Append(@, g)]
      /\ ver' = [ver EXCEPT ![d] = PutAll(@, up)]
      /\ log' = log /\ read' = read /\ conflict' = conflict
  BY Zenon DEF Commit
<1>2. /\ db = [o \in Devices |-> db[o]] /\ ver = [o \in Devices |-> ver[o]]
      /\ outbox = [o \in Devices |-> outbox[o]]
      /\ QueueFits(log, made) /\ \A o \in Devices : QueueFits(outbox[o], made)
      /\ read \in [Devices -> 0..Len(log)] /\ Good(t)
  BY SoundIs DEF IInv, TypeOK
<1>3. /\ \A o \in Devices : QueueFits(outbox'[o], made') /\ QueueFits(log, made')
      /\ Good(db'[d])
  BY <1>1, SoundIs DEF IInv
<1>4. /\ db'[d] = new /\ ver'[d] = PutAll(ver[d], up) /\ outbox'[d] = Append(outbox[d], g)
      /\ \A o \in Devices : o # d =>
            db'[o] = db[o] /\ ver'[o] = ver[o] /\ outbox'[o] = outbox[o]
  BY <1>1, <1>2
<1>5. g.dev = d /\ g.chg = chg /\ DOMAIN chg = touched
      /\ \A e \in touched : chg[e].old = Version(d, e) /\ chg[e].res = Get(new, e)
  OBVIOUS
<1>6. DOMAIN up = touched /\ \A e \in touched : up[e] = Version(d, e) + 1
  OBVIOUS
<1>7. \A e : Version(d, e) \in Nat
  BY VersionType DEF IInv, TypeOK
<1>8. \A e : e \notin touched =>
         Get(new, e) = Get(t, e) /\ (e \in DOMAIN new <=> e \in DOMAIN t)
  <2>1. \A e : Get(new, e) # None <=> e \in DOMAIN new
    BY <1>3, <1>4, NoneIsNoRow DEF Get, Good, Table
  <2>2. \A e : Get(t, e) # None <=> e \in DOMAIN t
    BY <1>2, NoneIsNoRow DEF Get, Good, Table
  <2>3. \A e : e \notin touched => Get(new, e) = Get(t, e)
    <3> SUFFICES ASSUME NEW e, e \notin touched, e \notin DOMAIN new \cup DOMAIN t
                 PROVE  Get(new, e) = Get(t, e)
      OBVIOUS
    <3> QED
      BY DEF Get
  <2> QED
    BY ONLY <2>1, <2>2, <2>3
<1> HIDE DEF t, touched, change, chg, g, up
<1>9. /\ \A e \in touched : Version(d, e)' = Version(d, e) + 1
      /\ \A e : e \notin touched => Version(d, e)' = Version(d, e)
  <2> DEFINE w == ver[d]
  <2>1. ver'[d] = PutAll(w, up)
    BY <1>4
  <2> HIDE DEF w
  <2>2. /\ DOMAIN ver'[d] = DOMAIN w \cup DOMAIN up
        /\ \A e \in DOMAIN up : ver'[d][e] = up[e]
        /\ \A e \in DOMAIN w : e \notin DOMAIN up => ver'[d][e] = w[e]
    BY ONLY <2>1 DEF PutAll
  <2> USE DEF w
  <2>3. \A e \in touched : Version(d, e)' = Version(d, e) + 1
    BY <1>6, <2>2 DEF Version
  <2>4. ASSUME NEW e, e \notin touched
        PROVE  Version(d, e)' = Version(d, e)
    BY <1>4, <1>6, <1>8, <2>2, <2>4 DEF Version, t
  <2> QED
    BY <2>3, <2>4
<1>10. \A o \in Devices : o # d => \A e : Version(o, e)' = Version(o, e)
  BY <1>4 DEF Version
<1>11. PICK b : Agreeing(b)
  BY DEF AgreeInv
<1>12. ASSUME NEW o \in Devices, ~conflict'[o], NEW e
       PROVE  View(log \o outbox'[o], o, read[o], e, Get(db'[o], e), Version(o, e)', Get(b, e))
  <2> DEFINE q == log \o outbox[o]
             v == Get(db[o], e)
             k == Version(o, e)
  <2>1. View(q, o, read[o], e, v, k, Get(b, e))
    BY <1>1, <1>11, <1>12 DEF Agreeing
  <2>2. CASE o # d
    BY <1>4, <1>10, <2>1, <2>2
  <2>3. CASE o = d
    <3> DEFINE p == log \o outbox'[d]
               r == read[d]
               u == Get(b, e)
    <3>1. /\ Len(log) \in Nat /\ Len(outbox[d]) \in Nat /\ Len(q) = Len(log) + Len(outbox[d])
          /\ \A i \in 1..Len(log) : q[i] = log[i]
          /\ \A i \in (Len(log) + 1)..(Len(log) + Len(outbox[d])) :
                q[i] = outbox[d][i - Len(log)]
          /\ Versioned(q)
      BY <1>2, <2>3, JoinIs
    <3>2. /\ Len(outbox'[d]) = Len(outbox[d]) + 1
          /\ \A i \in 1..Len(outbox[d]) : outbox'[d][i] = outbox[d][i]
          /\ outbox'[d][Len(outbox[d]) + 1] = g
      BY <1>2, <1>4, AppendIs
    <3>3. /\ Len(p) = Len(log) + Len(outbox'[d])
          /\ \A i \in 1..Len(log) : p[i] = log[i]
          /\ \A i \in (Len(log) + 1)..(Len(log) + Len(outbox'[d])) :
                p[i] = outbox'[d][i - Len(log)]
      BY <1>3, JoinIs
    <3>4. r \in Nat /\ r <= Len(log)
      BY <1>2, <3>1
    <3> DEFINE x == outbox[d]
               y == outbox'[d]
    <3> HIDE DEF q, p, r, x, y
    <3>5. /\ Len(q) \in Nat /\ r <= Len(q) /\ Len(p) = Len(q) + 1 /\ p[Len(p)] = g
      <4> DEFINE l == Len(log)
                 n == Len(x)
      <4>1. /\ l \in Nat /\ n \in Nat /\ Len(q) = l + n /\ Len(y) = n + 1 /\ y[n + 1] = g
            /\ Len(p) = l + Len(y) /\ r \in Nat /\ r <= l
            /\ \A i \in (l + 1)..(l + Len(y)) : p[i] = y[i - l]
        BY <3>1, <3>2, <3>3, <3>4 DEF x, y
      <4> HIDE DEF l, n
      <4>2. Len(p) \in (l + 1)..(l + Len(y)) /\ Len(p) - l = n + 1
        BY <4>1
      <4>3. p[Len(p)] = g
        BY <4>1, <4>2
      <4> QED
        BY <4>1, <4>3
    <3>6. \A i \in 1..Len(q) : p[i] = q[i]
      <4> TAKE i \in 1..Len(q)
      <4>1. CASE i <= Len(log)
        BY <3>1, <3>3, <4>1
      <4>2. CASE ~(i <= Len(log))
        <5>1. /\ i \in (Len(log) + 1)..(Len(log) + Len(x))
              /\ i \in (Len(log) + 1)..(Len(log) + Len(y))
              /\ i - Len(log) \in 1..Len(x)
          BY <3>1, <3>2, <4>2 DEF x, y
        <5> QED
          BY <3>1, <3>2, <3>3, <5>1 DEF x, y
      <4> QED
        BY <4>1, <4>2
    <3>7. View(q, d, r, e, v, k, u) /\ k \in Nat
      BY <1>7, <2>1, <2>3 DEF r
    <3> HIDE DEF v, k, u
    <3>8. CASE e \in touched
      <4>1. /\ p[Len(p)].dev = d /\ e \in DOMAIN p[Len(p)].chg /\ p[Len(p)].chg[e].old = k
            /\ p[Len(p)].chg[e].res = Get(new, e)
        BY <1>5, <2>3, <3>5, <3>8 DEF k
      <4>2. View(p, d, r, e, p[Len(p)].chg[e].res, k + 1, u)
        BY <3>1, <3>4, <3>5, <3>6, <3>7, <4>1, ViewWrites
      <4>3. Version(d, e)' = k + 1 /\ Get(db'[d], e) = Get(new, e)
        BY <1>4, <1>9, <2>3, <3>8 DEF k
      <4> QED
        BY <2>3, <4>1, <4>2, <4>3 DEF p, r, u
    <3>9. CASE e \notin touched
      <4>1. e \notin DOMAIN p[Len(p)].chg
        BY <1>5, <3>5, <3>9
      <4>2. View(p, d, r, e, v, k, u)
        BY <3>4, <3>5, <3>6, <3>7, <4>1, ViewStays
      <4>3. Version(d, e)' = k /\ Get(db'[d], e) = v
        BY <1>4, <1>8, <1>9, <2>3, <3>9 DEF k, v, t
      <4> QED
        BY <2>3, <4>2, <4>3 DEF p, r, u
    <3> QED
      BY <3>8, <3>9
  <2> QED
    BY <2>2, <2>3
<1>13. Agreeing(b)'
  BY <1>1, <1>12 DEF Agreeing
<1>14. Authors'
  <2>1. \A o \in Devices : o # d => outbox'[o] = outbox[o]
    BY <1>4
  <2>2. \A i \in 1..Len(outbox'[d]) : outbox'[d][i].dev = d
    <3>1. /\ Len(outbox[d]) \in Nat /\ Len(outbox'[d]) = Len(outbox[d]) + 1
          /\ \A i \in 1..Len(outbox[d]) : outbox'[d][i] = outbox[d][i]
          /\ outbox'[d][Len(outbox[d]) + 1] = g
      BY <1>2, <1>4, AppendIs
    <3>2. \A i \in 1..Len(outbox[d]) : outbox[d][i].dev = d
      BY DEF AgreeInv, Authors
    <3>3. \A i \in 1..(Len(outbox[d]) + 1) : i \in 1..Len(outbox[d]) \/ i = Len(outbox[d]) + 1
      BY <3>1
    <3> QED
      BY <1>5, <3>1, <3>2, <3>3
  <2> QED
    BY <1>1, <2>1, <2>2 DEF AgreeInv, Authors
<1> QED
  BY <1>13, <1>14 DEF AgreeInv

\* What a group makes of each entity, and of its version.
LEMMA MergedIs ==
    ASSUME NEW s, NEW m, NEW i \in Nat, Come(s, m, i), NEW chg
    PROVE  LET n == Merged(s, chg) IN
           /\ \A e : e \notin DOMAIN chg =>
                 Get(n.db, e) = Get(s.db, e) /\ Known(n, e) = Known(s, e)
           /\ \A e \in DOMAIN chg :
                 Get(n.db, e) = chg[e].res /\ Known(n, e) = chg[e].old + 1
<1> DEFINE C == DOMAIN chg
           gone == {e \in C : chg[e].res = None}
           w == [e \in C |-> chg[e].res]
           u == [e \in C |-> chg[e].old + 1]
           z == PutAll(s.db, w)
           t == Delete(z, gone)
           v == PutAll(s.ver, u)
           n == Merged(s, chg)
<1>1. s = [db |-> s.db, ver |-> s.ver, read |-> s.read, conflict |-> s.conflict,
           refused |-> s.refused]
  BY DEF Come
<1>2. n = [[s EXCEPT !.db = t] EXCEPT !.ver = v]
  BY DEF Merged
<1>3. DOMAIN w = C /\ \A e \in C : w[e] = chg[e].res
  OBVIOUS
<1>4. DOMAIN u = C /\ \A e \in C : u[e] = chg[e].old + 1
  OBVIOUS
<1>5. n.db = t /\ n.ver = v
  <2> HIDE DEF t, v, n
  <2> QED
    BY <1>1, <1>2
<1> DEFINE x == s.db
           y == s.ver
<1>6. z = PutAll(x, w) /\ t = Delete(z, gone) /\ v = PutAll(y, u)
  OBVIOUS
<1> HIDE DEF t, v, n, w, u, z, x, y
<1>7. /\ DOMAIN z = DOMAIN x \cup C /\ \A e \in C : z[e] = w[e]
      /\ \A e \in DOMAIN x : e \notin C => z[e] = x[e]
  BY <1>3, <1>6 DEF PutAll
<1>8. DOMAIN t = DOMAIN z \ gone /\ \A e \in DOMAIN z : e \notin gone => t[e] = z[e]
  BY ONLY <1>6 DEF Delete, Restrict
<1>9. /\ DOMAIN v = DOMAIN y \cup C /\ \A e \in C : v[e] = u[e]
      /\ \A e \in DOMAIN y : e \notin C => v[e] = y[e]
  BY <1>4, <1>6 DEF PutAll
<1>10. ASSUME NEW e, e \notin C
       PROVE  Get(n.db, e) = Get(x, e) /\ Known(n, e) = Known(s, e)
  <2>1. e \in DOMAIN t <=> e \in DOMAIN x
    BY <1>7, <1>8, <1>10
  <2>2. e \in DOMAIN x => t[e] = x[e]
    BY <1>7, <1>8, <1>10
  <2>3. (e \in DOMAIN v <=> e \in DOMAIN y) /\ (e \in DOMAIN y => v[e] = y[e])
    BY <1>9, <1>10
  <2> QED
    BY <1>5, <2>1, <2>2, <2>3 DEF Get, Known, x, y
<1>11. ASSUME NEW e \in C
       PROVE  Get(n.db, e) = chg[e].res /\ Known(n, e) = chg[e].old + 1
  <2>1. Known(n, e) = chg[e].old + 1
    BY <1>4, <1>5, <1>9 DEF Known
  <2>2. CASE chg[e].res = None
    <3>1. e \notin DOMAIN t
      BY <1>8, <2>2
    <3> QED
      BY <1>5, <2>1, <2>2, <3>1 DEF Get
  <2>3. CASE chg[e].res # None
    <3>1. e \in DOMAIN t /\ t[e] = chg[e].res
      BY <1>3, <1>7, <1>8, <2>3
    <3> QED
      BY <1>5, <2>1, <3>1 DEF Get
  <2> QED
    BY <2>2, <2>3
<1> QED
  BY <1>10, <1>11 DEF n, x

\* What a device has come to after n groups, with t the tables at the start.
Caught(q, d, s, n, t) ==
    /\ s.read \in 0..n /\ (~s.refused => s.read = n)
    /\ ~s.conflict =>
          \A e : View(q, d, s.read, e, Get(s.db, e), Known(s, e), Get(t, e))

\* A group that is accepted replaces the version the device has, or has led to
\* it and leaves the value: either way, the version does not go down.
LEMMA AcceptedIs ==
    ASSUME NEW s, NEW m, NEW i \in Nat, Come(s, m, i), NEW chg, Accepts(s, chg),
           NEW e \in DOMAIN chg, chg[e].old \in Nat
    PROVE  /\ Known(s, e) \in Nat /\ chg[e].old + 1 >= Known(s, e)
           /\ chg[e].old = Known(s, e) \/ chg[e].res = Get(s.db, e)
<1>1. Known(s, e) \in Nat
  BY DEF Known, Come
<1> QED
  BY <1>1 DEF Accepts

\* One group more.
LEMMA ReceiveAgrees ==
    ASSUME NEW q, NEW m, NEW d, NEW s, NEW i \in Nat, NEW t, Come(s, m, i),
           Caught(q, d, s, i, t), Versioned(q), Len(q) \in Nat, i + 1 \in 1..Len(q)
    PROVE  Caught(q, d, Receive(d, s, q[i + 1]), i + 1, t)
<1> DEFINE g == q[i + 1]
           chg == g.chg
           n == Merged(s, chg)
           R == Receive(d, s, g)
<1>1. /\ s = [db |-> s.db, ver |-> s.ver, read |-> s.read, conflict |-> s.conflict,
              refused |-> s.refused]
      /\ s.read \in Nat /\ s.read <= i /\ s.conflict \in BOOLEAN /\ s.refused \in BOOLEAN
  BY DEF Come
<1>2. /\ s.read \in 0..i /\ (~s.refused => s.read = i)
      /\ ~s.conflict =>
            \A e : View(q, d, s.read, e, Get(s.db, e), Known(s, e), Get(t, e))
  BY DEF Caught
<1>3. s.read \in 0..(i + 1)
  BY <1>1
<1>4. CASE s.refused
  <2>1. R = s
    BY <1>4 DEF Receive
  <2> HIDE DEF R
  <2> QED
    BY <1>2, <1>3, <1>4, <2>1 DEF Caught, R
<1>5. CASE ~s.refused /\ g.dev = d
  <2>1. R = [s EXCEPT !.read = @ + 1]
    BY <1>5 DEF Receive
  <2> HIDE DEF R
  <2>2. /\ R.db = s.db /\ R.ver = s.ver /\ R.read = i + 1 /\ R.conflict = s.conflict
    BY <1>1, <1>2, <1>5, <2>1
  <2>3. \A e : ~Others(q, d, i + 1, e) /\ Known(R, e) = Known(s, e)
    BY <1>5, <2>2 DEF Others, Known
  <2>4. ~s.conflict =>
          \A e : View(q, d, i + 1, e, Get(s.db, e), Known(s, e), Get(t, e))
    BY <1>2, <1>5, <2>3, ViewPasses
  <2> QED
    BY <2>2, <2>3, <2>4 DEF Caught, R
<1>6. CASE ~s.refused /\ g.dev # d /\ ~Accepts(s, chg)
  <2>1. R = [s EXCEPT !.read = @ + 1, !.conflict = TRUE]
    BY <1>6 DEF Receive
  <2> HIDE DEF R
  <2>2. R.read = i + 1 /\ R.conflict
    BY <1>1, <1>2, <1>6, <2>1
  <2> QED
    BY <2>2 DEF Caught, R
<1>7. CASE ~s.refused /\ g.dev # d /\ Accepts(s, chg) /\ ~Valid(n.db)
  <2>1. R = [s EXCEPT !.refused = TRUE]
    BY <1>7 DEF Receive
  <2> HIDE DEF R
  <2>2. /\ R.db = s.db /\ R.ver = s.ver /\ R.read = s.read /\ R.conflict = s.conflict
        /\ R.refused
    BY <1>1, <2>1
  <2>3. \A e : Known(R, e) = Known(s, e)
    BY <2>2 DEF Known
  <2> QED
    BY <1>2, <1>3, <2>2, <2>3 DEF Caught, R
<1>8. CASE ~s.refused /\ g.dev # d /\ Accepts(s, chg) /\ Valid(n.db)
  <2>1. R = [n EXCEPT !.read = @ + 1]
    BY <1>8 DEF Receive
  <2>2. /\ \A e : e \notin DOMAIN chg =>
              Get(n.db, e) = Get(s.db, e) /\ Known(n, e) = Known(s, e)
        /\ \A e \in DOMAIN chg :
              Get(n.db, e) = chg[e].res /\ Known(n, e) = chg[e].old + 1
    BY MergedIs
  <2>3. n = [db |-> n.db, ver |-> n.ver, read |-> s.read, conflict |-> s.conflict,
             refused |-> s.refused]
    <3> DEFINE T == Delete(PutAll(s.db, [e \in DOMAIN chg |-> chg[e].res]),
                           {e \in DOMAIN chg : chg[e].res = None})
               V == PutAll(s.ver, [e \in DOMAIN chg |-> chg[e].old + 1])
    <3>1. n = [[s EXCEPT !.db = T] EXCEPT !.ver = V]
      BY DEF Merged
    <3> HIDE DEF T, V, n
    <3>2. n = [db |-> T, ver |-> V, read |-> s.read, conflict |-> s.conflict,
               refused |-> s.refused]
      BY <1>1, <3>1
    <3> QED
      BY <3>2
  <2> HIDE DEF R, n
  <2>4. /\ R.db = n.db /\ R.ver = n.ver /\ R.read = i + 1 /\ R.conflict = s.conflict
    BY <1>1, <1>2, <1>8, <2>1, <2>3
  <2>5. \A e : Known(R, e) = Known(n, e)
    BY <2>4 DEF Known
  <2>6. \A e \in DOMAIN chg : chg[e].old \in Nat
    BY DEF Versioned
  <2>7. ASSUME ~s.conflict, NEW e
        PROVE  View(q, d, i + 1, e, Get(n.db, e), Known(n, e), Get(t, e))
    <3>1. View(q, d, i, e, Get(s.db, e), Known(s, e), Get(t, e))
      BY <1>2, <1>8, <2>7
    <3>2. CASE e \in DOMAIN chg
      <4>1. Others(q, d, i + 1, e)
        BY <1>8, <3>2 DEF Others, Writes
      <4> DEFINE k == Known(s, e)
                 v == Get(s.db, e)
                 l == chg[e].old + 1
      <4>2. /\ k \in Nat /\ l \in Nat /\ l >= k
            /\ chg[e].old = k \/ chg[e].res = v
        BY <1>8, <2>6, <3>2, AcceptedIs
      <4> HIDE DEF k, v, l
      <4>3. View(q, d, i, e, v, k, Get(t, e))
        BY <3>1 DEF k, v
      <4>4. View(q, d, i + 1, e, chg[e].res, l, Get(t, e))
        BY <4>1, <4>2, <4>3, ViewTakes
      <4> QED
        BY <2>2, <3>2, <4>4 DEF l
    <3>3. CASE e \notin DOMAIN chg
      <4>1. ~Others(q, d, i + 1, e)
        BY <3>3 DEF Others, Writes
      <4>2. View(q, d, i + 1, e, Get(s.db, e), Known(s, e), Get(t, e))
        BY <3>1, <4>1, ViewPasses
      <4> QED
        BY <2>2, <3>3, <4>2
    <3> QED
      BY <3>2, <3>3
  <2> QED
    BY <2>4, <2>5, <2>7 DEF Caught, R
<1> QED
  BY <1>4, <1>5, <1>6, <1>7, <1>8

\* A whole cycle.
LEMMA ComesAgree ==
    ASSUME NEW d, NEW lo \in Nat, NEW q, Len(q) \in Nat, lo <= Len(q), NEW now, NEW m, NEW t,
           Come(now, m, lo), \A i \in (lo + 1)..Len(q) : GroupFits(q[i], m), Versioned(q),
           Caught(q, d, now, lo, t), NEW h, Comes(h, d, lo, Len(q), now, q)
    PROVE  Caught(q, d, h[Len(q)], Len(q), t)
<1> DEFINE hi == Len(q)
           P == {k \in Nat : lo + k <= hi => /\ Come(h[lo + k], m, lo + k)
                                             /\ Caught(q, d, h[lo + k], lo + k, t)}
<1>1. \A n \in lo..hi : h[n] = IF n = lo THEN now ELSE Receive(d, h[n - 1], q[n])
  <2> DEFINE B(n) == Body(h, n, d, lo, now, q)
  <2>1. h = [n \in lo..hi |-> B(n)]
    BY DEF Comes
  <2> HIDE DEF B
  <2>2. \A n \in lo..hi : h[n] = B(n)
    BY <2>1
  <2> QED
    BY <2>2 DEF B, Body
<1>2. 0 \in P
  BY <1>1
<1>3. ASSUME NEW k \in Nat, k \in P
      PROVE  k + 1 \in P
  <2> SUFFICES ASSUME lo + (k + 1) <= hi
               PROVE  /\ Come(h[lo + (k + 1)], m, lo + (k + 1))
                      /\ Caught(q, d, h[lo + (k + 1)], lo + (k + 1), t)
    OBVIOUS
  <2> DEFINE n == lo + k
  <2>1. Come(h[n], m, n) /\ Caught(q, d, h[n], n, t)
    BY <1>3
  <2>2. n \in Nat /\ n + 1 \in lo..hi /\ n + 1 # lo /\ n + 1 \in (lo + 1)..hi
        /\ (n + 1) - 1 = n /\ lo + (k + 1) = n + 1 /\ n + 1 \in 1..hi
    OBVIOUS
  <2> HIDE DEF n
  <2>3. h[n + 1] = Receive(d, h[n], q[n + 1])
    BY <1>1, <2>2
  <2>4. GroupFits(q[n + 1], m)
    BY <2>2
  <2>5. Come(h[n + 1], m, n + 1)
    BY <2>1, <2>2, <2>3, <2>4, ReceiveKeeps
  <2>6. Caught(q, d, h[n + 1], n + 1, t)
    BY <2>1, <2>2, <2>3, ReceiveAgrees
  <2> QED
    BY <2>2, <2>5, <2>6
<1> HIDE DEF P
<1>4. Nat \subseteq P
  BY <1>2, <1>3, NumbersInTurn
<1>5. hi - lo \in P /\ lo + (hi - lo) = hi
  BY <1>4
<1> QED
  BY <1>5 DEF P

\* A cycle of one device: it catches up, the others have more to read.
LEMMA SyncAgrees ==
    ASSUME IInv, AgreeInv, NEW d \in Devices, Sync(d)
    PROVE  AgreeInv'
<1> DEFINE all == log \o outbox[d]
           now == [db |-> db[d], ver |-> ver[d], read |-> read[d],
                   conflict |-> conflict[d], refused |-> FALSE]
           lo == read[d]
           hi == Len(all)
           h == CHOOSE g : Comes(g, d, lo, hi, now, all)
           s == h[hi]
<1>1. /\ log' = all /\ outbox' = [outbox EXCEPT ![d] = <<>>]
      /\ db' = [db EXCEPT ![d] = s.db] /\ ver' = [ver EXCEPT ![d] = s.ver]
      /\ read' = [read EXCEPT ![d] = s.read]
      /\ conflict' = [conflict EXCEPT ![d] = s.conflict]
  BY Zenon DEF Sync, Comes, Body
<1>2. /\ TypeOK /\ QueueFits(log, made)
      /\ \A o \in Devices : Good(db[o]) /\ Numbered(DOMAIN db[o], made)
            /\ QueueFits(outbox[o], made)
      /\ db = [o \in Devices |-> db[o]] /\ ver = [o \in Devices |-> ver[o]]
      /\ outbox = [o \in Devices |-> outbox[o]]
  BY SoundIs, Zenon DEF IInv
<1>3. /\ read \in [Devices -> 0..Len(log)] /\ conflict \in [Devices -> BOOLEAN]
      /\ \A o \in Devices : \A e \in DOMAIN ver[o] : ver[o][e] \in Nat \ {0}
  BY <1>2 DEF TypeOK
<1>4. /\ QueueFits(all, made) /\ Len(log) \in Nat /\ Len(log) <= hi /\ hi \in Nat
  BY <1>2, QueueJoins
<1>5. lo \in Nat /\ lo <= hi /\ lo <= Len(log)
  BY <1>3, <1>4
<1>6. now = [db |-> now.db, ver |-> now.ver, read |-> now.read, conflict |-> now.conflict,
             refused |-> now.refused]
      /\ now.db = db[d] /\ now.ver = ver[d] /\ now.read = lo /\ now.conflict = conflict[d]
      /\ now.refused = FALSE
  OBVIOUS
<1>7. /\ Versioned(all) /\ Len(outbox[d]) \in Nat /\ hi = Len(log) + Len(outbox[d])
      /\ \A i \in 1..Len(log) : all[i] = log[i]
      /\ \A i \in (Len(log) + 1)..(Len(log) + Len(outbox[d])) :
            all[i] = outbox[d][i - Len(log)]
  BY <1>2, JoinIs
<1> HIDE DEF all, now, lo, s
<1>8. Come(now, made, lo)
  <2>1. Good(db[d]) /\ Numbered(DOMAIN db[d], made)
    BY <1>2
  <2>2. (\A e \in DOMAIN ver[d] : ver[d][e] \in Nat \ {0}) /\ conflict[d] \in BOOLEAN
    BY <1>3
  <2>3. FALSE \in BOOLEAN /\ lo <= lo
    BY <1>5
  <2> QED
    BY ONLY <1>5, <1>6, <2>1, <2>2, <2>3 DEF Come
<1>9. \A i \in (lo + 1)..hi : GroupFits(all[i], made)
  BY <1>4, <1>5 DEF QueueFits
<1>10. Comes(h, d, lo, hi, now, all)
  <2>1. \E g : Comes(g, d, lo, hi, now, all)
    BY <1>4, <1>5, ComesExists
  <2> QED
    BY <2>1, Zenon
<1> HIDE DEF h, hi
<1>11. PICK t : Agreeing(t)
  BY DEF AgreeInv
<1>12. Caught(all, d, now, lo, t)
  <2>1. ~conflict[d] =>
          \A e : View(all, d, lo, e, Get(db[d], e), Version(d, e), Get(t, e))
    BY <1>11 DEF Agreeing, all, lo
  <2>2. \A e : Known(now, e) = Version(d, e)
    BY <1>6 DEF Known, Version
  <2>3. lo \in 0..lo
    BY <1>5
  <2> QED
    BY <1>6, <2>1, <2>2, <2>3 DEF Caught
<1>13. Caught(all, d, s, hi, t) /\ Come(s, made, hi)
  <2>1. Caught(all, d, h[hi], hi, t)
    BY <1>4, <1>5, <1>7, <1>8, <1>9, <1>10, <1>12, ComesAgree DEF hi
  <2>2. Come(h[hi], made, hi)
    BY <1>4, <1>5, <1>8, <1>9, <1>10, ComesTo DEF hi
  <2> QED
    BY <2>1, <2>2 DEF s
<1>14. \A o \in Devices :
          /\ o # d => /\ db'[o] = db[o] /\ ver'[o] = ver[o] /\ outbox'[o] = outbox[o]
                      /\ read'[o] = read[o] /\ conflict'[o] = conflict[o]
          /\ o = d => /\ db'[o] = s.db /\ ver'[o] = s.ver /\ outbox'[o] = <<>>
                      /\ read'[o] = s.read /\ conflict'[o] = s.conflict
  BY <1>1, <1>2, <1>3
<1>15. ASSUME NEW o \in Devices, ~conflict'[o], NEW e
       PROVE  View(all \o outbox'[o], o, read'[o], e, Get(db'[o], e), Version(o, e)',
                   Get(t, e))
  <2> DEFINE u == Get(t, e)
             p == all \o outbox'[o]
  <2>1. CASE o = d
    <3>1. View(all, d, s.read, e, Get(s.db, e), Known(s, e), u)
      BY <1>13, <1>14, <1>15, <2>1 DEF Caught
    <3>2. Version(d, e)' = Known(s, e)
      BY <1>14 DEF Version, Known
    <3>3. QueueFits(<<>>, made) /\ Len(<<>>) = 0
      BY <1>2, JoinNothing
    <3>4. Len(p) = Len(all) /\ \A i \in 1..Len(all) : p[i] = all[i]
      BY <1>4, <1>14, <2>1, <3>3, JoinIs DEF hi
    <3> DEFINE r == s.read
               v == Get(s.db, e)
               k == Known(s, e)
    <3>5. /\ r \in Nat /\ r <= Len(all) /\ Len(all) \in Nat /\ 0 \in Nat /\ Len(all) <= Len(all)
          /\ Len(p) = Len(all) + 0
          /\ \A i \in (Len(all) + 1)..(Len(all) + 0) : FALSE
          /\ \A i \in (Len(all) + 0 + 1)..Len(p) : FALSE
      BY <1>4, <1>13, <3>4 DEF Come, hi
    <3> HIDE DEF r, v, k, p, u
    <3>6. View(p, d, r, e, v, k, u)
      <4>1. View(all, d, r, e, v, k, u)
        BY <3>1 DEF r, v, k
      <4> QED
        BY <3>4, <3>5, <4>1, ViewWaits
    <3> QED
      BY <1>14, <2>1, <3>2, <3>6 DEF r, v, k, p, u
  <2>2. CASE o # d
    <3> DEFINE q == log \o outbox[o]
               r == read[o]
               v == Get(db[o], e)
               k == Version(o, e)
               n == Len(log)
               m == Len(outbox[d])
    <3>1. View(q, o, r, e, v, k, u)
      BY <1>11, <1>14, <1>15, <2>2 DEF Agreeing
    <3>2. Version(o, e)' = k /\ Get(db'[o], e) = v /\ read'[o] = r
      BY <1>14, <2>2 DEF Version
    <3>3. /\ Len(outbox[o]) \in Nat /\ Len(q) = n + Len(outbox[o])
          /\ \A i \in 1..n : q[i] = log[i]
          /\ \A i \in (n + 1)..(n + Len(outbox[o])) : q[i] = outbox[o][i - n]
      BY <1>2, JoinIs
    <3>4. p = all \o outbox[o]
      BY <1>14, <2>2
    <3>5. /\ Len(p) = Len(all) + Len(outbox[o])
          /\ \A i \in 1..Len(all) : p[i] = all[i]
          /\ \A i \in (Len(all) + 1)..(Len(all) + Len(outbox[o])) :
                p[i] = outbox[o][i - Len(all)]
      BY <1>2, <1>4, <3>4, JoinIs
    <3>6. \A i \in 1..m : outbox[d][i].dev = d
      BY DEF AgreeInv, Authors
    <3> DEFINE l == Len(outbox[o])
               x == outbox[o]
               y == outbox[d]
    <3>7. /\ n \in Nat /\ m \in Nat /\ l \in Nat /\ Len(all) = n + m /\ r \in 0..n
          /\ \A i \in 1..n : all[i] = log[i]
          /\ \A i \in (n + 1)..(n + m) : all[i] = y[i - n]
      BY <1>3, <1>4, <1>7, <3>3 DEF hi
    <3>13. Len(q) = n + l /\ Len(p) = Len(all) + l
      BY <3>3, <3>5
    <3> HIDE DEF q, r, v, k, n, m, l, p, u, x, y
    <3>8. Len(q) = n + l /\ Len(p) = Len(q) + m /\ Len(q) \in Nat /\ r \in Nat /\ r <= n
          /\ n <= Len(q)
      BY <3>7, <3>13
    <3>9. ASSUME NEW i \in 1..n
          PROVE  p[i] = q[i]
      <4>1. i \in 1..Len(all)
        BY <3>7
      <4> QED
        BY <3>3, <3>5, <3>7, <4>1
    <3>10. ASSUME NEW i \in (n + 1)..(n + m)
           PROVE  p[i].dev # o
      <4>1. i \in 1..Len(all) /\ i - n \in 1..m
        BY <3>7
      <4>2. p[i] = y[i - n]
        BY <3>5, <3>7, <4>1
      <4> QED
        BY <2>2, <3>6, <4>1, <4>2 DEF y
    <3>11. ASSUME NEW i \in (n + m + 1)..Len(p)
           PROVE  p[i] = q[i - m]
      <4>1. /\ i \in (Len(all) + 1)..(Len(all) + l) /\ i - m \in (n + 1)..(n + l)
            /\ i - Len(all) = (i - m) - n
        BY <3>7, <3>8
      <4>2. p[i] = x[i - Len(all)]
        BY <3>5, <4>1 DEF l, x
      <4>3. q[i - m] = x[(i - m) - n]
        BY <3>3, <4>1 DEF l, x
      <4> QED
        BY <4>1, <4>2, <4>3
    <3>12. View(p, o, r, e, v, k, u)
      BY <3>1, <3>7, <3>8, <3>9, <3>10, <3>11, ViewWaits
    <3> QED
      BY <3>2, <3>12 DEF p, u
  <2> QED
    BY <2>1, <2>2
<1>16. Agreeing(t)'
  BY <1>1, <1>15 DEF Agreeing
<1>17. Authors'
  <2>1. \A i \in 1..hi : all[i].dev \in Devices
    <3> SUFFICES ASSUME NEW i \in 1..hi
                 PROVE  all[i].dev \in Devices
      OBVIOUS
    <3>1. CASE i <= Len(log)
      <4>1. i \in 1..Len(log)
        BY <1>4, <3>1
      <4> QED
        BY <1>7, <4>1 DEF AgreeInv, Authors
    <3>2. CASE ~(i <= Len(log))
      <4>1. /\ i \in (Len(log) + 1)..(Len(log) + Len(outbox[d]))
            /\ i - Len(log) \in 1..Len(outbox[d])
        BY <1>4, <1>7, <3>2
      <4> QED
        BY <1>7, <4>1 DEF AgreeInv, Authors
    <3> QED
      BY <3>1, <3>2
  <2>2. Len(<<>>) = 0
    BY EmptySeq
  <2>3. \A o \in Devices : \A i \in 1..Len(outbox'[o]) : outbox'[o][i].dev = o
    BY <1>14, <2>2 DEF AgreeInv, Authors
  <2> QED
    BY <1>1, <2>1, <2>3 DEF Authors, hi
<1> QED
  BY <1>16, <1>17 DEF AgreeInv

\* Every step.
LEMMA StepAgrees ==
    IInv /\ AgreeInv /\ [Next]_vars => AgreeInv'
<1> SUFFICES ASSUME IInv, AgreeInv, [Next]_vars
             PROVE  AgreeInv'
  OBVIOUS
<1>1. IInv'
  BY StepKeeps
<1>2. CASE \E d \in Devices : Ledger(d) \/ Planning(d)
  <2>1. PICK d \in Devices : Ledger(d) \/ Planning(d)
    BY <1>2
  <2>2. \E new : Commit(d, new)
    BY <2>1, CommandWrites
  <2> QED
    BY <1>1, <2>2, CommitAgrees
<1>3. CASE \E d \in Devices : ApplyPlanPatch(d)
  <2>1. PICK d \in Devices : ApplyPlanPatch(d)
    BY <1>3
  <2>2. \E new : Commit(d, new)
    BY <2>1, ApplyWrites
  <2> QED
    BY <1>1, <2>2, CommitAgrees
<1>4. CASE \E d \in Devices : Sync(d)
  BY <1>4, SyncAgrees
<1>5. CASE UNCHANGED <<db, ver, outbox, log, read, conflict>>
  BY <1>5 DEF AgreeInv, Authors, Agreeing, Version
<1>6. CASE \E d \in Devices : PreparePlanPatch(d)
  <2>1. UNCHANGED <<db, ver, outbox, log, read, conflict>>
    BY <1>6 DEF PreparePlanPatch
  <2> QED
    BY <1>5, <2>1
<1>7. CASE UNCHANGED vars
  BY <1>5, <1>7 DEF vars
<1> QED
  BY <1>2, <1>3, <1>4, <1>6, <1>7 DEF Next

\* Devices that have everything, and met no conflict, agree.
LEMMA AgreeingAgrees ==
    IInv /\ AgreeInv => Agreement
<1> SUFFICES ASSUME IInv, AgreeInv,
                    \A d \in Devices : outbox[d] = <<>> /\ read[d] = Len(log) /\ ~conflict[d],
                    NEW d \in Devices, NEW o \in Devices
             PROVE  db[d] = db[o]
  BY DEF Agreement
<1>1. QueueFits(log, made) /\ \A x \in Devices : Good(db[x])
  BY SoundIs DEF IInv
<1>2. PICK t : Agreeing(t)
  BY DEF AgreeInv
<1> DEFINE q == log \o <<>>
           n == Len(log)
<1>3. Len(q) = n /\ n \in Nat /\ Versioned(q) /\ \A i \in 1..n : q[i] = log[i]
  <2>1. QueueFits(<<>>, made) /\ Len(<<>>) = 0
    BY <1>1, JoinNothing
  <2>2. /\ Len(log) \in Nat /\ Len(q) = Len(log) + Len(<<>>) /\ Versioned(q)
        /\ \A i \in 1..Len(log) : q[i] = log[i]
    BY <1>1, <2>1, JoinIs
  <2> QED
    BY <2>1, <2>2
<1>4. \A i \in 1..n : q[i].dev \in Devices
  BY <1>3 DEF AgreeInv, Authors
<1>5. \A x \in Devices : \A e :
         View(q, x, n, e, Get(db[x], e), Version(x, e), Get(t, e))
  BY <1>2 DEF Agreeing
<1> HIDE DEF q, n
<1>6. ASSUME NEW e
      PROVE  Get(db[d], e) = Get(db[o], e)
  <2> DEFINE v == [x \in Devices |-> Get(db[x], e)]
             k == [x \in Devices |-> Version(x, e)]
             u == Get(t, e)
  <2>1. \A x \in Devices : v[x] = Get(db[x], e) /\ k[x] = Version(x, e)
    OBVIOUS
  <2> HIDE DEF v, k
  <2>2. Views(q, e, v, k, u)
    BY <1>3, <1>5, <2>1 DEF Views
  <2> HIDE DEF u
  <2>3. Len(q) \in Nat /\ Versioned(q) /\ \A i \in 1..Len(q) : q[i].dev \in Devices
    BY <1>3, <1>4
  <2>4. \A x, y \in Devices : v[x] = v[y]
    BY ONLY <2>2, <2>3, ViewsAgree
  <2> QED
    BY <2>1, <2>4
<1>7. ASSUME NEW x \in Devices
      PROVE  /\ db[x] = [e \in DOMAIN db[x] |-> db[x][e]]
             /\ \A e : e \in DOMAIN db[x] <=> Get(db[x], e) # None
             /\ \A e \in DOMAIN db[x] : db[x][e] = Get(db[x], e)
  <2>1. Table(db[x])
    BY <1>1 DEF Good
  <2> QED
    BY <2>1, NoneIsNoRow DEF Table, Get
<1>8. \A e : e \in DOMAIN db[d] <=> e \in DOMAIN db[o]
  <2> TAKE e
  <2>1. Get(db[d], e) = Get(db[o], e)
    BY <1>6
  <2>2. e \in DOMAIN db[d] <=> Get(db[d], e) # None
    BY <1>7
  <2>3. e \in DOMAIN db[o] <=> Get(db[o], e) # None
    BY <1>7
  <2> QED
    BY ONLY <2>1, <2>2, <2>3
<1>9. ASSUME NEW e \in DOMAIN db[d]
      PROVE  db[d][e] = db[o][e]
  <2>1. Get(db[d], e) = Get(db[o], e) /\ e \in DOMAIN db[o]
    BY <1>6, <1>8
  <2>2. db[d][e] = Get(db[d], e) /\ db[o][e] = Get(db[o], e)
    BY <1>7, <2>1
  <2> QED
    BY <2>1, <2>2
<1>10. /\ db[d] = [e \in DOMAIN db[d] |-> db[d][e]]
       /\ db[o] = [e \in DOMAIN db[o] |-> db[o][e]]
  BY <1>7
<1>11. DOMAIN db[d] = DOMAIN db[o]
  BY <1>8
<1> DEFINE x == db[d]
           y == db[o]
<1>12. x = [e \in DOMAIN x |-> x[e]] /\ y = [e \in DOMAIN y |-> y[e]] /\ DOMAIN x = DOMAIN y
       /\ \A e \in DOMAIN x : x[e] = y[e]
  BY <1>9, <1>10, <1>11
<1> HIDE DEF x, y
<1>13. x = y
  BY ONLY <1>12
<1> QED
  BY <1>13 DEF x, y

\* Whoever exchanges what in whatever order: devices that sent and read
\* everything, met no conflict and could apply every group hold the same tables
\* (applyRemoteGroup in operation-repository.ts).
THEOREM DevicesAgree ==
    Spec => []Agreement
<1>1. Init => IInv /\ AgreeInv
  BY InitHolds, AgreeBegins
<1>2. (IInv /\ AgreeInv) /\ [Next]_vars => (IInv /\ AgreeInv)'
  BY StepKeeps, StepAgrees
<1>3. IInv /\ AgreeInv => Agreement
  BY AgreeingAgrees
<1> QED
  BY <1>1, <1>2, <1>3, PTL DEF Spec

=============================================================================
