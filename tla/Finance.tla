------------------------------- MODULE Finance -------------------------------
(***************************************************************************)
(* The finance tables of the devices of one vault: the commands that       *)
(* change them (src/src/db/commands.ts), the rules between the tables that *)
(* backup, import and sync insist on (src/src/domain/integrity.ts), plan   *)
(* patches prepared and applied later (src/src/features/ai-plan), and what *)
(* the devices make of each other's changes                                *)
(* (src/src/db/sync/operation-repository.ts, applyRemoteGroup).            *)
(*                                                                         *)
(* There is one entity of each kind of plan, one occurrence of the         *)
(* commitment and one of the income; every expense has the one category,   *)
(* every income the other; budgets and salary scenarios only refer to      *)
(* others, as the preset does, and stand behind it.  A command             *)
(* that validates before its transaction is one step, and so is a sync     *)
(* cycle (OperationSync takes the cycle apart).                            *)
(*                                                                         *)
(* A definition X_Y (HasFunds_Mistake for HasFunds) is a plausible mistake *)
(* in X; the specification never uses it.                                  *)
(***************************************************************************)
EXTENDS Integers, Sequences, FiniteSets, FiniteSetsExt, Functions

CONSTANTS
    Devices, None,
    Cash, Stash, Spare,    \* accounts; Stash is the goal's protected one
    Costs, Wages,          \* an expense and an income category
    Rent, Salary,          \* a commitment and a planned income
    Trip, Visit, Loan,     \* a goal, the event it saves for, a debt
    Preset, Settings,
    NewAccount, NewGoal,   \* what a patch may add
    Commands,              \* the commands the users give
    MaxCommands            \* how many they give in all (bound)

VARIABLES
    db,        \* each device's finance tables: entity -> value
    ver,       \* syncEntityStates: the version of each known entity
    outbox,    \* mutation groups not sent yet
    log,       \* the groups the service accepted
    read,      \* how much of log each device has dealt with
    conflict,  \* did a group of another device end in conflict records?
    refused,   \* did applying the next group fail the whole cycle?
    patch,     \* a patch the user is looking at, as preparePlanPatch left it
    made       \* commands given so far, by device

vars == <<db, ver, outbox, log, read, conflict, refused, patch, made>>

-----------------------------------------------------------------------------
(* Tables.                                                                 *)

Account(open, prot) == [is |-> "account", open |-> open, prot |-> prot, arch |-> FALSE]
Category(kind) == [is |-> "category", kind |-> kind]
Commitment == [is |-> "commitment", acc |-> Cash, active |-> TRUE]
Income == [is |-> "income", amt |-> 1, acc |-> Cash, active |-> TRUE]
Goal(acc) == [is |-> "goal", acc |-> acc, sinking |-> TRUE, used |-> FALSE,
              arch |-> FALSE, target |-> 2]
Event == [is |-> "event", acc |-> Stash, goal |-> Trip, paid |-> None]
Debt == [is |-> "debt", orig |-> 2, status |-> "open"]
Default(kind, acc) == [is |-> kind, acc |-> acc]

\* A ledger row.  key is its occurrenceKey, of the plan or payment it realizes.
Tx(type, amt, from, to, src) ==
    [is |-> "tx", type |-> type, amt |-> amt, from |-> from, to |-> to,
     src |-> src, key |-> None, of |-> None]
FundingOf(e) == <<"funding", e>>
Payment(amt, tx) == [is |-> "payment", debt |-> Loan, amt |-> amt, tx |-> tx]

\* The ids of the entities: those of the plan have names, a command numbers
\* the rows it writes (device None: the rows there were before).
Names == <<Cash, Stash, Spare, NewAccount, Costs, Wages, Rent, Salary, Trip, NewGoal,
           Visit, Loan, Preset, Settings, None>>
AccountIds == {Cash, Stash, Spare, NewAccount}
GoalIds == {Trip, NewGoal}
TxIds == {"tx", "funding"} \X (Devices \cup {None}) \X Nat
PaymentIds == {"payment"} \X (Devices \cup {None}) \X Nat
Ids == {Names[i] : i \in 1..14} \cup TxIds \cup PaymentIds

\* The rows of each table; what a user types as an amount is 1 or 2 (bound).
Amounts == Nat \ {0}
Accounts == [is : {"account"}, open : Int, prot : BOOLEAN, arch : BOOLEAN]
Categories == [is : {"category"}, kind : {"expense", "income"}]
Commitments == [is : {"commitment"}, acc : AccountIds, active : BOOLEAN]
Incomes == [is : {"income"}, amt : Amounts, acc : AccountIds, active : BOOLEAN]
Goals == [is : {"goal"}, acc : AccountIds, sinking : BOOLEAN, used : BOOLEAN,
          arch : BOOLEAN, target : Amounts]
Events == [is : {"event"}, acc : AccountIds, goal : GoalIds \cup {None},
           paid : TxIds \cup {None}]
Debts == [is : {"debt"}, orig : Amounts, status : {"open", "paid"}]
Defaults(kind) == [is : {kind}, acc : AccountIds \cup {None}]
Payments == [is : {"payment"}, debt : {Loan}, amt : Amounts, tx : TxIds \cup {None}]
Transactions ==
    {x \in [is : {"tx"}, type : {"expense", "income", "transfer", "adjustment"},
            amt : Int, from : AccountIds, to : AccountIds \cup {None},
            src : {"manual", "commitment", "planned-income", "planned-event", "goal",
                   "debt", "adjustment"},
            key : {None, Rent, Salary, FundingOf(Rent), FundingOf(Visit)},
            of : {None, Salary, Visit} \cup GoalIds \cup PaymentIds] :
       /\ x.type # "adjustment" => x.amt > 0
       /\ x.src = "commitment" => x.amt \in 1..2
       /\ x.src = "manual" /\ x.key = None => x.amt \in 1..2
       /\ x.src \in {"manual", "commitment", "adjustment"} => x.of = None
       /\ x.key \in {FundingOf(Rent), FundingOf(Visit)} => x.src = "manual"
       /\ x.src = "planned-event" => x.of = Visit
       /\ x.src = "goal" => x.of \in GoalIds
       /\ x.src = "debt" => x.of \in PaymentIds}

\* parseFinanceData: every row is one of its table.
Conforms(t) ==
    /\ DOMAIN t \subseteq Ids
    /\ \A e \in DOMAIN t :
          /\ e \in AccountIds => t[e] \in Accounts
          /\ e \in {Costs, Wages} => t[e] \in Categories
          /\ e = Rent => t[e] \in Commitments
          /\ e = Salary => t[e] \in Incomes
          /\ e \in GoalIds => t[e] \in Goals
          /\ e = Visit => t[e] \in Events
          /\ e = Loan => t[e] \in Debts
          /\ e = Preset => t[e] \in Defaults("preset")
          /\ e = Settings => t[e] \in Defaults("settings")
          /\ e \in TxIds => t[e] \in Transactions
          /\ e \in PaymentIds => t[e] \in Payments

\* The names are different things, neither numbered ids nor rows.
ASSUME FinanceAssumption ==
    /\ IsInjective(Names)
    /\ \A i \in DOMAIN Names :
          /\ Names[i] \notin TxIds \cup PaymentIds
          /\ Names[i] \notin {FundingOf(Rent), FundingOf(Visit)}
    /\ None \notin Accounts \cup Categories \cup Commitments \cup Incomes \cup Goals
                  \cup Events \cup Debts \cup Defaults("preset")
                  \cup Defaults("settings") \cup Payments \cup Transactions
    /\ None \notin Devices /\ MaxCommands \in Nat

Get(t, e) == IF e \in DOMAIN t THEN t[e] ELSE None
Put(t, e, value) == [x \in DOMAIN t \cup {e} |-> IF x = e THEN value ELSE t[x]]
PutAll(t, new) ==
    [x \in DOMAIN t \cup DOMAIN new |-> IF x \in DOMAIN new THEN new[x] ELSE t[x]]
Delete(t, gone) == Restrict(t, DOMAIN t \ gone)

Rows(t, kind) == {e \in DOMAIN t : t[e].is = kind}
Txs(t) == Rows(t, "tx")
Keyed(t, key) == {x \in Txs(t) : t[x].key = key}
On(t, acc) == {x \in Txs(t) : acc \in {t[x].from, t[x].to}}

\* calculateAccountBalances.
Effect(x, acc) ==
    IF x.type = "transfer"
    THEN (IF x.to = acc THEN x.amt ELSE 0) - (IF x.from = acc THEN x.amt ELSE 0)
    ELSE IF x.from # acc THEN 0 ELSE IF x.type = "expense" THEN -x.amt ELSE x.amt
Balance(t, acc) == t[acc].open + SumFunction([x \in Txs(t) |-> Effect(t[x], acc)])

\* calculateDebtProgress.
Paid(t, debt) ==
    SumFunction([p \in {q \in Rows(t, "payment") : t[q].debt = debt} |-> t[p].amt])
Remaining(t, debt) == Max({0, t[debt].orig - Paid(t, debt)})

\* The plan as it is set up; the tables after a visit was paid from the savings,
\* topped up from cash, and a friend repaid half of the loan; and after the
\* salary came in, a part of it was saved, and the rent was paid from that.
Plan ==
    [e \in {Cash, Stash, Spare, Costs, Wages, Rent, Salary, Trip, Visit, Loan, Preset,
           Settings} |->
        CASE e = Cash -> Account(2, FALSE) [] e = Stash -> Account(1, TRUE)
          [] e = Spare -> Account(0, FALSE)
          [] e = Costs -> Category("expense") [] e = Wages -> Category("income")
          [] e = Rent -> Commitment [] e = Salary -> Income [] e = Trip -> Goal(Stash)
          [] e = Visit -> Event [] e = Loan -> Debt
          [] e = Preset -> Default("preset", Cash)
          [] e = Settings -> Default("settings", Cash)]
Lived ==
    LET tx == <<"tx", None, 0>>
        funding == <<"funding", None, 0>>
        payment == <<"payment", None, 0>>
    IN  PutAll(Plan, [e \in {tx, funding, payment, Visit, Trip} |->
            CASE e = tx -> [Tx("expense", 2, Stash, None, "planned-event") EXCEPT !.of = Visit]
              [] e = funding -> [Tx("transfer", 1, Cash, Stash, "manual")
                                   EXCEPT !.key = FundingOf(Visit)]
              [] e = payment -> Payment(1, None)
              [] e = Visit -> [Event EXCEPT !.paid = tx]
              [] e = Trip -> [Goal(Stash) EXCEPT !.used = TRUE]])
Busy ==
    LET tx(n) == <<"tx", None, n>>
        funding == <<"funding", None, 0>>
    IN  PutAll(Plan, [e \in {tx(0), tx(1), tx(2), funding} |->
            CASE e = tx(0) -> [Tx("expense", 1, Cash, None, "commitment") EXCEPT !.key = Rent]
              [] e = tx(1) -> [Tx("income", 1, Cash, None, "planned-income")
                                 EXCEPT !.key = Salary, !.of = Salary]
              [] e = tx(2) -> [Tx("transfer", 1, Cash, Stash, "goal") EXCEPT !.of = Trip]
              [] e = funding -> [Tx("transfer", 1, Stash, Cash, "manual")
                                   EXCEPT !.key = FundingOf(Rent)]])

-----------------------------------------------------------------------------
(* assertFinanceDataIntegrity.                                             *)

AccountsKnown(t) ==
    /\ \A x \in Txs(t) :
          /\ t[x].from \in DOMAIN t
          /\ t[x].type = "transfer" => t[x].to \in DOMAIN t /\ t[x].to # t[x].from
    /\ \A e \in DOMAIN t :
          t[e].is \in {"commitment", "income", "goal", "event"} => t[e].acc \in DOMAIN t
    /\ \A e \in DOMAIN t :
          t[e].is \in {"preset", "settings"} /\ t[e].acc # None => t[e].acc \in DOMAIN t

KeysUnique(t) ==
    \A x, y \in Txs(t) : t[x].key # None /\ t[x].key = t[y].key => x = y

PlansRealized(t) ==
    \A x \in Txs(t) :
       /\ t[x].src = "commitment" => t[x].key = Rent /\ Rent \in DOMAIN t
       /\ t[x].src = "planned-income" <=> t[x].of = Salary
       /\ t[x].of = Salary => Salary \in DOMAIN t /\ t[x].key = Salary
       /\ t[x].src = "goal" =>
             t[x].of \in DOMAIN t /\ t[x].to = t[t[x].of].acc

FundingPaired(t) ==
    \A f \in Keyed(t, FundingOf(Rent)) :
       /\ t[t[f].from].prot /\ ~t[t[f].to].prot
       /\ \E x \in Keyed(t, Rent) :
             t[x].src = "commitment" /\ t[x].from = t[f].to /\ t[x].amt = t[f].amt

EventsPaired(t) ==
    /\ \A x \in Txs(t) : t[x].src = "planned-event" =>
          t[x].of \in DOMAIN t /\ t[t[x].of].paid = x
    /\ \A e \in Rows(t, "event") :
          /\ t[e].goal # None => t[e].goal \in DOMAIN t
          /\ t[e].paid # None => t[e].paid \in DOMAIN t /\ t[t[e].paid].of = e

GoalsKept(t) ==
    \A g \in Rows(t, "goal") :
       /\ t[t[g].acc].prot
       /\ \A h \in Rows(t, "goal") : t[h].acc = t[g].acc => h = g
       /\ t[g].used =>
             /\ t[g].sinking
             /\ \E e \in Rows(t, "event") :
                   t[e].goal = g /\ t[e].acc = t[g].acc /\ t[e].paid # None

DebtsPaired(t) ==
    /\ \A x \in Txs(t) : t[x].src = "debt" =>
          t[x].of \in DOMAIN t /\ t[t[x].of].tx = x /\ t[t[x].of].amt = t[x].amt
    /\ \A p \in Rows(t, "payment") :
          /\ t[p].debt \in DOMAIN t
          /\ t[p].tx # None => t[p].tx \in DOMAIN t /\ t[t[p].tx].of = p
    /\ \A b \in Rows(t, "debt") : Paid(t, b) <= t[b].orig

KindsMatch(t) ==
    /\ \/ Get(t, Costs) = Category("expense")
       \/ /\ ~\E x \in Txs(t) : t[x].type = "expense"
          /\ Rows(t, "commitment") \cup Rows(t, "event") \cup Rows(t, "preset") = {}
    /\ \/ Get(t, Wages) = Category("income")
       \/ ~\E x \in Txs(t) : t[x].type = "income"
          /\ Rows(t, "income") = {}

Linked(t) ==
    /\ AccountsKnown(t) /\ KeysUnique(t) /\ PlansRealized(t) /\ FundingPaired(t)
    /\ EventsPaired(t) /\ GoalsKept(t) /\ DebtsPaired(t)
Valid(t) == Linked(t) /\ KindsMatch(t) /\ Settings \in DOMAIN t

-----------------------------------------------------------------------------
Init ==
    /\ \E t \in {Plan, Lived, Busy} : db = [d \in Devices |-> t]
    /\ ver = [d \in Devices |-> <<>>]
    /\ outbox = [d \in Devices |-> <<>>] /\ log = <<>>
    /\ read = [d \in Devices |-> 0] /\ made = read
    /\ conflict = [d \in Devices |-> FALSE] /\ refused = conflict
    /\ patch = [d \in Devices |-> None]

Version(d, e) ==
    IF e \in DOMAIN ver[d] THEN ver[d][e] ELSE IF e \in DOMAIN db[d] THEN 1 ELSE 0

\* auditedFinanceTransaction: write the tables, and one mutation group with
\* what really changed.
Commit(d, new) ==
    LET touched == {e \in DOMAIN new \cup DOMAIN db[d] : Get(new, e) # Get(db[d], e)}
        change(e) == [pre |-> Get(db[d], e), old |-> Version(d, e), res |-> Get(new, e)]
    IN  /\ touched # {}
        /\ db' = [db EXCEPT ![d] = new]
        /\ outbox' = [outbox EXCEPT ![d] =
                        Append(@, [dev |-> d, chg |-> [e \in touched |-> change(e)]])]
        /\ ver' = [ver EXCEPT ![d] = PutAll(@, [e \in touched |-> Version(d, e) + 1])]
        /\ UNCHANGED <<log, read, conflict, refused>>

Gives(d, command) ==
    /\ command \in Commands /\ SumFunction(made) < MaxCommands
    /\ made' = [made EXCEPT ![d] = @ + 1]
Does(d, new) == Commit(d, new) /\ UNCHANGED patch

NewTx(d) == <<"tx", d, made[d] + 1>>
NewFunding(d) == <<"funding", d, made[d] + 1>>
NewPayment(d) == <<"payment", d, made[d] + 1>>

Active(t, acc) == acc \in Rows(t, "account") /\ ~t[acc].arch
IsSavings(t, acc) == Active(t, acc) /\ t[acc].prot
IsSpendable(t, acc) == Active(t, acc) /\ ~t[acc].prot

\* requireAvailableFunds.
HasFunds_Mistake(t, acc, amt) == t[acc].open >= amt
HasFunds(t, acc, amt) == Balance(t, acc) >= amt

\* canLinkCommitmentExpense and saveTransaction: not part of another flow.
Independent(x) == x.src = "manual" /\ x.key = None /\ x.of = None

\* isGoalCompletionEvent.
Completes(t, g, e) ==
    g \in DOMAIN t /\ t[g].sinking /\ t[e].goal = g /\ t[e].acc = t[g].acc

-----------------------------------------------------------------------------
(* The ledger.                                                             *)

\* The accounts money is moved on by hand.
Daily(t) == {Cash, Stash} \cap Rows(t, "account")

\* saveTransaction: a new row, or another amount for an old one.
WrittenByHand(d) ==
    {<<NewTx(d), Tx(type, 1, from, to, "manual")>> :
        type \in {"expense", "income", "transfer"},
        from \in Daily(db[d]), to \in Daily(db[d]) \cup {None}}
    \cup {<<x, [db[d][x] EXCEPT !.amt = 3 - @]>> : x \in Txs(db[d])}

SaveTransaction(d) == Gives(d, "saveTransaction") /\
    \E w \in WrittenByHand(d) :
       LET t == db[d]
           x == w[1]
           old == Get(t, x)
           new == Put(t, x, w[2])
       IN  /\ (w[2].type = "transfer") = (w[2].to # None) /\ w[2].from # w[2].to
           /\ w[2].type = "expense" => Get(t, Costs) = Category("expense")
           /\ w[2].type = "income" => Get(t, Wages) = Category("income")
           /\ old # None => Independent(old)
           /\ \A acc \in Rows(t, "account") :
                 acc \in {w[2].from, w[2].to} => Balance(new, acc) >= 0
           /\ Does(d, new)

\* The transfers that go with a row, and the tables without what hangs on it:
\* the event it paid, the goal that used up, the repayment it was.
PaysFor(t, x, e) == e \in Rows(t, "event") /\ t[e].paid = x
FundingGone_Mistake(t, x) == {}
FundingGone(t, x) ==
    (IF t[x].src = "commitment" THEN Keyed(t, FundingOf(t[x].key)) ELSE {})
    \cup (IF PaysFor(t, x, t[x].of) THEN Keyed(t, FundingOf(t[x].of)) ELSE {})

Unpaid(t, x) ==
    IF ~PaysFor(t, x, t[x].of) THEN t
    ELSE LET e == t[x].of
             g == t[e].goal
             others == {o \in Rows(t, "event") \ {e} :
                          t[o].goal = g /\ t[o].paid # None /\ Completes(t, g, o)}
             reopen == g # None /\ Completes(t, g, e) /\ t[g].used /\ others = {}
             unpaid == Put(t, e, [t[e] EXCEPT !.paid = None])
         IN  IF reopen THEN Put(unpaid, g, [t[g] EXCEPT !.used = FALSE]) ELSE unpaid

Unrepaid(t, x) ==
    IF ~(t[x].of \in Rows(t, "payment") /\ t[t[x].of].tx = x) THEN t
    ELSE LET debt == t[t[x].of].debt
             rest == Delete(t, {t[x].of})
         IN  Put(rest, debt, [rest[debt] EXCEPT
                 !.status = IF Remaining(rest, debt) = 0 THEN "paid" ELSE "open"])

DeleteTransaction(d) == Gives(d, "deleteTransaction") /\
    \E x \in Txs(db[d]) :
       LET t == db[d]
           new == Delete(Unrepaid(Unpaid(t, x), x), {x} \cup FundingGone(t, x))
       IN  /\ t[x].key = FundingOf(Rent) => Keyed(t, Rent) = {}
           /\ t[x].key = FundingOf(Visit) => Get(t, Visit) = None \/ t[Visit].paid = None
           /\ \A acc \in Rows(t, "account") : Balance(new, acc) >= 0
           /\ Does(d, new)

AdjustAccountBalance(d) == Gives(d, "adjustAccountBalance") /\
    \E acc \in Daily(db[d]), target \in 0..2 :
       LET delta == target - Balance(db[d], acc) IN
       /\ delta # 0
       /\ Does(d, Put(db[d], NewTx(d), Tx("adjustment", delta, acc, None, "adjustment")))

-----------------------------------------------------------------------------
(* Paying what is planned.                                                 *)

\* requireCommitmentOccurrence: an inactive commitment has none.
Planned(t) == Rent \in DOMAIN t /\ t[Rent].active

\* Pay the occurrence, from savings moved over first if the user says so.
MarkCommitmentPaid(d) == Gives(d, "markCommitmentPaid") /\
    \E acc \in Rows(db[d], "account"), savings \in Rows(db[d], "account") \cup {None},
       amt \in 1..2 :
       LET t == db[d]
           funding == [Tx("transfer", amt, savings, acc, "manual")
                         EXCEPT !.key = FundingOf(Rent)]
           funded == IF savings = None THEN t ELSE Put(t, NewFunding(d), funding)
           payment == [Tx("expense", amt, acc, None, "commitment") EXCEPT !.key = Rent]
       IN  /\ Planned(t) /\ Active(t, acc) /\ Get(t, Costs) = Category("expense")
           /\ Keyed(t, Rent) = {}
           /\ savings # None =>
                 IsSavings(t, savings) /\ IsSpendable(t, acc) /\ HasFunds(t, savings, amt)
           /\ HasFunds(funded, acc, amt)
           /\ Does(d, Put(funded, NewTx(d), payment))

LinkTransactionToCommitment(d) == Gives(d, "linkTransactionToCommitment") /\
    \E x \in Txs(db[d]) :
       LET t == db[d] IN
       /\ Planned(t) /\ Keyed(t, Rent) = {}
       /\ t[x].type = "expense" /\ Independent(t[x])
       /\ Does(d, Put(t, x, [t[x] EXCEPT !.src = "commitment", !.key = Rent]))

\* An expense that brought its savings along goes with them, or not at all.
Unlinkable(t, x) == t[x].src = "commitment" /\ Keyed(t, FundingOf(t[x].key)) = {}

UnlinkCommitmentPayment(d) == Gives(d, "unlinkCommitmentPayment") /\
    \E x \in Txs(db[d]) :
       /\ Unlinkable(db[d], x)
       /\ Does(d, Put(db[d], x, [db[d][x] EXCEPT !.src = "manual", !.key = None]))

\* getPlannedIncomeOccurrences: an active plan has its one occurrence here.
Expected(t) == Salary \in DOMAIN t /\ t[Salary].active

MarkPlannedIncomeReceived(d) == Gives(d, "markPlannedIncomeReceived") /\
    \E acc \in Daily(db[d]) :
       LET t == db[d]
           row == [Tx("income", t[Salary].amt, acc, None, "planned-income")
                     EXCEPT !.key = Salary, !.of = Salary]
       IN  /\ Expected(t) /\ Keyed(t, Salary) = {}
           /\ Get(t, Wages) = Category("income")
           /\ Does(d, Put(t, NewTx(d), row))

\* Pay an event; only a savings account is topped up, and paying from another
\* account than planned moves the event there and completes no goal.  (A row
\* that names an unpaid event is taken for its payment; LinksHold has none.)
MarkPlannedEventPaid(d) == Gives(d, "markPlannedEventPaid") /\
    \E acc, topUp \in Rows(db[d], "account"), amt \in 1..2 :
       LET t == db[d]
           e == t[Visit]
           short == Max({0, amt - Balance(t, acc)})
           funding == [Tx("transfer", short, topUp, acc, "manual")
                         EXCEPT !.key = FundingOf(Visit)]
           payment == [Tx("expense", amt, acc, None, "planned-event") EXCEPT !.of = Visit]
           done == acc = e.acc /\ e.goal # None /\ Completes(t, e.goal, Visit)
           toppedUp == IF short > 0 THEN Put(t, NewFunding(d), funding) ELSE t
           paid == Put(Put(toppedUp, NewTx(d), payment),
                       Visit, [e EXCEPT !.acc = acc, !.paid = NewTx(d)])
       IN  /\ Visit \in DOMAIN t /\ e.paid = None
           /\ {x \in Txs(t) : t[x].of = Visit} = {}
           /\ Get(t, Costs) = Category("expense")
           /\ short > 0 => /\ t[acc].prot /\ ~t[topUp].prot
                           /\ Balance(t, topUp) >= short
                           /\ Keyed(t, FundingOf(Visit)) = {}
           /\ Does(d, IF done THEN Put(paid, e.goal, [t[e.goal] EXCEPT !.used = TRUE])
                      ELSE paid)

WithdrawFromGoal(d) == Gives(d, "withdrawFromGoal") /\
    \E g \in Rows(db[d], "goal"), to \in Rows(db[d], "account") :
       LET t == db[d] IN
       /\ ~t[g].arch /\ ~t[g].used
       /\ IsSavings(t, t[g].acc) /\ IsSpendable(t, to) /\ HasFunds(t, t[g].acc, 1)
       /\ Does(d, Put(t, NewTx(d), Tx("transfer", 1, t[g].acc, to, "manual")))

ContributeToGoal(d) == Gives(d, "contributeToGoal") /\
    \E g \in Rows(db[d], "goal"), from \in Rows(db[d], "account"), amt \in 1..2 :
       LET t == db[d]
           missing == Max({0, t[g].target - Max({0, Balance(t, t[g].acc)})})
       IN  /\ ~t[g].arch /\ ~(t[g].sinking /\ t[g].used)
           /\ ~t[from].prot /\ t[t[g].acc].prot
           /\ amt <= missing /\ HasFunds(t, from, amt)
           /\ Does(d, Put(t, NewTx(d), [Tx("transfer", amt, from, t[g].acc, "goal")
                                       EXCEPT !.of = g]))

\* recordDebtPayment: acc is None when somebody else pays.
Settles_Mistake(t, amt) == amt > Remaining(t, Loan)
Settles(t, amt) == amt = Remaining(t, Loan)

RecordDebtPayment(d) == Gives(d, "recordDebtPayment") /\
    \E acc \in Rows(db[d], "account") \cup {None}, amt \in 1..2 :
       LET t == db[d]
           row == [Tx("expense", amt, acc, None, "debt") EXCEPT !.of = NewPayment(d)]
           own == acc # None
           spent == IF own THEN Put(t, NewTx(d), row) ELSE t
           repaid == Put(spent, NewPayment(d), Payment(amt, IF own THEN NewTx(d) ELSE None))
       IN  /\ Loan \in DOMAIN t /\ amt <= Remaining(t, Loan)
           /\ own => Get(t, Costs) = Category("expense") /\ HasFunds(t, acc, amt)
           /\ Does(d, IF Settles(t, amt)
                      THEN Put(repaid, Loan, [t[Loan] EXCEPT !.status = "paid"])
                      ELSE repaid)

-----------------------------------------------------------------------------
(* The plan itself.                                                        *)

\* saveAccount: what savings are for is fixed once there is history or a goal.
KeepsPurpose(t, acc) ==
    On(t, acc) = {} /\ {g \in Rows(t, "goal") : t[g].acc = acc} = {}

SaveAccount(d) == Gives(d, "saveAccount") /\
    \E acc \in {Cash, Stash, Spare} :
       LET t == db[d]
           old == IF acc \in DOMAIN t THEN t[acc] ELSE Account(0, FALSE)
       IN  \E value \in {[old EXCEPT !.open = IF @ = 0 THEN 1 ELSE 0],
                         [old EXCEPT !.prot = ~@], [old EXCEPT !.arch = ~@]} :
              LET new == Put(t, acc, value) IN
              /\ acc \in DOMAIN t /\ value.prot # old.prot => KeepsPurpose(t, acc)
              /\ Balance(new, acc) >= 0
              /\ Does(d, new)

\* What keeps an account, or a category, from being deleted.
Refer(t, acc) ==
    On(t, acc) \cup
    {e \in DOMAIN t : /\ t[e].is \in {"commitment", "income", "goal", "event", "preset",
                                      "settings"}
                      /\ t[e].acc = acc}

DeleteAccount(d) == Gives(d, "deleteAccount") /\
    \E acc \in Rows(db[d], "account") :
       /\ Refer(db[d], acc) = {}
       /\ Does(d, Delete(db[d], {acc}))

Uses(t, category) ==
    IF category = Costs
    THEN {x \in Txs(t) : t[x].type = "expense"}
         \cup Rows(t, "commitment") \cup Rows(t, "event") \cup Rows(t, "preset")
    ELSE {x \in Txs(t) : t[x].type = "income"} \cup Rows(t, "income")

\* saveCategory: nothing looks at who uses the category it changes.
SaveCategory(d) == Gives(d, "saveCategory") /\
    \E c \in Rows(db[d], "category") :
       LET other == IF db[d][c].kind = "expense" THEN "income" ELSE "expense"
       IN  Does(d, Put(db[d], c, Category(other)))

DeleteCategory(d) == Gives(d, "deleteCategory") /\
    \E c \in Rows(db[d], "category") :
       Uses(db[d], c) = {} /\ Does(d, Delete(db[d], {c}))

Edited(t, e) ==
    {[t[e] EXCEPT !.acc = acc] : acc \in Rows(t, "account")}
    \cup {[t[e] EXCEPT !.active = ~@]}

SaveCommitment(d) ==
    /\ Gives(d, "saveCommitment")
    /\ Rent \in DOMAIN db[d] /\ Get(db[d], Costs) = Category("expense")
    /\ \E value \in Edited(db[d], Rent) :
          Does(d, Put(db[d], Rent, value))

\* deleteCommitment, deletePlannedIncome: what was ever realized only retires.
Retired(t, e, history) ==
    IF history = {} THEN Delete(t, {e}) ELSE Put(t, e, [t[e] EXCEPT !.active = FALSE])

DeleteCommitment(d) ==
    /\ Gives(d, "deleteCommitment")
    /\ Rent \in DOMAIN db[d]
    /\ Does(d, Retired(db[d], Rent, {x \in Keyed(db[d], Rent) : db[d][x].src = "commitment"}))

SavePlannedIncome(d) ==
    /\ Gives(d, "savePlannedIncome")
    /\ Salary \in DOMAIN db[d] /\ Get(db[d], Wages) = Category("income")
    /\ \E value \in Edited(db[d], Salary) :
          Does(d, Put(db[d], Salary, value))

DeletePlannedIncome(d) ==
    /\ Gives(d, "deletePlannedIncome")
    /\ Salary \in DOMAIN db[d]
    /\ Does(d, Retired(db[d], Salary, {x \in Txs(db[d]) : db[d][x].of = Salary}))

\* saveGoal: one savings account for one goal, kept once money moved on it,
\* and used only as long as the event it was for is paid.
SaveGoal(d) == Gives(d, "saveGoal") /\
    \E g \in {Trip, NewGoal}, acc \in Rows(db[d], "account"), sinking, arch \in BOOLEAN :
       LET t == db[d]
           old == IF g \in DOMAIN t THEN t[g] ELSE Goal(acc)
           value == [old EXCEPT !.acc = acc, !.sinking = sinking, !.arch = arch]
           new == Put(t, g, value)
       IN  /\ value.used => value.sinking
           /\ \A h \in Rows(t, "goal") : t[h].acc = acc => h = g
           /\ t[acc].prot
           /\ value.used =>
                 \E e \in Rows(t, "event") : t[e].paid # None /\ Completes(new, g, e)
           /\ old.acc # acc => On(t, old.acc) = {}
           /\ Does(d, new)

DeleteGoal(d) == Gives(d, "deleteGoal") /\
    \E g \in Rows(db[d], "goal") :
       LET t == db[d]
           history == On(t, t[g].acc) \cup {x \in Txs(t) : t[x].of = g}
                      \cup {e \in Rows(t, "event") : t[e].goal = g}
       IN  Does(d, IF history = {} THEN Delete(t, {g})
                ELSE Put(t, g, [t[g] EXCEPT !.arch = TRUE]))

SaveDebt(d) == Gives(d, "saveDebt") /\
    \E orig \in 1..2, status \in {"open", "paid"} :
       /\ Loan \in DOMAIN db[d]
       /\ Paid(db[d], Loan) <= orig
       /\ (Paid(db[d], Loan) = orig) = (status = "paid")
       /\ Does(d, Put(db[d], Loan,
                [db[d][Loan] EXCEPT !.orig = orig, !.status = status]))

DeleteDebt(d) ==
    /\ Gives(d, "deleteDebt")
    /\ Loan \in DOMAIN db[d] /\ Rows(db[d], "payment") = {}
    /\ Does(d, Delete(db[d], {Loan}))

\* savePlannedEvent: a paid event keeps its account and its goal.
Settled(old, value) ==
    old.paid # None => old.acc = value.acc /\ old.goal = value.goal

SavePlannedEvent(d) == Gives(d, "savePlannedEvent") /\
    \E acc \in Rows(db[d], "account"), goal \in Rows(db[d], "goal") \cup {None} :
       LET t == db[d]
           value == [t[Visit] EXCEPT !.acc = acc, !.goal = goal]
       IN  /\ Visit \in DOMAIN t /\ Settled(t[Visit], value)
           /\ Get(t, Costs) = Category("expense")
           /\ Does(d, Put(t, Visit, value))

DeletePlannedEvent(d) ==
    /\ Gives(d, "deletePlannedEvent")
    /\ Visit \in DOMAIN db[d] /\ db[d][Visit].paid = None
    /\ Does(d, Delete(db[d], {Visit}))

SavePreset(d) == Gives(d, "savePreset") /\
    \E acc \in {Spare, None} \cap (Rows(db[d], "account") \cup {None}) :
       /\ Preset \in DOMAIN db[d] /\ Get(db[d], Costs) = Category("expense")
       /\ Does(d, Put(db[d], Preset, Default("preset", acc)))

DeletePreset(d) == Gives(d, "deletePreset") /\
    Preset \in DOMAIN db[d] /\ Does(d, Delete(db[d], {Preset}))

UpdateSettings(d) == Gives(d, "updateSettings") /\
    \E acc \in Rows(db[d], "account") :
       /\ Settings \in DOMAIN db[d]
       /\ Does(d, Put(db[d], Settings, Default("settings", acc)))

\* resetAllFinanceData: the settings go too, and all of it is told the others.
ResetAllFinanceData(d) == Gives(d, "resetAllFinanceData") /\ Does(d, <<>>)

\* importPlanBlueprint, into tables without financial data.
Blueprint ==
    [e \in {NewAccount, NewGoal, Settings} |->
        CASE e = NewAccount -> Account(1, TRUE) [] e = NewGoal -> Goal(NewAccount)
          [] e = Settings -> Default("settings", NewAccount)]
ImportPlanBlueprint(d) == Gives(d, "importPlanBlueprint") /\
    DOMAIN db[d] \subseteq {Settings} /\ Does(d, Blueprint)

\* replaceWithBackup, of a backup made when the plan was set up.
ReplaceWithBackup(d) == Gives(d, "replaceWithBackup") /\ Does(d, Plan)

-----------------------------------------------------------------------------
(* A patch: prepared from the plan the user sees, shown, applied later.    *)

\* planningFingerprint: everything but the ledger and the repayments.
PlanOf(t) == Restrict(t, {e \in DOMAIN t : t[e].is \notin {"tx", "payment"}})
Fingerprint_Mistake(t) == Delete(PlanOf(t), Rows(t, "goal"))
Fingerprint(t) == PlanOf(t)

\* What the patches of this model propose for a plan t.
Only(e, value) == [x \in {e} |-> value]
Proposals(t) ==
    {Only(Rent, [t[Rent] EXCEPT !.active = FALSE]) : e \in {Rent} \cap DOMAIN t}
    \cup {Only(a, [t[a] EXCEPT !.arch = TRUE]) : a \in {Spare, Trip} \cap DOMAIN t}
    \cup {Only(Trip, [t[Trip] EXCEPT !.acc = a]) :
            a \in UNION {Rows(t, "account") : e \in {Trip} \cap DOMAIN t}}
    \cup {Only(Visit, [t[Visit] EXCEPT !.goal = None]) :
            e \in {v \in Rows(t, "event") : t[v].paid = None}}
    \cup {[e \in {NewAccount, NewGoal} |->
             IF e = NewAccount THEN Account(0, TRUE) ELSE Goal(NewAccount)]}

PreparePlanPatch(d) == Gives(d, "preparePlanPatch") /\
    \E p \in Proposals(db[d]) :
       /\ patch[d] = None
       /\ Valid(PutAll(db[d], p))
       /\ patch' = [patch EXCEPT ![d] = [source |-> Fingerprint(db[d]),
                                         next |-> PutAll(PlanOf(db[d]), p),
                                         shown |-> DOMAIN p]]
       /\ UNCHANGED <<db, ver, outbox, log, read, conflict, refused>>

\* The ledger, repayments, categories and settings are today's, the plan is
\* the prepared one.
ApplyPlanPatch(d) ==
    /\ patch[d] # None
    /\ LET t == db[d]
           today == {e \in DOMAIN t : t[e].is \in {"tx", "payment", "category", "settings"}}
           planned == {e \in DOMAIN patch[d].next :
                         patch[d].next[e].is \notin {"tx", "payment", "category", "settings"}}
           new == PutAll(Restrict(patch[d].next, planned), Restrict(t, today))
       IN  /\ Fingerprint(t) = patch[d].source
           /\ Valid(new)
           /\ Commit(d, PutAll(t, new))
    /\ patch' = [patch EXCEPT ![d] = None]
    /\ UNCHANGED made

-----------------------------------------------------------------------------
(* Synchronization.                                                        *)

\* applyRemoteGroup: s is what the device has come to so far in this cycle.
Known(s, e) == IF e \in DOMAIN s.ver THEN s.ver[e] ELSE IF e \in DOMAIN s.db THEN 1 ELSE 0

\* The hashes it compares cover the version and the value; that of a deletion
\* names the deleting operation, so another's deletion is never the same.
Accepts_Mistake(s, chg) ==
    \A e \in DOMAIN chg : chg[e].old <= Known(s, e)
Accepts(s, chg) ==
    \A e \in DOMAIN chg :
       \/ chg[e].old = Known(s, e) /\ chg[e].pre = Get(s.db, e)
       \/ chg[e].old + 1 = Known(s, e) /\ chg[e].res = Get(s.db, e) /\ chg[e].res # None

Merged(s, chg) ==
    LET gone == {e \in DOMAIN chg : chg[e].res = None}
    IN  [s EXCEPT !.db = Delete(PutAll(@, [e \in DOMAIN chg |-> chg[e].res]), gone),
                  !.ver = PutAll(@, [e \in DOMAIN chg |-> chg[e].old + 1])]

\* A group whose result the tables' rules or a unique index reject fails the
\* cycle, and the next cycle meets it again.
Receive(d, s, group) ==
    IF s.refused THEN s
    ELSE IF group.dev = d THEN [s EXCEPT !.read = @ + 1]
    ELSE IF ~Accepts(s, group.chg) THEN [s EXCEPT !.read = @ + 1, !.conflict = TRUE]
    ELSE LET new == Merged(s, group.chg)
         IN  IF Valid(new.db) THEN [new EXCEPT !.read = @ + 1]
             ELSE [s EXCEPT !.refused = TRUE]

Sync(d) ==
    LET all == log \o outbox[d]
        now == [db |-> db[d], ver |-> ver[d], read |-> read[d],
                conflict |-> conflict[d], refused |-> FALSE]
        after[n \in read[d]..Len(all)] ==
            IF n = read[d] THEN now ELSE Receive(d, after[n - 1], all[n])
        then == after[Len(all)]
    IN  /\ read[d] < Len(all)
        /\ log' = all
        /\ outbox' = [outbox EXCEPT ![d] = <<>>]
        /\ db' = [db EXCEPT ![d] = then.db]
        /\ ver' = [ver EXCEPT ![d] = then.ver]
        /\ read' = [read EXCEPT ![d] = then.read]
        /\ conflict' = [conflict EXCEPT ![d] = then.conflict]
        /\ refused' = [refused EXCEPT ![d] = then.refused]
        /\ UNCHANGED <<patch, made>>

-----------------------------------------------------------------------------
Ledger(d) ==
    \/ SaveTransaction(d) \/ DeleteTransaction(d) \/ AdjustAccountBalance(d)
    \/ MarkCommitmentPaid(d) \/ LinkTransactionToCommitment(d)
    \/ UnlinkCommitmentPayment(d) \/ MarkPlannedIncomeReceived(d)
    \/ MarkPlannedEventPaid(d) \/ WithdrawFromGoal(d) \/ ContributeToGoal(d)
    \/ RecordDebtPayment(d)

Planning(d) ==
    \/ SaveAccount(d) \/ DeleteAccount(d) \/ SaveCategory(d) \/ DeleteCategory(d)
    \/ SaveCommitment(d) \/ DeleteCommitment(d) \/ SavePlannedIncome(d)
    \/ DeletePlannedIncome(d) \/ SaveGoal(d) \/ DeleteGoal(d) \/ SaveDebt(d)
    \/ DeleteDebt(d) \/ SavePlannedEvent(d) \/ DeletePlannedEvent(d)
    \/ SavePreset(d) \/ DeletePreset(d) \/ UpdateSettings(d)
    \/ ResetAllFinanceData(d) \/ ImportPlanBlueprint(d) \/ ReplaceWithBackup(d)

Next ==
    \E d \in Devices :
       \/ Ledger(d) \/ Planning(d)
       \/ PreparePlanPatch(d) \/ ApplyPlanPatch(d)
       \/ Sync(d)

Spec == Init /\ [][Next]_vars

-----------------------------------------------------------------------------
(* Properties.                                                             *)

\* Types: every row of a device's tables is one its table may hold (with an
\* amount above zero, unless it adjusts), versions count from one, and no cycle
\* reads past the log.
TypeOK ==
    /\ \A d \in Devices :
          /\ Conforms(db[d])
          /\ \A e \in DOMAIN ver[d] : ver[d][e] \in Nat \ {0}
    /\ made \in [Devices -> Nat] /\ read \in [Devices -> 0..Len(log)]
    /\ conflict \in [Devices -> BOOLEAN] /\ refused \in [Devices -> BOOLEAN]

\* Whatever commands, patches and other devices' changes come in whatever
\* order, every link between the tables leads both ways: a row to its plan, a
\* paid event to its row, a used goal to the paid event, a funding transfer to
\* its payment, a repayment to its row, and no debt is overpaid (the rules of
\* assertFinanceDataIntegrity but the kinds of categories, which saveCategory
\* does not keep, and the settings row, which a reset removes).
LinksHold == \A d \in Devices : Linked(db[d])

\* No command of this device's user, however many transfers it makes on the
\* way, takes an account lower and below zero (what another device spent
\* meanwhile may).
CommandsNeverOverdraw ==
    [][\A d \in Devices : made'[d] # made[d] =>
          \A acc \in Rows(db[d], "account") \cap Rows(db'[d], "account") :
             Balance(db'[d], acc) < Balance(db[d], acc) => Balance(db'[d], acc) >= 0]_vars

\* A debt is marked paid exactly while its repayments cover it, through
\* payments, deleted payments and edits of the amount on this device (two
\* devices may settle it together and neither mark it).
StatusRight(t) ==
    Loan \in DOMAIN t => (t[Loan].status = "paid") = (Paid(t, Loan) = t[Loan].orig)
DebtStatusFollows ==
    [][\A d \in Devices :
          made'[d] # made[d] /\ StatusRight(db[d]) => StatusRight(db'[d])]_vars

\* Applying a patch changes what its preview showed and nothing else, however
\* much the user or another device changed between preview and confirmation.
PatchNeverOverwrites ==
    [][\A d \in Devices : patch[d] # None /\ patch'[d] = None =>
          \A e \in DOMAIN db[d] \cup DOMAIN db'[d] :
             Get(db'[d], e) # Get(db[d], e) => e \in patch[d].shown]_vars

\* When everything is sent and read and no device met a conflict or a group
\* it could not apply, the devices hold the same tables.
Agreement ==
    (\A d \in Devices : /\ outbox[d] = <<>> /\ read[d] = Len(log)
                        /\ ~conflict[d] /\ ~refused[d])
        => \A d, o \in Devices : db[d] = db[o]

=============================================================================
