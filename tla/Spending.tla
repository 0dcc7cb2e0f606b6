------------------------------ MODULE Spending ------------------------------
(***************************************************************************)
(* Expenses, credit card instalments and their payments:                   *)
(* src/features/finance/spending-service.ts and spending-repository.ts,    *)
(* with the account movements they make through account-service.ts.        *)
(*                                                                         *)
(* Every operation is one database transaction under READ COMMITTED, with  *)
(* the locks and failures of FinanceLedger.  The last step of a            *)
(* transaction only writes rows that it has locked or that are new, and    *)
(* then commits, so here it is one action.  A statement that locks a row   *)
(* through a join may have computed an aggregate of another table before   *)
(* it waited for the lock: what a payment request knows of earlier         *)
(* payments is read when its statement begins (seen), the instalment row   *)
(* when the lock is granted.                                               *)
(*                                                                         *)
(* An expense is known by the operation key of the request that made it; a *)
(* payment and its movement have the key of their request, or one that the *)
(* server made (a number).  The dates of the plan are left out: the n-th   *)
(* instalments of all expenses are due in the same month.                  *)
(***************************************************************************)
EXTENDS Integers, Sequences, FiniteSets, Functions, Folds

CONSTANTS
  Workers,       \* concurrent requests
  Keys,          \* operation keys made by clients
  Accs,          \* finance accounts
  Card,          \* the credit card
  Scenes,        \* by how a run begins: the keys of its expenses (old), the kinds
                 \* of request that clients send, their keys, shapes of expenses
                 \* and amounts of payments, the accounts and cards that are
                 \* switched on and off, and the server's keys and the
                 \* instalments it may use (bounds)
  MaxServer,     \* bound on keys made by the server
  MaxInst,       \* bound on instalments ever planned
  MaxVersion,    \* bound on the versions of rows a client sends
  None           \* SQL NULL

Server == 0..MaxServer
Insts == 1..MaxInst
OldKey == 0      \* of a movement from before this release

ASSUME NoneAssumption == None \notin Keys \cup Accs \cup {Card} \cup Server
ASSUME KeysAssumption == Keys \cap Server = {}
ASSUME BoundsAssumption == MaxServer \in Nat /\ MaxInst \in Nat
ASSUME ScenesAssumption ==
  \A b \in DOMAIN Scenes :
    /\ Scenes[b].amounts \subseteq Nat \ {0}
    /\ Scenes[b].keys \subseteq Keys
    /\ Scenes[b].switched \subseteq Accs \cup {Card}
    /\ Scenes[b].server \in Server /\ Scenes[b].insts \in Insts
    /\ \A s \in Scenes[b].shapes :
         /\ s \in [method : {"direct", "card", "other"}, acc : Accs \cup {None},
                   amount : Nat \ {0}, count : Nat \ {0}, text : Nat]
         /\ (s.method = "direct") = (s.acc # None)
\* How many expenses each scene begins with (below), and that these are apart.
ASSUME OldAssumption ==
  \A b \in DOMAIN Scenes :
    /\ Scenes[b].old \in Seq(Keys) /\ IsInjective(Scenes[b].old)
    /\ Len(Scenes[b].old) = CASE b \in {"cash", "paid"} -> 1 [] b = "two" -> 2 [] OTHER -> 0
    /\ b \in {"paid", "two"} => MaxInst >= 2

VARIABLES
  exp,           \* expense, by operation key
  inst,          \* credit_card_installment
  pay,           \* credit_card_installment_payment, by operation key
  move,          \* finance_transaction with its ledger entries, by operation key
  inactive,      \* the card and the accounts with status "inactive"
  pc,            \* the step each transaction is at, or how it ended
  req,           \* the request it serves
  seen,          \* what its statement saw to be paid
  held,          \* the locks it holds
  draft,         \* the form a client made an operation key for
  scene          \* how the run began

vars == <<exp, inst, pay, move, inactive, pc, req, seen, held, draft, scene>>
tables == <<exp, inst, pay, move, inactive>>

NoShape == [method |-> "none", acc |-> None, amount |-> 0, count |-> 0, text |-> 0]
NoExp == [shape |-> NoShape, status |-> "none", tx |-> None, version |-> 0]
NoInst == [exp |-> None, number |-> 0, amount |-> 0, status |-> "none",
           tx |-> None, version |-> 0]
Gone == [NoInst EXCEPT !.status = "gone"]
NoPay == [inst |-> 0, amount |-> 0, of |-> None, moved |-> FALSE]
NoDraft == [kind |-> "none", shape |-> NoShape, insts |-> {}]
NoMove == [acc |-> None, amount |-> 0, of |-> None, text |-> <<0, 0>>]

Steps == {"look", "expense", "plan", "installment", "card", "due", "source", "write"}
Ended == {"idle", "ok", "refused"}

SumOf(f(_), S) == MapThenFoldSet(+, 0, f, LAMBDA T : CHOOSE x \in T : TRUE, S)

-----------------------------------------------------------------------------
(* What the queries compute (INSTALLMENT_COLUMNS, reversed_flag).          *)

Planned(i) == inst[i].status \in {"planned", "paid"}
Plan(k) == {i \in Insts : Planned(i) /\ inst[i].exp = k}
History(i) == {k \in DOMAIN pay : pay[k].inst = i}
Signed(k) == IF pay[k].of = None THEN pay[k].amount ELSE 0 - pay[k].amount
Paid(i) == IF History(i) = {} /\ inst[i].status = "paid" THEN inst[i].amount
           ELSE SumOf(Signed, History(i))
Remaining(i) == LET left == inst[i].amount - Paid(i) IN IF left < 0 THEN 0 ELSE left
PayReversed(k) == \E j \in DOMAIN pay : pay[j].of = k
MoveReversed(k) == \E j \in DOMAIN move : move[j].of = k
Reversible(k) == move[k] # NoMove /\ move[k].of = None /\ ~MoveReversed(k)
ActivePayments(i) == {k \in History(i) : pay[k].of = None /\ ~PayReversed(k)}

\* What is written to undo a movement or a payment.
Reversal(row, k) == [row EXCEPT !.of = k]

\* buildCardInstallmentPlan: equal parts, rounded down, and the rest at the end.
Part(s, n) == LET base == s.amount \div s.count IN
              IF n = s.count THEN s.amount - base * (s.count - 1) ELSE base
Divisible(s) == s.method = "card" => s.amount \div s.count > 0

NextInst == CHOOSE i \in 1..(MaxInst + 1) :
              /\ \A j \in Insts : j >= i => inst[j].status = "none"
              /\ i > 1 => inst[i - 1].status # "none"
Room(n) == NextInst + n - 1 <= Scenes[scene].insts
WithPlan(t, k, s) ==
  [i \in Insts |->
     LET n == i - NextInst + 1 IN
     IF n \in 1..s.count
     THEN [exp |-> k, number |-> n, amount |-> Part(s, n), status |-> "planned",
           tx |-> None, version |-> 1]
     ELSE t[i]]

\* deletePlannedExpenseInstallments.
\* Mutant: instalments with a payment history are deleted, too.
DeletableAlways(i) == inst[i].status = "planned"
Deletable(i) == inst[i].status = "planned" /\ History(i) = {}
Cleared(k) ==
  [i \in Insts |-> IF inst[i].exp = k /\ Deletable(i)
                   THEN Gone ELSE inst[i]]

\* Keys that the server makes at random, here in order, up to a bound.
LastKey == Scenes[scene].server
NextKey == CHOOSE n \in 1..(MaxServer + 1) :
             /\ \A m \in n..MaxServer : move[m] = NoMove /\ pay[m] = NoPay
             /\ n > 1 => move[n - 1] # NoMove \/ pay[n - 1] # NoPay

-----------------------------------------------------------------------------
(* How a run begins (scene): "nothing"; a "cash" expense of before 0020,   *)
(* which has no movement; a plan whose first instalment was "paid" before   *)
(* 0024, with or without a movement (0023), and with the record that 0024   *)
(* made of it or, as the queries still allow, with none; a movement "apart" *)
(* that no expense knows of; or "two" expenses of this release.             *)

OldShape(before) ==
  CASE before = "cash" -> [method |-> "direct", acc |-> None, amount |-> 2, count |-> 1, text |-> 1]
    [] before = "paid" -> [method |-> "card", acc |-> None, amount |-> 4, count |-> 2, text |-> 1]
    [] before = "two" -> [method |-> "card", acc |-> None, amount |-> 2, count |-> 1, text |-> 1]
    [] OTHER -> NoShape
OldExpense(s) == [shape |-> s, status |-> "active", tx |-> None, version |-> 1]
OldInst(k, n) == [exp |-> k, number |-> n, amount |-> 2, status |-> "planned", tx |-> None,
                  version |-> 1]
OldMove(a, t) == [acc |-> a, amount |-> 2, of |-> None, text |-> t]

InitTables(before, a, moved, recorded) ==
  LET s == OldShape(before)
      ks == Scenes[before].old
      old == {ks[n] : n \in DOMAIN ks}
      paid == [OldInst(ks[1], 1) EXCEPT !.status = "paid", !.tx = IF moved THEN OldKey ELSE None]
      plan == CASE before = "paid" -> <<paid, OldInst(ks[1], 2)>>
                [] before = "two" -> <<OldInst(ks[1], 1), OldInst(ks[2], 1)>>
                [] OTHER -> <<>> IN
  /\ exp = [k \in Keys |-> IF k \in old THEN OldExpense(s) ELSE NoExp]
  /\ draft = [k \in Keys |-> IF k \in old THEN [NoDraft EXCEPT !.kind = "create", !.shape = s] ELSE NoDraft]
  /\ inst = [i \in Insts |-> IF i <= Len(plan) THEN plan[i] ELSE NoInst]
  /\ pay = [k \in Keys \cup Server |->
              IF recorded /\ k = OldKey
              THEN [inst |-> 1, amount |-> 2, of |-> None, moved |-> moved] ELSE NoPay]
  /\ move = [k \in Keys \cup Server |->
               CASE k = OldKey /\ before = "apart" -> OldMove(a, <<0, 0>>)
                 [] k = OldKey /\ moved -> OldMove(a, <<1, 1>>)
                 [] OTHER -> NoMove]

Init ==
  /\ inactive = {}
  /\ pc = [w \in Workers |-> "idle"]
  /\ req = [w \in Workers |-> [kind |-> "none"]]
  /\ seen = [w \in Workers |-> 0]
  /\ held = [w \in Workers |-> {}]
  /\ \E before \in DOMAIN Scenes, a \in Accs :
     \E moved, recorded \in IF before = "paid" THEN BOOLEAN ELSE {FALSE} :
       /\ scene = before
       /\ InitTables(before, a, moved, recorded)

-----------------------------------------------------------------------------
(* Requests.  A client sends the versions it was shown; it may send the    *)
(* same request again at any time.                                         *)

Create(k, s) == [kind |-> "create", key |-> k, shape |-> s]
Update(k, s, v) == [kind |-> "update", exp |-> k, shape |-> s, version |-> exp[k].version,
                    void |-> v]
VoidIt(k) == [kind |-> "void", exp |-> k, version |-> exp[k].version, void |-> TRUE]
PayOne(i, k, n, a) == [kind |-> "pay", inst |-> i, version |-> inst[i].version, key |-> k,
                       amount |-> n, acc |-> a]
Reopen(i) == [kind |-> "reopen", inst |-> i, version |-> inst[i].version]
PayMany(S, m, f, n, a) ==
  [kind |-> "bulk", month |-> m, keys |-> f, versions |-> [i \in S |-> inst[i].version],
   amount |-> n, acc |-> a]

Amounts == Scenes[scene].amounts
NewKeys == Scenes[scene].keys

Asked(kind, requests) == IF kind \in Scenes[scene].kinds THEN requests ELSE {}
Known == {k \in Keys : exp[k] # NoExp}
Payables == {i \in Insts : Planned(i)}

Requests ==
  Asked("create", {Create(k, s) : k \in NewKeys, s \in Scenes[scene].shapes})
  \cup Asked("update", {Update(k, s, v) : k \in Known, s \in Scenes[scene].shapes, v \in BOOLEAN})
  \cup Asked("void", {VoidIt(k) : k \in Known})
  \cup Asked("pay", {PayOne(i, k, n, a) : i \in Payables, k \in NewKeys, n \in Amounts, a \in Accs})
  \cup Asked("reopen", {Reopen(i) : i \in Payables})
  \cup Asked("bulk",
         UNION {{PayMany(S, m, f, n, a) :
                   f \in {g \in [S -> NewKeys] : Cardinality({g[i] : i \in S}) = Cardinality(S)},
                   m \in {inst[i].number : i \in S}, n \in Amounts, a \in Accs} :
                S \in (SUBSET Payables) \ {{}}})

\* Forms keep the key of a request that failed and make a new one when what they
\* ask for changes (expenses-workspace.tsx: operationRef; card-plan-workspace.tsx:
\* a payment draft, whose amount and account may change).
Drafted(q, k) ==
  [kind |-> q.kind,
   shape |-> IF q.kind = "create" THEN q.shape ELSE NoShape,
   insts |-> CASE q.kind = "create" -> {}
               [] q.kind = "pay" -> {q.inst}
               [] q.kind = "bulk" -> {i \in DOMAIN q.keys : q.keys[i] = k}]
KeysOf(q) ==
  CASE q.kind \in {"create", "pay"} -> {q.key}
    [] q.kind = "bulk" -> {q.keys[i] : i \in DOMAIN q.keys}
    [] OTHER -> {}

\* A form accepts no amount beyond what it has to show (normalizePaymentAmount).
Payable(q) == q.kind = "pay" => q.amount <= inst[q.inst].amount

Sendable(q) ==
  /\ Payable(q)
  /\ \A k \in KeysOf(q) : draft[k] \in {NoDraft, Drafted(q, k)}
  /\ q.kind \in {"update", "void", "pay", "reopen"} => q.version < MaxVersion

Goto(w, step) == pc' = [pc EXCEPT ![w] = step]

FirstStep(kind) ==
  CASE kind = "create" -> "look"
    [] kind \in {"update", "void"} -> "expense"
    [] kind \in {"pay", "reopen"} -> "installment"
    [] kind = "bulk" -> "card"

Begin(w, q) ==
  /\ Goto(w, FirstStep(q.kind))
  /\ req' = [req EXCEPT ![w] = q]
  /\ seen' = [seen EXCEPT ![w] = IF q.kind = "pay" /\ Planned(q.inst) THEN Paid(q.inst) ELSE 0]
  /\ draft' = [k \in Keys |-> IF k \in KeysOf(q) THEN Drafted(q, k) ELSE draft[k]]
  /\ UNCHANGED <<tables, held, scene>>

Start(w) ==
  /\ pc[w] \in Ended
  /\ \E q \in Requests : Sendable(q) /\ Begin(w, q)

\* The same form is sent again, a payment perhaps with another amount.
Retry(w) ==
  /\ pc[w] \in Ended \ {"idle"}
  /\ \/ Begin(w, req[w])
     \/ /\ req[w].kind \in {"pay", "bulk"}
        /\ \E n \in Amounts \ {req[w].amount} :
             LET q == [req[w] EXCEPT !.amount = n] IN Payable(q) /\ Begin(w, q)

-----------------------------------------------------------------------------
(* Locks and ends.                                                         *)

Free(w, ls) == \A v \in Workers \ {w} : held[v] \cap ls = {}
PayerLocks(ps) == {<<"payer", p>> : p \in ps \ {None}}
ExpLocks(k) ==
  {<<"expense", k>>} \cup
  PayerLocks({exp[k].shape.acc} \cup IF exp[k].shape.method = "card" THEN {Card} ELSE {})
InstLocks(S) ==
  {<<"installment", i>> : i \in S} \cup UNION {ExpLocks(inst[i].exp) : i \in S}

Proceed(w, step, ls) ==
  /\ Free(w, ls)
  /\ held' = [held EXCEPT ![w] = @ \cup ls]
  /\ Goto(w, step)
  /\ UNCHANGED <<tables, req, seen, draft, scene>>

End(w, result) ==
  /\ Goto(w, result)
  /\ held' = [held EXCEPT ![w] = {}]
  /\ seen' = [seen EXCEPT ![w] = 0]
  /\ UNCHANGED <<req, draft, scene>>

Refuse(w) == End(w, "refused") /\ UNCHANGED tables
Answer(w, good) == End(w, IF good THEN "ok" ELSE "refused") /\ UNCHANGED tables
Commit(w) == \E result \in {"ok", "refused"} : End(w, result) /\ UNCHANGED inactive

-----------------------------------------------------------------------------
(* createExpenseInConnection.                                              *)

\* expenseMatches
Matches(q) == exp[q.key].status = "active" /\ exp[q.key].shape = q.shape

Look(w) ==
  LET q == req[w] IN
  /\ pc[w] = "look"
  /\ Free(w, {<<"expense", q.key>>})
  /\ IF exp[q.key] # NoExp THEN Answer(w, Matches(q)) ELSE Proceed(w, "source", {})

\* What an edit changes (expensePlanChanged, movementChanged).
Terms(s) == [s EXCEPT !.text = 0]
PlanChanged(q) == Terms(exp[q.exp].shape) # Terms(q.shape)
MovementChanged(q) == exp[q.exp].tx = None \/ exp[q.exp].shape # q.shape
MustReverse(q) ==
  exp[q.exp].tx # None /\ (q.void \/ MovementChanged(q) \/ q.shape.method # "direct")
MustCreate(q) == ~q.void /\ q.shape.method = "direct" /\ MovementChanged(q)

\* selectedCard, selectedSourceAccount, selectedCardPaymentAccount.
Payers(q) ==
  CASE q.kind = "create" -> (IF q.shape.method = "card" THEN {Card} ELSE {q.shape.acc}) \ {None}
    [] q.kind = "update" -> IF MustCreate(q) THEN {q.shape.acc} ELSE {}
    [] q.kind \in {"pay", "bulk"} -> {q.acc}

SelectPayer(w) ==
  LET ps == Payers(req[w]) IN
  /\ pc[w] = "source"
  /\ Free(w, PayerLocks(ps))
  /\ IF ps \cap inactive # {} THEN Refuse(w) ELSE Proceed(w, "write", PayerLocks(ps))

Spent(s) == [acc |-> s.acc, amount |-> s.amount, of |-> None, text |-> <<s.text, 0>>]

CreateExpense(w) ==
  LET q == req[w]
      direct == q.shape.method = "direct"
      m == Spent(q.shape)
      new == exp[q.key] = NoExp IN
  /\ pc[w] = "write" /\ q.kind = "create"
  /\ Free(w, {<<"expense", q.key>>})
  /\ IF \/ direct /\ move[q.key] \notin {NoMove, m}
        \/ ~new /\ ~Matches(q)
        \/ new /\ ~Divisible(q.shape)
     THEN Refuse(w)
     ELSE /\ q.shape.method = "card" /\ new => Room(q.shape.count)
          /\ exp' = IF new
                    THEN [exp EXCEPT ![q.key] =
                            [shape |-> q.shape, status |-> "active", version |-> 1,
                             tx |-> IF direct THEN q.key ELSE None]]
                    ELSE exp
          /\ move' = IF direct THEN [move EXCEPT ![q.key] = m] ELSE move
          /\ inst' = IF new /\ q.shape.method = "card" THEN WithPlan(inst, q.key, q.shape)
                     ELSE inst
          /\ UNCHANGED pay
          /\ Commit(w)

-----------------------------------------------------------------------------
(* updateExpense and voidExpense.                                          *)

LockExpense(w) ==
  LET q == req[w] IN
  /\ pc[w] = "expense"
  /\ Free(w, ExpLocks(q.exp))
  /\ IF exp[q.exp].version # q.version \/ exp[q.exp].status = "voided"
     THEN Refuse(w)
     ELSE Proceed(w, "plan", ExpLocks(q.exp))

Touched(i) == Paid(i) > 0
\* Mutant: a payment that was taken back does not lock the plan.
RecordedIfTouched(i) == Touched(i)
Recorded(i) == History(i) # {}

PlanLocked(q) ==
  \E i \in Plan(q.exp) :
    IF q.kind = "void" THEN Touched(i)
    ELSE \/ Touched(i) /\ (PlanChanged(q) \/ q.void)
         \/ Recorded(i) /\ PlanChanged(q)

LockPlan(w) ==
  LET q == req[w]
      card == IF q.kind = "update" /\ q.shape.method = "card" THEN {Card} ELSE {}
      ls == InstLocks(Plan(q.exp)) \cup PayerLocks(card) IN
  /\ pc[w] = "plan"
  /\ Free(w, ls)
  /\ IF PlanLocked(q) \/ (card \cap inactive # {} /\ PlanChanged(q) /\ ~q.void)
     THEN Refuse(w)
     ELSE Proceed(w, IF q.kind = "update" THEN "source" ELSE "write", ls)

\* chk_expense_account_movement_shape
MovementShape(e) ==
  /\ (e.tx = None) = (e.shape.acc = None)
  /\ e.tx # None => e.shape.method = "direct"

Edited(q, j) ==
  LET e == exp[q.exp] IN
  [shape |-> [q.shape EXCEPT !.acc = IF q.void THEN e.shape.acc ELSE @],
   status |-> IF q.void THEN "voided" ELSE "active",
   tx |-> IF MustCreate(q) THEN j
          ELSE IF q.void \/ q.shape.method = "direct" THEN e.tx ELSE None,
   version |-> e.version + 1]

\* A movement that is no longer right is reversed and, with a new key, made again.
UpdateExpense(w) ==
  LET q == req[w]
      e == exp[q.exp]
      undo == NextKey
      again == IF MustReverse(q) THEN undo + 1 ELSE undo
      planned == ~q.void /\ PlanChanged(q) /\ q.shape.method = "card" IN
  /\ pc[w] = "write" /\ q.kind = "update"
  /\ IF \/ MustReverse(q) /\ ~Reversible(e.tx)
        \/ ~MovementShape(Edited(q, again))
        \/ planned /\ ~Divisible(q.shape)
     THEN Refuse(w)
     ELSE /\ MustReverse(q) => undo <= LastKey
          /\ MustCreate(q) => again <= LastKey
          /\ planned => Room(q.shape.count)
          /\ move' = [k \in DOMAIN move |->
                        IF MustReverse(q) /\ k = undo THEN Reversal(move[e.tx], e.tx)
                        ELSE IF MustCreate(q) /\ k = again THEN Spent(q.shape)
                        ELSE move[k]]
          /\ exp' = [exp EXCEPT ![q.exp] = Edited(q, again)]
          /\ LET rest == IF PlanChanged(q) THEN Cleared(q.exp) ELSE inst IN
             inst' = IF planned THEN WithPlan(rest, q.exp, q.shape) ELSE rest
          /\ UNCHANGED pay
          /\ Commit(w)

VoidExpense(w) ==
  LET q == req[w]
      e == exp[q.exp] IN
  /\ pc[w] = "write" /\ q.kind = "void"
  /\ IF e.tx # None /\ ~Reversible(e.tx)
     THEN Refuse(w)
     ELSE /\ e.tx # None => NextKey <= LastKey
          /\ move' = IF e.tx = None THEN move
                     ELSE [move EXCEPT ![NextKey] = Reversal(move[e.tx], e.tx)]
          /\ exp' = [exp EXCEPT ![q.exp] = [e EXCEPT !.status = "voided", !.version = @ + 1]]
          /\ inst' = Cleared(q.exp)
          /\ UNCHANGED pay
          /\ Commit(w)

-----------------------------------------------------------------------------
(* updateCardInstallment: pay one instalment, or reopen it.                *)

\* createCardInstallmentPaymentEntry for each instalment i of a function: part[i]
\* is paid under key keys[i]; paid[i] is what was paid before.
Wanted(i, n, a) ==
  [acc |-> a, amount |-> n, of |-> None,
   text |-> <<exp[inst[i].exp].shape.text, inst[i].number>>]
Payment(i, n) == [inst |-> i, amount |-> n, of |-> None, moved |-> TRUE]

\* An instalment of which so much is paid now.
Settled(row, paid) ==
  [row EXCEPT !.version = @ + 1, !.status = IF paid = row.amount THEN "paid" ELSE "planned"]

Taken(part, keys, a) ==
  \E i \in DOMAIN part :
    \/ move[keys[i]] \notin {NoMove, Wanted(i, part[i], a)}
    \/ pay[keys[i]] \notin {NoPay, Payment(i, part[i])}

Book(part, keys, a, paid) ==
  LET Used == {keys[i] : i \in DOMAIN part}
      by(k) == CHOOSE i \in DOMAIN part : keys[i] = k IN
  /\ pay' = [k \in DOMAIN pay |-> IF k \in Used THEN Payment(by(k), part[by(k)]) ELSE pay[k]]
  /\ move' = [k \in DOMAIN move |-> IF k \in Used THEN Wanted(by(k), part[by(k)], a) ELSE move[k]]
  /\ inst' = [i \in Insts |->
                IF i \in DOMAIN part THEN Settled(inst[i], paid[i] + part[i]) ELSE inst[i]]
  /\ UNCHANGED exp

\* cardPaymentMatches, and the payment was not taken back.
PaymentMatches(q) ==
  /\ pay[q.key] = Payment(q.inst, q.amount)
  /\ move[q.key].acc = q.acc
  /\ ~PayReversed(q.key)

\* Mutant: the version the client was shown is not compared.
VersionIgnored(q) == TRUE
VersionFits(q) == inst[q.inst].version = q.version

LockInstallment(w) ==
  LET q == req[w]
      i == q.inst IN
  /\ pc[w] = "installment"
  /\ Planned(i) => Free(w, InstLocks({i}))
  /\ IF ~Planned(i) \/ exp[inst[i].exp].status # "active" THEN Refuse(w)
     ELSE IF q.kind = "pay" /\ pay[q.key] # NoPay THEN Answer(w, PaymentMatches(q))
     ELSE IF ~VersionFits(q) \/ (q.kind = "pay" /\ seen[w] + q.amount > inst[i].amount)
          THEN Refuse(w)
     ELSE Proceed(w, IF q.kind = "pay" THEN "source" ELSE "write", InstLocks({i}))

PayInstallment(w) ==
  LET q == req[w]
      part == [i \in {q.inst} |-> q.amount]
      keys == [i \in {q.inst} |-> q.key] IN
  /\ pc[w] = "write" /\ q.kind = "pay"
  /\ IF Taken(part, keys, q.acc) THEN Refuse(w)
     ELSE Book(part, keys, q.acc, [i \in {q.inst} |-> seen[w]]) /\ Commit(w)

\* The movements a reopened instalment undoes: those of its active payments, or
\* its own if it was paid before payments were recorded.
Undone(i) == ActivePayments(i)
Reopened(row) == [row EXCEPT !.status = "planned", !.tx = None, !.version = @ + 1]

ReopenInstallment(w) ==
  LET q == req[w]
      i == q.inst
      own == Undone(i) = {} /\ inst[i].tx # None
      first == NextKey
      last == first + (IF own THEN 1 ELSE Cardinality(Undone(i))) - 1 IN
  /\ pc[w] = "write" /\ q.kind = "reopen"
  /\ IF \/ \E k \in Undone(i) : pay[k].moved /\ ~Reversible(k)
        \/ own /\ ~Reversible(inst[i].tx)
     THEN Refuse(w)
     ELSE /\ last <= LastKey
          /\ \E of \in Bijection(first..last, IF own THEN {inst[i].tx} ELSE Undone(i)) :
               /\ pay' = [k \in DOMAIN pay |->
                             IF k \in DOMAIN of /\ ~own THEN Reversal(pay[of[k]], of[k]) ELSE pay[k]]
               /\ move' = [k \in DOMAIN move |->
                             IF k \in DOMAIN of /\ (own \/ pay[of[k]].moved)
                             THEN Reversal(move[of[k]], of[k]) ELSE move[k]]
          /\ inst' = [inst EXCEPT ![i] = Reopened(@)]
          /\ UNCHANGED exp
          /\ Commit(w)

-----------------------------------------------------------------------------
(* bulkPayCardInstallments: all open instalments of a card and a month.    *)

LockCard(w) ==
  /\ pc[w] = "card"
  /\ Proceed(w, "due", PayerLocks({Card}))

Due(m) == {i \in Insts : /\ Planned(i) /\ inst[i].number = m
                         /\ exp[inst[i].exp].status = "active"}
Open(m) == {i \in Due(m) : Remaining(i) > 0}

PayingFor(q, i) == pay[q.keys[i]] # NoPay
Done(q) == {i \in DOMAIN q.keys : PayingFor(q, i)}
AmountOf(q) == SumOf(LAMBDA i : pay[q.keys[i]].amount, Done(q))

\* The request was served before.
\* Mutant: the sum of the payments is not compared with the request.
ReplaySumIgnored(q) == TRUE
ReplaySum(q) == AmountOf(q) = q.amount

ReplayMatches(q) ==
  /\ \A i \in DOMAIN q.keys :
       /\ i \in Due(q.month)
       /\ IF i \in Done(q)
          THEN /\ pay[q.keys[i]].of = None /\ pay[q.keys[i]].inst = i
               /\ ~PayReversed(q.keys[i])
               /\ move[q.keys[i]].acc = q.acc
               /\ inst[i].version = q.versions[i] + 1
          ELSE inst[i].version = q.versions[i]
  /\ ReplaySum(q)

SelectionFits(q) ==
  /\ Open(q.month) = DOMAIN q.keys
  /\ \A i \in DOMAIN q.keys : inst[i].version = q.versions[i]
  /\ q.amount <= SumOf(Remaining, Open(q.month))

LockDue(w) ==
  LET q == req[w] IN
  /\ pc[w] = "due"
  /\ Free(w, InstLocks(Due(q.month)))
  /\ IF Done(q) # {} THEN Answer(w, ReplayMatches(q))
     ELSE IF SelectionFits(q) THEN Proceed(w, "source", InstLocks(Due(q.month)))
     ELSE Refuse(w)

\* The amount goes to the instalments in order, each up to what remains of it.
Allocation(q, i) ==
  LET rest == q.amount - SumOf(Remaining, {j \in DOMAIN q.keys : j < i}) IN
  IF rest <= 0 THEN 0 ELSE IF rest < Remaining(i) THEN rest ELSE Remaining(i)

BulkPay(w) ==
  LET q == req[w]
      part == [i \in {j \in DOMAIN q.keys : Allocation(q, j) > 0} |-> Allocation(q, i)] IN
  /\ pc[w] = "write" /\ q.kind = "bulk"
  /\ IF Taken(part, q.keys, q.acc) THEN Refuse(w)
     ELSE Book(part, q.keys, q.acc, [i \in DOMAIN part |-> Paid(i)]) /\ Commit(w)

-----------------------------------------------------------------------------
(* The rest of the system.                                                 *)

\* reverseFinanceTransaction: a movement is reversed from the accounts page,
\* unless an expense, an instalment or a payment owns it.
Managed(k) == \/ \E j \in Keys : exp[j].tx = k
              \/ \E i \in Insts : inst[i].tx = k
              \/ pay[k] # NoPay /\ pay[k].moved

ReverseDirectly(k) ==
  /\ Reversible(k) /\ ~Managed(k)
  /\ NextKey <= LastKey
  /\ \A w \in Workers : held[w] \cap PayerLocks({move[k].acc}) = {}
  /\ move' = [move EXCEPT ![NextKey] = Reversal(move[k], k)]
  /\ UNCHANGED <<exp, inst, pay, inactive, pc, req, seen, held, draft, scene>>

\* updateCreditCard, updateFinanceAccount.
SwitchPayer(p) ==
  /\ p \in Scenes[scene].switched
  /\ \A w \in Workers : held[w] \cap PayerLocks({p}) = {}
  /\ inactive' = IF p \in inactive THEN inactive \ {p} ELSE inactive \cup {p}
  /\ UNCHANGED <<exp, inst, pay, move, pc, req, seen, held, draft, scene>>

\* A validation error, a deadlock, a lock wait timeout, a lost connection.
Fail(w) == pc[w] \in Steps /\ Refuse(w)

Step(w) ==
  \/ Start(w) \/ Retry(w) \/ Look(w) \/ SelectPayer(w) \/ CreateExpense(w)
  \/ LockExpense(w) \/ LockPlan(w) \/ UpdateExpense(w) \/ VoidExpense(w)
  \/ LockInstallment(w) \/ PayInstallment(w) \/ ReopenInstallment(w)
  \/ LockCard(w) \/ LockDue(w) \/ BulkPay(w) \/ Fail(w)

Next ==
  \/ \E w \in Workers : Step(w)
  \/ \E k \in Keys \cup Server : ReverseDirectly(k)
  \/ \E p \in Accs \cup {Card} : SwitchPayer(p)

Spec == Init /\ [][Next]_vars

-----------------------------------------------------------------------------
(* What spending promises.                                                 *)

TypeOK ==
  /\ \A k \in Keys : exp[k].status \in {"none", "active", "voided"} /\ MovementShape(exp[k])
  /\ \A i \in Insts : /\ inst[i].status \in {"none", "planned", "paid", "gone"}
                       /\ Planned(i) => inst[i].exp \in Keys /\ inst[i].amount > 0
  /\ \A k \in Keys \cup Server : /\ pay[k] \in [inst : Insts \cup {0}, amount : Nat,
                                            of : Keys \cup Server \cup {None}, moved : BOOLEAN]
                                /\ move[k].acc \in Accs \cup {None}
  /\ inactive \subseteq Accs \cup {Card}
  /\ pc \in [Workers -> Steps \cup Ended]
  /\ seen \in [Workers -> Nat]
  /\ \A w \in Workers : pc[w] \in Ended => held[w] = {} /\ seen[w] = 0

\* However requests race, an instalment is never paid beyond its amount, nothing
\* is taken back that was not paid, and "paid" means paid in full; on a voided
\* expense nothing is paid, neither before it is voided nor by a request that was
\* under way.
NeverOverpaid ==
  \A i \in Insts : Planned(i) =>
    /\ Paid(i) \in 0..(IF exp[inst[i].exp].status = "voided" THEN 0 ELSE inst[i].amount)
    /\ inst[i].status = "paid" <=> Paid(i) = inst[i].amount

\* The account books show what the spending tables say: the movements that stand
\* are those of active expenses and of payments not taken back, each once, with
\* the account and the amount (and one the spending tables do not know of).
OwnedByExpense == {exp[k].tx : k \in {j \in Keys : exp[j].status = "active"}} \ {None}
OwnedByPayment == {k \in DOMAIN pay : pay[k].moved /\ pay[k].of = None /\ ~PayReversed(k)}
OwnedByInstallment == {inst[i].tx : i \in {j \in Insts : Planned(j) /\ History(j) = {}}} \ {None}
BooksAgree ==
  /\ {k \in DOMAIN move : Reversible(k)} \ {k \in {OldKey} : move[k].text = <<0, 0>>}
       = OwnedByExpense \cup OwnedByPayment \cup OwnedByInstallment
  /\ \A k \in Keys : exp[k].status = "active" /\ exp[k].tx # None =>
       move[exp[k].tx] = Spent(exp[k].shape)
  /\ \A k \in OwnedByPayment : move[k].amount = pay[k].amount

\* What expenses, instalments, payments and the account books say together.
SpendingSound == TypeOK /\ NeverOverpaid /\ BooksAgree

\* The plan of an active card expense has each number once and adds up to the
\* expense, after any edits; no other active expense has a plan.
PlanAddsUp ==
  \A k \in Keys : exp[k].status = "active" =>
    LET s == exp[k].shape IN
    IF s.method = "card"
    THEN /\ {inst[i].number : i \in Plan(k)} = 1..s.count
         /\ Cardinality(Plan(k)) = s.count
         /\ SumOf(LAMBDA i : inst[i].amount, Plan(k)) = s.amount
    ELSE Plan(k) = {}

\* A payment request answered with success has paid its amount, no more and no
\* less, with its own keys, however often it was sent.
PaidAsAsked(q) ==
  /\ q.kind = "pay" => pay[q.key] = Payment(q.inst, q.amount)
  /\ q.kind = "bulk" => AmountOf(q) = q.amount
OkMeansPaid ==
  [][\A w \in Workers : pc[w] # "ok" /\ pc'[w] = "ok" => PaidAsAsked(req[w])']_vars

\* A payment stays on record, and so does the instalment it was made for.
HistoryKept ==
  [][\A k \in DOMAIN pay : pay[k] # NoPay =>
       pay'[k] = pay[k] /\ inst'[pay[k].inst].status \in {"planned", "paid"}]_vars
=============================================================================
