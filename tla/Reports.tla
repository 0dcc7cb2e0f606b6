-------------------------------- MODULE Reports --------------------------------
(***************************************************************************)
(* What the portal reports about the books: the cash flow report, project  *)
(* reports, the receivables page and the morning digest                    *)
(* (src/features/finance, src/features/today).                             *)
(*                                                                         *)
(* A report is several statements.  The cash flow report makes them in one *)
(* snapshot (withUtcConsistentRead), the digest in a transaction whose     *)
(* statements each read what is committed (withUtcTransaction), while      *)
(* other requests change the books.  Those requests are one step each      *)
(* here: FinanceLedger, Spending and Dues have their transactions.         *)
(*                                                                         *)
(* Days are 1..MaxDay; weeks and months end on given days.  Amounts are    *)
(* small integers in one currency.  There is one card, and one recurring   *)
(* plan.  Names, counts and the order of lines are left out.               *)
(***************************************************************************)
EXTENDS Integers, Sequences, FiniteSetsExt

CONSTANTS
  MaxDay,
  WeekEnds, MonthEnds,   \* the last days of weeks and months
  PlanEvery,             \* days between two occurrences of the plan
  CardDelay,             \* days until a purchase by card is due
  Ranges,                \* the ranges <<from, to, unit>> that are asked for
  Starts,                \* the books that behaviours begin with
  MaxChanges,            \* bound: requests that change the books
  MaxReports             \* bound: reports

ASSUME DaysAssumption ==
  /\ MaxDay \in Nat /\ MaxDay >= 2
  /\ WeekEnds \subseteq 1..MaxDay /\ MonthEnds \subseteq 1..MaxDay
ASSUME PlanAssumption == PlanEvery \in Nat \ {0} /\ CardDelay \in Nat
ASSUME RangesAssumption ==
  \A range \in Ranges : /\ range[1] \in 1..MaxDay /\ range[2] \in range[1]..MaxDay
                         /\ range[3] \in {"weekly", "monthly"}
ASSUME ReportBoundsAssumption == MaxChanges \in Nat /\ MaxReports \in Nat

VARIABLES
  today,
  books,       \* accounts, moves (the account ledger), dues, entries, the plan
  r,           \* the report that is being made
  changes, reports

reportVars == <<today, books, r, changes, reports>>

Days == 1..MaxDay
NoReport == [kind |-> "none", step |-> "done", from |-> 1, to |-> 1, unit |-> "weekly",
             today |-> 1, view |-> <<>>, balance |-> <<>>, openings |-> <<>>, actual |-> <<>>,
             due |-> {}, unclassified |-> 0, plans |-> {}]

AtMost(n, m) == IF n < m THEN n ELSE m
AtLeast(n, m) == IF n > m THEN n ELSE m

-----------------------------------------------------------------------------
(* The account ledger.                                                     *)

\* A movement counts unless it reverses another one or is itself reversed.
\* Mutant: only the reversals are left out.
NotAReversal(b) == {i \in 1..Len(b.moves) : b.moves[i].back = 0}
Effective(b) ==
  {i \in 1..Len(b.moves) : /\ b.moves[i].back = 0
                           /\ \A j \in 1..Len(b.moves) : b.moves[j].back # i}

\* A transfer leaves one account and enters another.
Signed(b, i) == CASE b.moves[i].type = "income" -> b.moves[i].amount
                  [] b.moves[i].type = "expense" -> -b.moves[i].amount
                  [] OTHER -> 0

Flow(b, S) == SumFunction([i \in S |-> Signed(b, i)])
OpenedIn(b, S) == {a \in 1..Len(b.accounts) : b.accounts[a].day \in S}
Opened(b, S) == SumFunction([a \in OpenedIn(b, S) |-> b.accounts[a].amount])
MovesOn(b, S) == {i \in Effective(b) : b.moves[i].day \in S}

\* What came in, or went out, on a day.
Turnover(b, d, type) ==
  SumFunction([i \in {j \in MovesOn(b, {d}) : b.moves[j].type = type} |-> b.moves[i].amount])

Until(d) == {n \in Days : n <= d}
BalanceUpTo(b, S) == Opened(b, S) + Flow(b, MovesOn(b, S))

Opposite(type) == CASE type = "income" -> "expense" [] type = "expense" -> "income"
                    [] OTHER -> "transfer"

\* assertFinanceLedgerReconciled, as far as reversals go.
LedgerSound(b) ==
  \A i \in 1..Len(b.moves) :
    LET m == b.moves[i] IN
    m.back # 0 => /\ b.moves[m.back].back = 0
                  /\ m.amount = b.moves[m.back].amount
                  /\ m.type = Opposite(b.moves[m.back].type)

-----------------------------------------------------------------------------
(* What is due.                                                            *)

Entries(b, k) == {e \in 1..Len(b.entries) : b.entries[e].of = k}
Worth(b, e) == IF b.entries[e].back # 0 THEN -b.entries[e].amount ELSE b.entries[e].amount
Net(b, k, until) ==
  SumFunction([e \in {x \in Entries(b, k) : b.entries[x].day <= until} |-> Worth(b, e)])

MarkedPaid(b, k) == IF b.dues[k].paid # 0 THEN b.dues[k].amount ELSE 0

\* An instalment that was paid before payments had records of their own.
CardSettled(b, k, until) ==
  IF Entries(b, k) # {} THEN Net(b, k, until)
  ELSE IF b.dues[k].paid <= until THEN MarkedPaid(b, k) ELSE 0

Clipped(n, amount) == AtMost(amount, AtLeast(n, 0))

Settled(b, k, day) ==
  CASE b.dues[k].kind = "receivable" -> Net(b, k, day)
    [] b.dues[k].kind = "contribution" -> Net(b, k, MaxDay)
    [] b.dues[k].kind = "card" -> Clipped(CardSettled(b, k, day), b.dues[k].amount)
    [] b.dues[k].kind = "tax" -> MarkedPaid(b, k)
    [] OTHER -> 0

Left(b, k, day) == AtLeast(b.dues[k].amount - Settled(b, k, day), 0)
Live(b, kind) == {k \in 1..Len(b.dues) : b.dues[k].kind = kind /\ b.dues[k].live}

Status(total, settled, due, day) ==
  IF total - settled <= 0 THEN "settled" ELSE IF due < day THEN "overdue"
  ELSE IF settled > 0 THEN "partial" ELSE "planned"

Item(id, kind, due, total, settled, status) ==
  [id |-> id, kind |-> kind, due |-> due, left |-> AtLeast(total - settled, 0),
   status |-> status,
   side |-> IF kind \in {"receivable", "contribution"} THEN "inflow" ELSE "outflow"]

\* One arm of the union: what falls into the range, and what is left from before it.
Carried(b, S, from, to, day) ==
  {k \in S : \/ b.dues[k].due \in from..to
             \/ (b.dues[k].due < AtMost(from, day) /\ Left(b, k, day) > 0)}

ArmOf(b, kind, from, to, day) ==
  {Item(<<kind, k>>, kind, b.dues[k].due, b.dues[k].amount, Settled(b, k, day),
        Status(b.dues[k].amount, Settled(b, k, day), b.dues[k].due, day)) :
     k \in Carried(b, Live(b, kind), from, to, day)}

ReceivableItems(b, from, to, day) == ArmOf(b, "receivable", from, to, day)
ContributionItems(b, from, to, day) == ArmOf(b, "contribution", from, to, day)
TaxItems(b, from, to, day) == ArmOf(b, "tax", from, to, day)

\* A card has one line for each day on which instalments are due.
CardItems(b, from, to, day) ==
  LET asked == {k \in Live(b, "card") :
                  b.dues[k].due \in from..to \/ b.dues[k].due < AtMost(from, day)}
      lines == {b.dues[k].due : k \in asked}
      On(d) == {k \in asked : b.dues[k].due = d}
      Total(d) == SumFunction([k \in On(d) |-> b.dues[k].amount])
      Paid(d) == SumFunction([k \in On(d) |-> Settled(b, k, day)])
  IN {Item(<<"card", d>>, "card", d, Total(d), Paid(d), Status(Total(d), Paid(d), d, day)) :
        d \in {n \in lines : n >= from \/ Total(n) - Paid(n) > 0}}

\* Expenses (paid neither by card nor through an account) that are planned for later.
OtherItems(b, from, to, day) ==
  {Item(<<"other", k>>, "other", b.dues[k].due, b.dues[k].amount, 0, "scheduled") :
     k \in {j \in Live(b, "other") : b.dues[j].due \in from..to /\ b.dues[j].due > day}}

DueItems(b, from, to, day) ==
  ReceivableItems(b, from, to, day) \cup ContributionItems(b, from, to, day) \cup
  CardItems(b, from, to, day) \cup TaxItems(b, from, to, day) \cup
  OtherItems(b, from, to, day)

\* The occurrences of the plan that are not realized yet, and when each is paid.
Occurrences(b, to) ==
  {n \in Days : /\ b.plan.active /\ n <= to
                /\ b.plan.ends # 0 => n <= b.plan.ends
                /\ n >= b.plan.next /\ (n - b.plan.next) % PlanEvery = 0}
Event(b, n) == IF b.plan.card THEN n + CardDelay ELSE n
BelongsToReport(event, from, to, day) == event <= to /\ (event < day \/ event >= from)

PlanItems(b, from, to, day) ==
  {Item(<<"plan", n>>, IF b.plan.card THEN "card" ELSE "other", Event(b, n), b.plan.amount, 0,
        IF Event(b, n) < day THEN "overdue" ELSE "planned") :
     n \in {j \in Occurrences(b, to) : BelongsToReport(Event(b, j), from, to, day)}}

AmountOf(b, S) == SumFunction([k \in S |-> b.dues[k].amount])
Unclassified(b, from, to, day) ==
  AmountOf(b, {k \in Live(b, "other") : b.dues[k].due \in from..to /\ b.dues[k].due <= day})

-----------------------------------------------------------------------------
(* The cash flow report.                                                   *)

\* Periods end with the calendar's weeks or months; the last one with the range.
PeriodEnd(unit, cursor, to) ==
  LET ends == {d \in IF unit = "weekly" THEN WeekEnds ELSE MonthEnds : d >= cursor}
  IN IF ends # {} /\ Min(ends) < to THEN Min(ends) ELSE to

PeriodBounds(unit, from, to) ==
  LET bounds[cursor \in from..to] ==
        LET end == PeriodEnd(unit, cursor, to)
        IN <<<<cursor, end>>>> \o IF end = to THEN <<>> ELSE bounds[end + 1]
  IN bounds[from]

Amounts(items) == SumFunction([i \in items |-> i.left])
InflowOf(items) == {i \in items : i.side = "inflow"}
OutflowOf(items) == {i \in items : i.side = "outflow"}

\* Every line of the forecast has an amount; days before today are overdue.
Lines(items) == {i \in items : i.left > 0}
Overdue(items, day) == {i \in Lines(items) : i.due < day}
Scheduled(items, from, to, day) == {i \in Lines(items) : i.due >= day /\ i.due \in from..to}

\* The list under the forecast.
ReportDueItems(items, from, to) ==
  {i \in items : i.due \in from..to \/ (i.due < from /\ i.status = "overdue")}

\* What a period adds to the balance, of the lines that were read.
Adds(period) ==
  SumFunction([d \in {x \in DOMAIN r.actual : x >= period[1] /\ x <= period[2]} |->
                 r.openings[d] + r.actual[d].inflow - r.actual[d].outflow])

RunningBalance ==
  LET periods == PeriodBounds(r.unit, r.from, r.to)
      after[n \in 0..Len(periods)] ==
        IF n = 0 THEN r.balance.opening ELSE after[n - 1] + Adds(periods[n])
  IN after[Len(periods)]

\* A consistent read: every statement sees the books as the first one did.
\* Mutant: a transaction whose statements each see what is committed.
Committed == books
View == IF r.view = <<>> THEN books ELSE r.view[1]

Read(step, next, answer) ==
  /\ r.kind = "cash" /\ r.step = step
  /\ r' = [answer EXCEPT !.step = next, !.view = <<View>>]
  /\ UNCHANGED <<today, books, changes, reports>>

Ask(kind, from, to, unit, step) ==
  /\ r.step \in {"done", "failed"}
  /\ reports < MaxReports
  /\ reports' = reports + 1
  /\ r' = [NoReport EXCEPT !.kind = kind, !.step = step, !.from = from, !.to = to,
                           !.unit = unit, !.today = today]
  /\ UNCHANGED <<today, books, changes>>

\* The day is taken before the snapshot is.
GetCashFlowReport(range) == Ask("cash", range[1], range[2], range[3], "ledger")

ReadLedger == Read("ledger", IF LedgerSound(View) THEN "balance" ELSE "failed", r)

ReadBalance ==
  Read("balance", "openings",
    [r EXCEPT !.balance = [opening |-> BalanceUpTo(View, Until(r.from - 1) \cap Until(r.today)),
                           closing |-> BalanceUpTo(View, Until(r.to) \cap Until(r.today))]])

Shown == {d \in r.from..r.to : d <= r.today}

ReadOpenings == Read("openings", "actual", [r EXCEPT !.openings = [d \in Shown |-> Opened(View, {d})]])

ReadActual ==
  Read("actual", "due",
    [r EXCEPT !.actual = [d \in Shown |-> [inflow |-> Turnover(View, d, "income"),
                                           outflow |-> Turnover(View, d, "expense")]]])

ReadDueItems == Read("due", "unclassified", [r EXCEPT !.due = DueItems(View, r.from, r.to, r.today)])

ReadUnclassified ==
  Read("unclassified", "plans",
    [r EXCEPT !.unclassified = Unclassified(View, r.from, r.to, r.today)])

ReadPlans ==
  Read("plans", "compose", [r EXCEPT !.plans = PlanItems(View, r.from, r.to, r.today)])

Compose ==
  Read("compose", IF RunningBalance = r.balance.closing THEN "done" ELSE "failed", r)

-----------------------------------------------------------------------------
(* The digest of the morning: what is open and due, in two statements.     *)

DigestDues(b, day) ==
  {[k |-> k, left |-> Left(b, k, day)] :
     k \in {j \in 1..Len(b.dues) : /\ b.dues[j].live /\ b.dues[j].due <= day
                                   /\ b.dues[j].kind # "other" /\ Left(b, j, day) > 0}}
DigestPlans(b, day) == {n \in Occurrences(b, day) : Event(b, n) <= day}

\* Mutant: plans are read before what has come of them.
PlansFirst == <<"plans", "dues", "done">>
DigestOrder == <<"dues", "plans", "done">>

EnqueueDailyDigest == Ask("digest", 1, MaxDay, "weekly", DigestOrder[1])

ListOpenItems ==
  LET at == CHOOSE n \in 1..2 : DigestOrder[n] = r.step IN
  /\ r.kind = "digest" /\ r.step \in {"dues", "plans"}
  /\ r' = [IF r.step = "dues" THEN [r EXCEPT !.due = DigestDues(books, r.today)]
           ELSE [r EXCEPT !.plans = DigestPlans(books, r.today)]
           EXCEPT !.step = DigestOrder[at + 1]]
  /\ UNCHANGED <<today, books, changes, reports>>

-----------------------------------------------------------------------------
(* Project reports and the receivables page.                               *)

MonthOf(day) == 1 + Cardinality({d \in MonthEnds : d < day})
Months == 1..MonthOf(MaxDay)

\* A receivable without a month of its own (an opening balance) belongs to that of its
\* due date; contributions have one.
\* Mutant: the first day of the next month belongs to this one, too.
UpToNextMonth(b, k, m) ==
  \/ b.dues[k].month = m
  \/ b.dues[k].month = 0 /\ m \in {MonthOf(b.dues[k].due), MonthOf(b.dues[k].due - 1)}
InMonth(b, k, m) == \/ b.dues[k].month = m
                    \/ b.dues[k].month = 0 /\ MonthOf(b.dues[k].due) = m

LeftOf(b, S) == SumFunction([k \in S |-> Left(b, k, MaxDay)])
MonthOutstanding(b, kind, m, S) ==
  LeftOf(b, {k \in Live(b, kind) : InMonth(b, k, m) /\ b.dues[k].due \in S})

\* overdueAmount of the portfolio, of all projects and of what has none.
ProjectsOverdue(b, m, day) ==
  MonthOutstanding(b, "receivable", m, Until(day - 1)) +
  MonthOutstanding(b, "contribution", m, Until(day - 1))

\* summary.overdue of the receivables page.
ReceivablesOverdue(b, day) ==
  LeftOf(b, {k \in Live(b, "receivable") :
               Status(b.dues[k].amount, Net(b, k, MaxDay), b.dues[k].due, day) = "overdue"})

-----------------------------------------------------------------------------
(* The requests that change the books.                                     *)

Change(next) ==
  /\ changes < MaxChanges
  /\ changes' = changes + 1
  /\ books' = next
  /\ UNCHANGED <<today, r, reports>>

\* What belongs to a collection, a payment or an expense is taken back with it only.
Posted(b, day, type, amount, back, managed) ==
  [b EXCEPT !.moves = Append(@, [day |-> day, type |-> type, amount |-> amount, back |-> back,
                                 managed |-> managed])]

Entered(b, k, day, amount, back, move) ==
  [b EXCEPT !.entries = Append(@, [of |-> k, day |-> day, amount |-> amount, back |-> back,
                                   move |-> move])]

Fits(k, n) == n <= Left(books, k, MaxDay)

SideOf(kind) == IF kind = "card" THEN "expense" ELSE "income"

\* Collections and payments of instalments are posted to the ledger.
SettleDue(kind, k, n, day) ==
  /\ k \in Live(books, kind) /\ day <= today /\ Fits(k, n)
  /\ Change(Entered(Posted(books, day, SideOf(kind), n, 0, TRUE), k, day, n, 0,
                    Len(books.moves) + 1))

CreateCollection(k, n, day) == SettleDue("receivable", k, n, day)
PayInstallment(k, n, day) == SettleDue("card", k, n, day)

Active(b, k) == {e \in Entries(b, k) : /\ b.entries[e].back = 0
                                       /\ \A f \in Entries(b, k) : b.entries[f].back # e}

\* The entries of an earlier release have no movement.
TakenBack(b, e, day) ==
  LET x == b.entries[e]
      type == Opposite(SideOf(b.dues[x.of].kind))
  IN IF x.move = 0 THEN Entered(b, x.of, today, x.amount, e, 0)
     ELSE Entered(Posted(b, day, type, x.amount, x.move, TRUE), x.of, today, x.amount, e,
                  Len(b.moves) + 1)

ReverseCollection(e) ==
  LET k == books.entries[e].of IN
  /\ k \in Live(books, "receivable") /\ e \in Active(books, k)
  /\ Change(TakenBack(books, e, today))

\* All payments of an instalment are taken back at once, each on the day of its movement.
ReopenInstallment(k) ==
  LET back[n \in 0..Len(books.entries)] ==
        IF n = 0 THEN [books EXCEPT !.dues[k].paid = 0]
        ELSE IF n \in Active(books, k) THEN TakenBack(back[n - 1], n, books.entries[n].day)
        ELSE back[n - 1]
  IN /\ k \in Live(books, "card")
     /\ Active(books, k) # {} \/ books.dues[k].paid # 0
     /\ Change(back[Len(books.entries)])

\* A receipt of a contribution is not posted.
CreateReceipt(k, n, day) ==
  /\ k \in Live(books, "contribution") /\ day <= today /\ Fits(k, n)
  /\ Change(Entered(books, k, day, n, 0, 0))

VoidReceivable(k) ==
  /\ k \in Live(books, "receivable") /\ Net(books, k, MaxDay) = 0
  /\ Change([books EXCEPT !.dues[k].live = FALSE])

PayTax(k, day) ==
  /\ k \in Live(books, "tax") /\ books.dues[k].paid = 0 /\ day <= today
  /\ Change([books EXCEPT !.dues[k].paid = day])

Realize ==
  LET n == books.plan.next
      next == n + PlanEvery
      planned == [books EXCEPT !.plan.next = next,
                               !.plan.active = books.plan.ends = 0 \/ next <= books.plan.ends]
  IN /\ books.plan.active /\ n <= today /\ Event(books, n) <= MaxDay
     /\ Change(IF books.plan.card
               THEN [planned EXCEPT !.dues =
                      Append(@, [kind |-> "card", due |-> Event(books, n), month |-> 0,
                                 amount |-> books.plan.amount, live |-> TRUE, paid |-> 0,
                                 occurrence |-> n])]
               ELSE Posted(planned, n, "expense", books.plan.amount, 0, TRUE))

CreateMovement(type, n, day) ==
  /\ day <= today /\ day >= books.accounts[1].day
  /\ Change(Posted(books, day, type, n, 0, FALSE))

ReverseMovement(i) ==
  LET x == books.moves[i] IN
  /\ i \in Effective(books) /\ ~x.managed
  /\ Change(Posted(books, today, Opposite(x.type), x.amount, i, FALSE))

CreateAccount(n) ==
  Change([books EXCEPT !.accounts = Append(@, [day |-> today, amount |-> n])])

NextDay ==
  /\ today < MaxDay
  /\ today' = today + 1
  /\ UNCHANGED <<books, r, changes, reports>>

-----------------------------------------------------------------------------
(* The books, as the tables and the requests keep them.                    *)

\* Behaviours begin on this day; nothing that has happened has a later day than today.
FirstDay == 2

BooksType(day) ==
  [accounts : Seq([day : Until(day), amount : Int]),
   moves : Seq([day : Until(day), type : {"income", "expense", "transfer"}, amount : Nat,
                back : Nat, managed : BOOLEAN]),
   dues : Seq([kind : {"receivable", "contribution", "card", "tax", "other"}, due : Days,
               month : Months \cup {0}, amount : Nat, live : BOOLEAN,
               paid : Until(day) \cup {0}, occurrence : Nat]),
   entries : Seq([of : Nat, day : Until(day), amount : Nat, back : Nat, move : Nat]),
   plan : [active : BOOLEAN, next : Nat \ {0}, card : BOOLEAN, amount : Nat, ends : Nat]]

MovesSound(b) == LedgerSound(b) /\ \A i \in 1..Len(b.moves) : b.moves[i].back \in 0..Len(b.moves)

\* What settles a due has the movement that was posted with it, and what takes it back
\* has the reversal of that movement.
EntrySound(b, e) ==
  LET x == b.entries[e]
      y == b.entries[x.back]
      m == b.moves[x.move]
      kind == b.dues[x.of].kind
  IN /\ x.of \in 1..Len(b.dues) /\ kind \in {"receivable", "card", "contribution"}
     /\ x.back # 0 => /\ x.back \in 1..Len(b.entries) /\ y.back = 0
                      /\ y.of = x.of /\ y.amount = x.amount
                      /\ (y.move = 0) = (x.move = 0)
                      /\ x.move # 0 => m.back = y.move
     /\ x.move # 0 => /\ x.move \in 1..Len(b.moves) /\ kind # "contribution"
                      /\ m.managed /\ m.amount = x.amount
                      /\ x.back = 0 => m.back = 0 /\ m.type = SideOf(kind)

\* Nothing is taken back twice, and no movement belongs to two entries.
EntriesApart(b) ==
  \A e, f \in 1..Len(b.entries) :
    e # f => /\ b.entries[e].back # 0 => b.entries[e].back # b.entries[f].back
             /\ b.entries[e].move # 0 => b.entries[e].move # b.entries[f].move

\* A movement that belongs to an entry is taken back with the entry only.
MovesFollow(b) ==
  \A i \in 1..Len(b.moves) :
    b.moves[i].back # 0 /\ b.moves[b.moves[i].back].managed =>
      \E e \in 1..Len(b.entries) : b.entries[e].back # 0 /\ b.entries[e].move = i

\* Nothing is settled by more than it is worth, or void and settled.
DueSound(b, k) ==
  LET due == b.dues[k] IN
  /\ Net(b, k, MaxDay) \in 0..due.amount
  /\ ~due.live => Net(b, k, MaxDay) = 0 /\ due.paid = 0
  /\ due.paid # 0 => due.kind = "tax" \/ (due.kind = "card" /\ due.paid <= FirstDay)
  /\ due.occurrence < b.plan.next

Sound(b, day) ==
  /\ b \in BooksType(day)
  /\ MovesSound(b) /\ EntriesApart(b) /\ MovesFollow(b)
  /\ \A e \in 1..Len(b.entries) : EntrySound(b, e)
  /\ \A k \in 1..Len(b.dues) : DueSound(b, k)

ASSUME StartsAssumption == \A b \in Starts : Sound(b, FirstDay)

-----------------------------------------------------------------------------
ReportInit ==
  /\ today = FirstDay
  /\ books \in Starts
  /\ r = NoReport
  /\ changes = 0 /\ reports = 0

Changed ==
  \/ \E k \in 1..Len(books.dues), n \in 1..2, day \in Until(today) :
       CreateCollection(k, n, day) \/ PayInstallment(k, n, day) \/ CreateReceipt(k, n, day)
  \/ \E k \in 1..Len(books.dues) : VoidReceivable(k) \/ \E day \in Until(today) : PayTax(k, day)
  \/ \E e \in 1..Len(books.entries) : ReverseCollection(e)
  \/ \E k \in 1..Len(books.dues) : ReopenInstallment(k)
  \/ Realize
  \/ \E type \in {"income", "expense", "transfer"}, day \in Until(today) : CreateMovement(type, 1, day)
  \/ \E i \in 1..Len(books.moves) : ReverseMovement(i)
  \/ CreateAccount(1)

Reported ==
  \/ \E range \in Ranges : GetCashFlowReport(range)
  \/ ReadLedger \/ ReadBalance \/ ReadOpenings \/ ReadActual \/ ReadDueItems
  \/ ReadUnclassified \/ ReadPlans \/ Compose
  \/ EnqueueDailyDigest \/ ListOpenItems

ReportNext == Changed \/ Reported \/ NextDay

ReportSpec == ReportInit /\ [][ReportNext]_reportVars

-----------------------------------------------------------------------------
(* Properties.                                                             *)

\* Type invariant of the books and of a report.
ReportTypeOK ==
  /\ today \in Days
  /\ changes \in 0..MaxChanges /\ reports \in 0..MaxReports
  /\ r.kind \in {"none", "cash", "digest"} /\ r.today \in Until(today)
  /\ Sound(books, today)

\* The periods of a cash flow report add up to the closing balance it has read separately,
\* whatever is committed between its statements and whichever range was asked for
\* (composeCashFlowReport fails otherwise).
ReportReconciles == r.step # "failed"

Finished == r.kind = "cash" /\ r.step = "done"
Whole == r.from = 1 /\ r.to = MaxDay
SameDay(b) == /\ \A i \in 1..Len(b.moves) : b.moves[i].day <= r.today
              /\ \A e \in 1..Len(b.entries) : b.entries[e].day <= r.today
ActualOf(side) == SumFunction([d \in DOMAIN r.actual |-> r.actual[d][side]])
\* What was settled without a movement: of one, and of all of a kind.
Old(b, k) == {e \in Entries(b, k) : b.entries[e].move = 0}
WithoutMove(b, k) ==
  IF b.dues[k].kind = "contribution" THEN Net(b, k, MaxDay)
  ELSE SumFunction([e \in Old(b, k) |-> Worth(b, e)])
         + IF Entries(b, k) = {} THEN MarkedPaid(b, k) ELSE 0
Unposted(b, kind) == SumFunction([k \in Live(b, kind) |-> WithoutMove(b, k)])
\* Movements that settle nothing.
PlainMoves(b, type) ==
  {i \in Effective(b) : /\ b.moves[i].type = type
                        /\ \A e \in 1..Len(b.entries) : b.entries[e].move # i}
Plain(b, type) == SumFunction([i \in PlainMoves(b, type) |-> b.moves[i].amount])

\* A report of all days, read before the day ends, has every amount once: what came in or went out, what is forecast,
\* and what was settled without a movement make up what was ever due, the occurrences of
\* the plan that are still ahead, and the movements that settle nothing.
CountedOnce ==
  Finished /\ Whole /\ SameDay(r.view[1]) =>
    LET b == r.view[1]
        forecast == r.due \cup r.plans
        ahead == Cardinality({n \in Occurrences(b, MaxDay) : Event(b, n) <= MaxDay})
                   * b.plan.amount
    IN /\ ActualOf("inflow") + Amounts(InflowOf(forecast))
            + Unposted(b, "receivable") + Unposted(b, "contribution")
          = AmountOf(b, Live(b, "receivable") \cup Live(b, "contribution")) + Plain(b, "income")
       /\ ActualOf("outflow") + Amounts(OutflowOf(forecast)) + r.unclassified
            + Unposted(b, "card") + Unposted(b, "tax")
          = AmountOf(b, Live(b, "card") \cup Live(b, "tax") \cup Live(b, "other"))
            + ahead + Plain(b, "expense")

\* The list of what is due and the totals above it say the same: what the list calls
\* overdue is the overdue total, and what else is left in it is the scheduled total.
ListMatchesTotals ==
  Finished =>
    LET items == r.due \cup r.plans
        list == ReportDueItems(items, r.from, r.to)
        late == {i \in list : i.status = "overdue"}
    IN /\ Amounts(late) = Amounts(Overdue(items, r.today))
       /\ Amounts(list \ late) = Amounts(Scheduled(items, r.from, r.to, r.today))

\* The reports agree about the same books: what is overdue in all months of the project
\* reports is what is overdue in the cash flow report, of which the receivables page has
\* the part of the customers; and the digest of a day is what is overdue on the next.
ReportsAgree ==
  LET items(day) == DueItems(books, 1, MaxDay, day) \cup PlanItems(books, 1, MaxDay, day)
      late == Overdue(items(today), today)
  IN /\ SumFunction([m \in Months |-> ProjectsOverdue(books, m, today)])
          = Amounts(InflowOf(late))
     /\ ReceivablesOverdue(books, today) = Amounts({i \in late : i.kind = "receivable"})
     /\ Amounts(DigestDues(books, today))
          + Cardinality(DigestPlans(books, today)) * books.plan.amount
        = Amounts(Overdue(items(today + 1), today + 1))

\* The digest has an occurrence of a plan or the instalment that came of it, never both,
\* although its statements do not see the same books.
DigestNeverTwice ==
  r.kind = "digest" /\ r.step = "done" =>
    \A x \in r.due : \A n \in r.plans : books.dues[x.k].occurrence # n

\* The books are of their types, and every report of them reconciles.
BooksReconcile == ReportTypeOK /\ ReportReconciles

\* The totals of a report, and its list, have what the books have.
TotalsComplete == CountedOnce /\ ListMatchesTotals
=============================================================================
