-------------------------------- MODULE Dues --------------------------------
(***************************************************************************)
(* Records that are created once per operation key: tax obligations,       *)
(* partnership commissions and contributions with their receipts, plans of *)
(* recurring expenses, expense categories (src/features/finance and        *)
(* partnership-finance).                                                   *)
(*                                                                         *)
(* A creation looks for its key, looks whether its slot is taken (the type *)
(* and period of a tax, the project and month of a contribution, the name  *)
(* of a category), locks the project if it has one, inserts, and commits.  *)
(* FOR UPDATE waits for a row that is not committed and locks nothing when *)
(* there is no row (READ COMMITTED), so the same request sent twice may    *)
(* come past the first look twice.  The unique indexes decide in the end.  *)
(*                                                                         *)
(* These tables have nothing to do with each other, so a behaviour is      *)
(* about one kind of record, and about one project.  An edit locks the row *)
(* and needs its current version: it is one step.                          *)
(***************************************************************************)
EXTENDS Integers, FiniteSets, FiniteSetsExt, TLC

CONSTANTS
  Workers,
  Keys,            \* operation keys of records
  Slots,           \* a type and period, a project and month, or a name
  ReceiptKeys,     \* operation keys of receipts and of their reversals
  MaxExpected,     \* bound: what can be expected of a contribution
  MaxDay,          \* the days of a behaviour are 1..MaxDay
  MaxVersion,      \* how often a plan is changed
  None

ASSUME DuesAssumption ==
  MaxExpected \in Nat \ {0} /\ MaxDay \in Nat \ {0} /\ MaxVersion \in Nat \ {0}
ASSUME NoneAssumption == None \notin Keys \cup Slots \cup ReceiptKeys

VARIABLES
  kind,            \* the kind of record of this behaviour
  today,
  record,          \* the committed records, by key
  receipt,         \* partnership_contribution_receipt, by key
  expenses,        \* what realised plans have become
  audits,          \* how often each creation is in the audit trail
  session          \* the request of each worker: its step, locks and contents

dueVars == <<kind, today, record, receipt, expenses, audits, session>>

Kinds == {"tax", "commission", "contribution", "plan", "category"}
HasSlot == kind \in {"tax", "contribution", "category"}
HasProject == kind \in {"commission", "contribution"}

NoRecord == [status |-> "absent", slot |-> None, amount |-> 0, received |-> 0,
             due |-> 0, ends |-> 0, version |-> 0]
NoReceipt == [target |-> None, amount |-> 0, of |-> None]
NoSession == [step |-> "idle", key |-> None, row |-> NoRecord, held |-> {},
              receipt |-> NoReceipt]

Init ==
  /\ kind \in Kinds
  /\ today = 1
  /\ record = [k \in Keys |-> NoRecord]
  /\ receipt = [r \in ReceiptKeys |-> NoReceipt]
  /\ expenses = {}
  /\ audits = [k \in Keys \cup ReceiptKeys |-> 0]
  /\ session = [w \in Workers |-> NoSession]

Free(w, locks) == \A v \in Workers \ {w} : session[v].held \cap locks = {}
Go(w, s) == session' = [session EXCEPT ![w] = s]
Answer(w) == Go(w, NoSession)

\* The inserts of others that are not committed: they hold their key and their slot.
Inserting(w) == {v \in Workers \ {w} : session[v].step = "inserted"}
KeyFree(w, k) == \A v \in Inserting(w) : session[v].key # k
SlotFree(w, s) == HasSlot => \A v \in Inserting(w) : session[v].row.slot # s
SlotTaken(s, except) == HasSlot /\ \E k \in Keys \ except : record[k].slot = s

-----------------------------------------------------------------------------
(* Creation.                                                               *)

\* What a request may ask for.  A VAT amount comes out as it does.
Row(status, slot, amount) ==
  [status |-> status, slot |-> slot, amount |-> amount, received |-> 0,
   due |-> 0, ends |-> 0, version |-> 1]
PlanRow(due, ends) ==
  [status |-> "active", slot |-> None, amount |-> 0, received |-> 0,
   due |-> due, ends |-> ends, version |-> 1]
TaxRows == {Row(st, s, a) : s \in Slots, st \in {"planned", "paid", "voided"}, a \in {0, 1}}
CommissionRows ==
  {Row(st, s, 1) : s \in Slots, st \in {"expected", "collected", "paid", "cancelled"}}
ContributionRows == {Row("expected", s, a) : s \in Slots, a \in 1..MaxExpected}
PlanRows == {PlanRow(d, e) : d \in 1..MaxDay, e \in 0..MaxDay}
CategoryRows == {Row("active", s, 0) : s \in Slots}

\* A zero tax is not paid; a plan does not end before it is due (0: it has no end).
Valid(row) ==
  /\ kind = "tax" /\ row.status = "paid" => row.amount > 0
  /\ kind = "plan" /\ row.status = "active" => row.ends = 0 \/ row.due <= row.ends

\* The stored record is what the request asks for: what was edited since is not.
\* An amount of VAT is the server's.
Matches(stored, row) ==
  [stored EXCEPT !.version = 1, !.amount = IF kind = "tax" THEN row.amount ELSE @] = row

\* Records without a slot do not meet: a behaviour needs one of them.
Alone(k) == \A l \in Keys \ {k} : record[l] = NoRecord /\ \A v \in Workers : session[v].key # l

Ask(w, k, row) ==
  /\ session[w].step = "idle"
  /\ HasSlot \/ Alone(k)
  /\ Valid(row)
  /\ Go(w, [NoSession EXCEPT !.step = "key", !.key = k, !.row = row])
  /\ UNCHANGED <<kind, today, record, receipt, expenses, audits>>

LookForKey(w) ==
  LET s == session[w] IN
  /\ s.step = "key"
  /\ KeyFree(w, s.key)
  /\ IF record[s.key] # NoRecord THEN Answer(w)   \* a replay, or a conflict
     ELSE Go(w, [s EXCEPT !.step = IF HasSlot THEN "slot" ELSE "parents"])
  /\ UNCHANGED <<kind, today, record, receipt, expenses, audits>>

LookForSlot(w) ==
  LET s == session[w] IN
  /\ s.step = "slot"
  /\ SlotFree(w, s.row.slot)
  /\ IF SlotTaken(s.row.slot, {}) THEN Answer(w)
     ELSE Go(w, [s EXCEPT !.step = "parents"])
  /\ UNCHANGED <<kind, today, record, receipt, expenses, audits>>

ProjectLock == IF HasProject THEN {<<"project">>} ELSE {}
LockParents(w) ==
  /\ session[w].step = "parents"
  /\ Free(w, ProjectLock)
  /\ Go(w, [session[w] EXCEPT !.step = "insert", !.held = ProjectLock])
  /\ UNCHANGED <<kind, today, record, receipt, expenses, audits>>

\* The same request was faster: most kinds see by its id that the stored record is
\* another's, commissions and contributions take it for their own.
\* Mutant: no kind compares the ids.
NeverCompares(k) == FALSE
Compares(k) == k \in {"tax", "plan", "category"}

Insert(w) ==
  LET s == session[w]
      stored == record[s.key] IN
  /\ s.step = "insert"
  /\ KeyFree(w, s.key) /\ SlotFree(w, s.row.slot)
  /\ IF stored # NoRecord
       THEN IF Matches(stored, s.row) /\ ~Compares(kind)
            THEN Go(w, [s EXCEPT !.step = "found"])
            ELSE Answer(w)
     ELSE IF SlotTaken(s.row.slot, {}) THEN Answer(w)
     ELSE Go(w, [s EXCEPT !.step = "inserted"])
  /\ UNCHANGED <<kind, today, record, receipt, expenses, audits>>

CommitCreation(w) ==
  LET s == session[w] IN
  /\ s.step \in {"inserted", "found"}
  /\ record' = IF s.step = "inserted" THEN [record EXCEPT ![s.key] = s.row] ELSE record
  /\ audits' = [audits EXCEPT ![s.key] = @ + 1]
  /\ Answer(w)
  /\ UNCHANGED <<kind, today, receipt, expenses>>

\* A deadlock, a lock wait timeout, a lost connection: all is rolled back.
Fail(w) ==
  /\ session[w].step # "idle"
  /\ Answer(w)
  /\ UNCHANGED <<kind, today, record, receipt, expenses, audits>>

-----------------------------------------------------------------------------
(* Edits.                                                                  *)

Edit(w, k, row) ==
  /\ session[w].step = "idle"
  /\ record[k] # NoRecord /\ record[k].version < MaxVersion
  /\ Free(w, {<<"row", k>>} \cup ProjectLock)
  /\ Valid(row)
  /\ SlotFree(w, row.slot) /\ ~SlotTaken(row.slot, {k})
  /\ record' = [record EXCEPT ![k] = [row EXCEPT !.version = record[k].version + 1]]
  /\ UNCHANGED <<kind, today, receipt, expenses, audits, session>>

UpdateTax(w, k) ==
  /\ \E s \in Slots, st \in {"planned", "paid", "voided"}, a \in {0, 1} :
       Edit(w, k, [record[k] EXCEPT !.slot = s, !.status = st, !.amount = a])

\* What was collected keeps its basis, what was paid or cancelled is final.
CommissionMayBecome(before, after) ==
  \/ before.status = "expected"
  \/ /\ before.amount = after.amount /\ before.slot = after.slot
     /\ \/ before.status = after.status
        \/ before.status = "collected" /\ after.status = "paid"
UpdateCommission(w, k) ==
  /\ \E s \in Slots, st \in {"expected", "collected", "paid", "cancelled"}, a \in {1, 2} :
       LET after == [record[k] EXCEPT !.slot = s, !.status = st, !.amount = a] IN
       CommissionMayBecome(record[k], after) /\ Edit(w, k, after)

\* What is expected can get another slot and amount, or be cancelled; once something was
\* received only notes change, and the version.
\* Mutant: the amount can be edited in every status.
AmountStaysOpen(before, after) ==
  \/ before.status = "expected" /\ after.status \in {"expected", "cancelled"}
  \/ before.status = after.status /\ before.slot = after.slot
ContributionMayBecome(before, after) ==
  \/ before.status = "expected" /\ after.status \in {"expected", "cancelled"}
  \/ before.status = after.status /\ before.slot = after.slot /\ before.amount = after.amount
UpdateContribution(w, k) ==
  /\ \E s \in Slots, st \in {record[k].status, "cancelled"}, a \in 1..MaxExpected :
       LET after == [record[k] EXCEPT !.slot = s, !.status = st, !.amount = a] IN
       ContributionMayBecome(record[k], after) /\ Edit(w, k, after)

UpdatePlan(w, k) ==
  /\ \E d \in 1..MaxDay, e \in 0..MaxDay, st \in {"active", "paused"} :
       Edit(w, k, [record[k] EXCEPT !.due = d, !.ends = e, !.status = st])

-----------------------------------------------------------------------------
(* Receipts of contributions and their reversals.                          *)

AskReceipt(w, r, what) ==
  /\ session[w].step = "idle"
  /\ record[what.target] # NoRecord
  /\ Go(w, [NoSession EXCEPT !.step = "receiptKey", !.key = r, !.receipt = what])
  /\ UNCHANGED <<kind, today, record, receipt, expenses, audits>>

LookForReceipt(w) ==
  LET s == session[w] IN
  /\ s.step = "receiptKey"
  /\ IF receipt[s.key] # NoReceipt THEN Answer(w)
     ELSE Go(w, [s EXCEPT !.step = "contribution"])
  /\ UNCHANGED <<kind, today, record, receipt, expenses, audits>>

\* Reads the contribution, and the receipt a reversal is of.
LockContribution(w) ==
  LET s == session[w]
      locks == {<<"row", s.receipt.target>>}
               \cup IF s.receipt.of = None THEN {} ELSE {<<"receipt", s.receipt.of>>} IN
  /\ s.step = "contribution"
  /\ Free(w, locks)
  /\ Go(w, [s EXCEPT !.step = "received", !.held = locks, !.row = record[s.receipt.target]])
  /\ UNCHANGED <<kind, today, record, receipt, expenses, audits>>

Reversed(r) == \E q \in ReceiptKeys : receipt[q].of = r
Acceptable(row, what) ==
  IF what.of = None
  THEN row.status \in {"expected", "partial"} /\ row.received + what.amount <= row.amount
  ELSE ~Reversed(what.of) /\ row.received >= what.amount

StatusOf(row) ==
  IF row.received = 0 THEN "expected" ELSE IF row.received = row.amount THEN "received" ELSE "partial"

\* insertContributionReceiptIdempotently and the new total of the contribution, which is
\* written over the version that was read or not at all.
CommitReceipt(w) ==
  LET s == session[w]
      what == s.receipt
      k == what.target
      total == [s.row EXCEPT !.version = @ + 1,
                             !.received = IF what.of = None THEN @ + what.amount ELSE @ - what.amount] IN
  /\ s.step = "received"
  /\ IF /\ Acceptable(s.row, what) /\ receipt[s.key] = NoReceipt
        /\ record[k].version = s.row.version
     THEN /\ receipt' = [receipt EXCEPT ![s.key] = what]
          /\ record' = [record EXCEPT ![k] = [total EXCEPT !.status = StatusOf(total)]]
          /\ audits' = [audits EXCEPT ![s.key] = @ + 1]
     ELSE UNCHANGED <<receipt, record, audits>>
  /\ Answer(w)
  /\ UNCHANGED <<kind, today, expenses>>

-----------------------------------------------------------------------------
(* Realising a plan: its sender saw a version of it.                       *)

AskRealize(w, k) ==
  /\ session[w].step = "idle"
  /\ record[k] # NoRecord
  /\ Go(w, [NoSession EXCEPT !.step = "realize", !.key = k, !.row = record[k]])
  /\ UNCHANGED <<kind, today, record, receipt, expenses, audits>>

\* Mutant: the version the sender saw is not compared.
AnyVersion(seen, now) == TRUE
SameVersion(seen, now) == seen.version = now.version

\* Mutant: a plan stays active past its end.
NeverPauses(plan, due) == "active"
StatusAfter(plan, due) == IF plan.ends # 0 /\ due > plan.ends THEN "paused" ELSE "active"

\* nextOccurrenceOn takes the plan to its next day.
Realize(w) ==
  LET k == session[w].key
      seen == session[w].row
      now == record[k]
      due == now.due + 1 IN
  /\ session[w].step = "realize"
  /\ IF SameVersion(seen, now) /\ now.status = "active" /\ now.due <= today
     THEN /\ now.version < MaxVersion
          /\ expenses' = expenses \cup {[plan |-> k, version |-> now.version,
                                         due |-> now.due, seen |-> seen.due]}
          /\ record' = [record EXCEPT ![k] =
               [now EXCEPT !.due = due, !.version = @ + 1, !.status = StatusAfter(now, due)]]
     ELSE UNCHANGED <<expenses, record>>
  /\ Answer(w)
  /\ UNCHANGED <<kind, today, receipt, audits>>

NextDay ==
  /\ kind = "plan" /\ today < MaxDay
  /\ today' = today + 1
  /\ UNCHANGED <<kind, record, receipt, expenses, audits, session>>

-----------------------------------------------------------------------------

Receipts == {[target |-> k, amount |-> a, of |-> None] : k \in Keys, a \in 1..MaxExpected}
Reversible == {r \in ReceiptKeys : receipt[r].target # None /\ receipt[r].of = None}
Reversals == {[receipt[r] EXCEPT !.of = r] : r \in Reversible}

TaxesApi(w) == kind = "tax" /\ \E k \in Keys, row \in TaxRows : Ask(w, k, row)
TaxApi(w) == kind = "tax" /\ \E k \in Keys : UpdateTax(w, k)
CommissionsApi(w) ==
  kind = "commission" /\ \E k \in Keys, row \in CommissionRows : Ask(w, k, row)
CommissionApi(w) == kind = "commission" /\ \E k \in Keys : UpdateCommission(w, k)
ContributionsApi(w) ==
  kind = "contribution" /\ \E k \in Keys, row \in ContributionRows : Ask(w, k, row)
ContributionApi(w) == kind = "contribution" /\ \E k \in Keys : UpdateContribution(w, k)
ReceiptsApi(w) ==
  kind = "contribution" /\ \E r \in ReceiptKeys, what \in Receipts : AskReceipt(w, r, what)
ReversalsApi(w) ==
  kind = "contribution" /\ \E r \in ReceiptKeys, what \in Reversals : AskReceipt(w, r, what)
PlansApi(w) == kind = "plan" /\ \E k \in Keys, row \in PlanRows : Ask(w, k, row)
PlanApi(w) == kind = "plan" /\ \E k \in Keys : UpdatePlan(w, k)
RealizeApi(w) == kind = "plan" /\ \E k \in Keys : AskRealize(w, k)
CategoriesApi(w) == kind = "category" /\ \E k \in Keys, row \in CategoryRows : Ask(w, k, row)

Next ==
  \/ \E w \in Workers :
       \/ TaxesApi(w) \/ TaxApi(w) \/ CommissionsApi(w) \/ CommissionApi(w)
       \/ ContributionsApi(w) \/ ContributionApi(w) \/ ReceiptsApi(w) \/ ReversalsApi(w)
       \/ PlansApi(w) \/ PlanApi(w) \/ RealizeApi(w) \/ CategoriesApi(w)
       \/ LookForKey(w) \/ LookForSlot(w) \/ LockParents(w) \/ Insert(w)
       \/ CommitCreation(w) \/ Fail(w)
       \/ LookForReceipt(w) \/ LockContribution(w) \/ CommitReceipt(w) \/ Realize(w)
  \/ NextDay

Spec == Init /\ [][Next]_dueVars

-----------------------------------------------------------------------------

\* Rows are of their types, a slot has one record, and an active plan has not ended.
DuesTypeOK ==
  /\ \A k \in Keys : record[k] # NoRecord =>
       /\ record[k].slot \in (IF kind = "plan" THEN {None} ELSE Slots) /\ record[k].version > 0
       /\ ~SlotTaken(record[k].slot, {k})
       /\ Valid(record[k])
  /\ \A r \in ReceiptKeys : receipt[r].target \in Keys \cup {None}
  /\ expenses \subseteq [plan : Keys, version : 1..MaxVersion, due : 1..MaxDay, seen : 1..MaxDay]

\* However receipts, reversals and edits overlap, what a contribution says it has
\* received is what its receipts come to, never more than is expected, its status
\* says so, and no receipt is reversed twice.
ReceivedAddsUp ==
  kind = "contribution" =>
    \A k \in Keys :
      LET standing == {r \in ReceiptKeys : receipt[r].target = k /\ receipt[r].of = None
                                           /\ ~Reversed(r)} IN
      /\ record[k].received = MapThenSumSet(LAMBDA r : receipt[r].amount, standing)
      /\ record[k].received <= record[k].amount
      /\ record[k].status \notin {"absent", "cancelled"} => record[k].status = StatusOf(record[k])
      /\ \A q, r \in ReceiptKeys : receipt[q].of = receipt[r].of /\ receipt[q].of # None => q = r

\* A plan is realised for the day its sender saw, however often and by however many
\* it is asked for, and not before that day.
RealizedAsSeen ==
  /\ \A e \in expenses : e.due = e.seen /\ e.due <= today
  /\ \A e, f \in expenses : e.plan = f.plan /\ e.version = f.version => e = f

\* What records, receipts and realised expenses say together in every state.
DuesSound == DuesTypeOK /\ ReceivedAddsUp

\* A creation is in the audit trail once, when the request is sent twice at the same
\* time too, where the stored record is compared by its id.  (Commissions and
\* contributions do not compare it, and have two entries then.)
AuditedOnceWhereCompared ==
  kind \in {"tax", "plan", "category"} => \A k \in Keys \cup ReceiptKeys : audits[k] <= 1
=============================================================================
