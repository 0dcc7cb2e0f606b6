------------------------------ MODULE DuesProofs ------------------------------
(***************************************************************************)
(* Theorems about Dues for any workers, keys, slots and bounds: a plan is  *)
(* realised as its sender saw it, once for each of its versions; where the *)
(* stored record is compared by its id, a creation is in the audit trail   *)
(* once; a slot has one record, and what a contribution has received is    *)
(* what its standing receipts come to.                                     *)
(*                                                                         *)
(* The first two rest on who may insert under a key, and on versions that  *)
(* only grow: DuesInv is about the kinds that compare ids, which are also  *)
(* those without receipts.  The others rest on SoundInv, about all kinds:  *)
(* who holds the lock of a contribution knows its row, so the total it     *)
(* writes is the sum of the receipts with its own (SumTheorems).  That a   *)
(* realised plan is of its bounds takes both.                              *)
(***************************************************************************)
EXTENDS Dues, SumTheorems

-----------------------------------------------------------------------------
(* The inductive invariant.                                                *)

Statuses == {"absent", "planned", "paid", "voided", "expected", "collected", "cancelled",
             "partial", "received", "active", "paused"}
Rows == [status : Statuses, slot : Slots \cup {None}, amount : Nat, received : Nat,
         due : Nat, ends : Nat, version : Nat]
Parts == {"step", "key", "row", "held", "receipt"}
CreationSteps == {"key", "slot", "parents", "insert", "inserted"}

\* Where no plans are, none is realised.
Shaped ==
  /\ session = [w \in Workers |-> session[w]]
  /\ \A w \in Workers : /\ DOMAIN session[w] = Parts
                        /\ kind # "plan" => session[w].step # "realize"

\* A request, while a behaviour is about a kind that compares ids.
RequestSound(s) ==
  /\ s.row \in Rows
  /\ s.step \in CreationSteps \cup {"idle", "realize"}
  /\ s.step # "idle" => s.key \in Keys
  /\ s.step \in CreationSteps => s.row # NoRecord
  /\ s.step = "inserted" => record[s.key] = NoRecord
  /\ s.step = "realize" => /\ record[s.key] # NoRecord
                           /\ s.row.version <= record[s.key].version
                           /\ s.row.version = record[s.key].version => s.row = record[s.key]

InsertedApart ==
  \A v, w \in Workers : v # w /\ session[v].step = "inserted" /\ session[w].step = "inserted"
                        => session[v].key # session[w].key

\* A realised plan has a later version, and was due on the day its sender saw.
ExpenseSound(e) ==
  /\ e.plan \in Keys /\ e.version \in Nat /\ e.due \in Nat
  /\ record[e.plan] # NoRecord /\ e.version < record[e.plan].version
  /\ e.due = e.seen /\ e.due <= today
ExpensesSound ==
  /\ \A e \in expenses : ExpenseSound(e)
  /\ \A e, f \in expenses : e.plan = f.plan /\ e.version = f.version => e = f

Audited ==
  /\ audits = [k \in Keys \cup ReceiptKeys |-> audits[k]]
  /\ \A k \in Keys \cup ReceiptKeys :
       audits[k] = IF k \in Keys /\ record[k] # NoRecord THEN 1 ELSE 0

Compared ==
  /\ record \in [Keys -> Rows]
  /\ \A w \in Workers : RequestSound(session[w])
  /\ InsertedApart
  /\ ExpensesSound
  /\ Audited

DuesInv ==
  /\ today \in Nat
  /\ Shaped
  /\ kind # "plan" => expenses = {}
  /\ Compares(kind) => Compared

-----------------------------------------------------------------------------
(* What steps do.                                                          *)

WorkerStep(w) ==
  \/ TaxesApi(w) \/ TaxApi(w) \/ CommissionsApi(w) \/ CommissionApi(w)
  \/ ContributionsApi(w) \/ ContributionApi(w) \/ ReceiptsApi(w) \/ ReversalsApi(w)
  \/ PlansApi(w) \/ PlanApi(w) \/ RealizeApi(w) \/ CategoriesApi(w)
  \/ LookForKey(w) \/ LookForSlot(w) \/ LockParents(w) \/ Insert(w)
  \/ CommitCreation(w) \/ Fail(w)
  \/ LookForReceipt(w) \/ LockContribution(w) \/ CommitReceipt(w) \/ Realize(w)

\* The session of a worker goes on.
SessionGoes(w, s) ==
  /\ DOMAIN s = Parts
  /\ kind # "plan" => s.step # "realize"
  /\ session' = [session EXCEPT ![w] = s]

\* A request goes on, or is answered.
Goes(w, s) ==
  /\ RequestSound(s)
  /\ s.step = "inserted" => KeyFree(w, s.key)
  /\ session' = [session EXCEPT ![w] = s]
  /\ UNCHANGED <<record, expenses, audits>>

\* The new row of a creation is committed.
Creates(w) ==
  LET s == session[w] IN
  /\ s.step = "inserted"
  /\ record' = [record EXCEPT ![s.key] = s.row]
  /\ audits' = [audits EXCEPT ![s.key] = @ + 1]
  /\ session' = [session EXCEPT ![w] = NoSession]
  /\ UNCHANGED expenses

\* The row of a key is edited; its version grows.
EditsRow(k, row) ==
  /\ record[k] # NoRecord
  /\ row \in Rows /\ row # NoRecord /\ row.version = record[k].version + 1
  /\ record' = [record EXCEPT ![k] = row]
  /\ UNCHANGED audits
Edits(k, row) == EditsRow(k, row) /\ UNCHANGED <<session, expenses>>

\* A plan is realised for the day of its row.
Realizes(w, row) ==
  LET s == session[w] IN
  /\ s.step = "realize" /\ s.row = record[s.key] /\ s.row.due <= today
  /\ EditsRow(s.key, row)
  /\ session' = [session EXCEPT ![w] = NoSession]
  /\ expenses' = expenses \cup {[plan |-> s.key, version |-> s.row.version,
                                 due |-> s.row.due, seen |-> s.row.due]}

LEMMA NoRowTyped == NoRecord \in Rows /\ DOMAIN NoSession = Parts /\ NoSession.row = NoRecord
                    /\ NoSession.step = "idle"
BY DEF NoRecord, Rows, Statuses, NoSession, Parts

\* What is asked for is a row.
LEMMA AskedRows ==
  ASSUME NEW row \in TaxRows \cup PlanRows \cup CategoryRows
  PROVE  row \in Rows /\ row # NoRecord
<1>1. ASSUME NEW st \in {"planned", "paid", "voided", "active"}, NEW s \in Slots \cup {None}, NEW a \in Nat
      PROVE  Row(st, s, a) \in Rows /\ Row(st, s, a) # NoRecord
  BY DEF Row, Rows, Statuses, NoRecord
<1>2. ASSUME NEW d \in Nat, NEW e \in Nat
      PROVE  PlanRow(d, e) \in Rows /\ PlanRow(d, e) # NoRecord
  BY DEF PlanRow, Rows, Statuses, NoRecord
<1>3. CASE row \in TaxRows
  BY <1>1, <1>3 DEF TaxRows
<1>4. CASE row \in PlanRows
  BY <1>2, <1>4, DuesAssumption DEF PlanRows
<1>5. CASE row \in CategoryRows
  BY <1>1, <1>5 DEF CategoryRows
<1> QED
  BY <1>3, <1>4, <1>5

LEMMA EditedRow ==
  ASSUME NEW old \in Rows, NEW row \in Rows, NEW version, version = old.version + 1
  PROVE  /\ [row EXCEPT !.version = version] \in Rows
         /\ [row EXCEPT !.version = version].version = version
         /\ [row EXCEPT !.version = version] # NoRecord
BY DEF Rows, NoRecord

\* One field after the other.
LEMMA EditedField ==
  ASSUME NEW r \in Rows, NEW slot \in Slots \cup {None}, NEW n \in Nat,
         NEW status \in Statuses
  PROVE  /\ [r EXCEPT !.slot = slot] \in Rows /\ [r EXCEPT !.status = status] \in Rows
         /\ [r EXCEPT !.amount = n] \in Rows /\ [r EXCEPT !.due = n] \in Rows
         /\ [r EXCEPT !.ends = n] \in Rows
         /\ [r EXCEPT !.version = n] \in Rows /\ [r EXCEPT !.version = n].version = n
         /\ [r EXCEPT !.status = status].version = r.version
BY DEF Rows

LEMMA EditedTax ==
  ASSUME NEW old \in Rows, NEW slot \in Slots, NEW status \in Statuses,
         NEW amount \in Nat
  PROVE  [old EXCEPT !.slot = slot, !.status = status, !.amount = amount] \in Rows
<1>1. [old EXCEPT !.slot = slot, !.status = status, !.amount = amount]
        = [[[old EXCEPT !.slot = slot] EXCEPT !.status = status] EXCEPT !.amount = amount]
  OBVIOUS
<1>2. PICK a, b : a = [old EXCEPT !.slot = slot] /\ b = [a EXCEPT !.status = status]
  OBVIOUS
<1>3. a \in Rows
  BY <1>2, EditedField
<1>4. b \in Rows
  BY <1>2, <1>3, EditedField
<1>5. [b EXCEPT !.amount = amount] \in Rows
  BY <1>4, EditedField
<1> QED
  BY <1>1, <1>2, <1>5

LEMMA EditedPlan ==
  ASSUME NEW old \in Rows, NEW due \in Nat, NEW n \in Nat, NEW status \in Statuses
  PROVE  [old EXCEPT !.due = due, !.ends = n, !.status = status] \in Rows
<1>1. [old EXCEPT !.due = due, !.ends = n, !.status = status]
        = [[[old EXCEPT !.due = due] EXCEPT !.ends = n] EXCEPT !.status = status]
  OBVIOUS
<1>2. PICK a, b : a = [old EXCEPT !.due = due] /\ b = [a EXCEPT !.ends = n]
  OBVIOUS
<1>3. a \in Rows
  BY <1>2, EditedField
<1>4. b \in Rows
  BY <1>2, <1>3, EditedField
<1>5. [b EXCEPT !.status = status] \in Rows
  BY <1>4, EditedField
<1> QED
  BY <1>1, <1>2, <1>5

LEMMA RealizedPlan ==
  ASSUME NEW old \in Rows, NEW due \in Nat, NEW n \in Nat, NEW status \in Statuses
  PROVE  /\ [old EXCEPT !.due = due, !.version = n, !.status = status] \in Rows
         /\ [old EXCEPT !.due = due, !.version = n, !.status = status].version = n
<1>1. [old EXCEPT !.due = due, !.version = n, !.status = status]
        = [[[old EXCEPT !.due = due] EXCEPT !.version = n] EXCEPT !.status = status]
  OBVIOUS
<1>2. PICK a, b : a = [old EXCEPT !.due = due] /\ b = [a EXCEPT !.version = n]
  OBVIOUS
<1>3. a \in Rows
  BY <1>2, EditedField
<1>4. b \in Rows /\ b.version = n
  BY <1>2, <1>3, EditedField
<1>5. [b EXCEPT !.status = status] \in Rows /\ [b EXCEPT !.status = status].version = n
  BY <1>4 DEF Rows
<1> QED
  BY <1>1, <1>2, <1>5

\* However a request goes on, its session keeps its shape.
LEMMA StepsSession ==
  ASSUME Shaped, NEW w \in Workers, WorkerStep(w)
  PROVE  (\E s : SessionGoes(w, s)) \/ session' = session
<1>1. DOMAIN NoSession = Parts /\ NoSession.step = "idle"
  BY NoRowTyped
<1>2. ASSUME Answer(w) PROVE SessionGoes(w, NoSession)
  BY <1>1, <1>2 DEF Answer, Go, SessionGoes
<1>3. ASSUME NEW k, NEW row, Ask(w, k, row) PROVE \E s : SessionGoes(w, s)
  <2>1. PICK s : s = [NoSession EXCEPT !.step = "key", !.key = k, !.row = row]
    OBVIOUS
  <2>2. DOMAIN s = Parts /\ s.step = "key"
    BY <2>1 DEF NoSession, Parts
  <2> QED
    BY <1>3, <2>1, <2>2 DEF Ask, Go, SessionGoes
<1>4. ASSUME NEW r, NEW what, AskReceipt(w, r, what) PROVE \E s : SessionGoes(w, s)
  <2>1. PICK s : s = [NoSession EXCEPT !.step = "receiptKey", !.key = r, !.receipt = what]
    OBVIOUS
  <2>2. DOMAIN s = Parts /\ s.step = "receiptKey"
    BY <2>1 DEF NoSession, Parts
  <2> QED
    BY <1>4, <2>1, <2>2 DEF AskReceipt, Go, SessionGoes
<1>5. ASSUME NEW k, NEW row, Edit(w, k, row) PROVE session' = session
  BY <1>5 DEF Edit
<1>6. ASSUME NEW k, AskRealize(w, k), kind = "plan" PROVE \E s : SessionGoes(w, s)
  <2>1. PICK s : s = [NoSession EXCEPT !.step = "realize", !.key = k, !.row = record[k]]
    OBVIOUS
  <2>2. DOMAIN s = Parts
    BY <2>1 DEF NoSession, Parts
  <2> QED
    BY <1>6, <2>1, <2>2 DEF AskRealize, Go, SessionGoes
<1>7. ASSUME NEW step \in {"slot", "parents", "insert", "found", "inserted", "contribution",
                           "received"},
             NEW held, NEW row,
             \/ Go(w, [session[w] EXCEPT !.step = step])
             \/ Go(w, [session[w] EXCEPT !.step = step, !.held = held])
             \/ Go(w, [session[w] EXCEPT !.step = step, !.held = held, !.row = row])
      PROVE  \E s : SessionGoes(w, s)
  <2>1. PICK s : /\ \/ s = [session[w] EXCEPT !.step = step]
                    \/ s = [session[w] EXCEPT !.step = step, !.held = held]
                    \/ s = [session[w] EXCEPT !.step = step, !.held = held, !.row = row]
                 /\ session' = [session EXCEPT ![w] = s]
    BY <1>7 DEF Go
  <2>2. DOMAIN s = Parts /\ s.step = step
    BY <2>1 DEF Shaped, Parts
  <2> QED
    BY <2>1, <2>2 DEF SessionGoes
<1>8. CASE LookForKey(w) \/ LookForSlot(w) \/ LockParents(w) \/ Insert(w)
  BY <1>2, <1>7, <1>8 DEF LookForKey, LookForSlot, LockParents, Insert
<1>9. CASE LookForReceipt(w) \/ LockContribution(w)
  BY <1>2, <1>7, <1>9 DEF LookForReceipt, LockContribution
<1>10. CASE CommitCreation(w) \/ Fail(w) \/ CommitReceipt(w) \/ Realize(w)
  BY <1>2, <1>10 DEF CommitCreation, Fail, CommitReceipt, Realize
<1>11. CASE TaxesApi(w) \/ CommissionsApi(w) \/ ContributionsApi(w) \/ PlansApi(w)
            \/ CategoriesApi(w)
  BY <1>3, <1>11 DEF TaxesApi, CommissionsApi, ContributionsApi, PlansApi, CategoriesApi
<1>12. CASE TaxApi(w) \/ CommissionApi(w) \/ ContributionApi(w) \/ PlanApi(w)
  BY <1>5, <1>12 DEF TaxApi, CommissionApi, ContributionApi, PlanApi, UpdateTax,
                     UpdateCommission, UpdateContribution, UpdatePlan
<1>13. CASE ReceiptsApi(w) \/ ReversalsApi(w)
  BY <1>4, <1>13 DEF ReceiptsApi, ReversalsApi
<1>14. CASE RealizeApi(w)
  BY <1>6, <1>14 DEF RealizeApi
<1> QED
  BY <1>8, <1>9, <1>10, <1>11, <1>12, <1>13, <1>14 DEF WorkerStep

\* Where ids are compared, a step does one of four things.
LEMMA StepEffect ==
  ASSUME DuesInv, Compares(kind), NEW w \in Workers, WorkerStep(w)
  PROVE  \/ \E s : Goes(w, s)
         \/ Creates(w)
         \/ \E k \in Keys : \E row : Edits(k, row)
         \/ \E row : Realizes(w, row)
<1>0. kind \in {"tax", "plan", "category"} /\ Shaped /\ Compared /\ RequestSound(session[w])
      /\ record \in [Keys -> Rows]
  BY DEF DuesInv, Compares, Compared
<1>1. ASSUME Answer(w), UNCHANGED <<record, expenses, audits>> PROVE Goes(w, NoSession)
  BY <1>1, NoRowTyped DEF Answer, Go, Goes, RequestSound, CreationSteps
<1>2. ASSUME NEW k \in Keys, NEW row \in TaxRows \cup PlanRows \cup CategoryRows, Ask(w, k, row)
      PROVE  \E s : Goes(w, s)
  <2>1. PICK s : s = [NoSession EXCEPT !.step = "key", !.key = k, !.row = row]
    OBVIOUS
  <2>2. s.step = "key" /\ s.key = k /\ s.row = row
    BY <2>1 DEF NoSession
  <2> QED
    BY <1>2, <2>1, <2>2, AskedRows DEF Ask, Go, Goes, RequestSound, CreationSteps
<1>3. ASSUME NEW k \in Keys, AskRealize(w, k) PROVE \E s : Goes(w, s)
  <2>1. PICK s : s = [NoSession EXCEPT !.step = "realize", !.key = k, !.row = record[k]]
    OBVIOUS
  <2>2. s.step = "realize" /\ s.key = k /\ s.row = record[k]
    BY <2>1 DEF NoSession
  <2>3. record[k] \in Rows /\ record[k].version <= record[k].version
    BY <1>0 DEF Rows
  <2> QED
    BY <1>3, <2>1, <2>2, <2>3 DEF AskRealize, Go, Goes, RequestSound, CreationSteps
<1>4. ASSUME NEW step \in {"slot", "parents", "insert", "inserted"}, NEW held,
             session[w].step \in CreationSteps,
             \/ Go(w, [session[w] EXCEPT !.step = step])
             \/ Go(w, [session[w] EXCEPT !.step = step, !.held = held]),
             step = "inserted" => record[session[w].key] = NoRecord /\ KeyFree(w, session[w].key),
             UNCHANGED <<record, expenses, audits>>
      PROVE  \E s : Goes(w, s)
  <2>1. PICK s : /\ \/ s = [session[w] EXCEPT !.step = step]
                    \/ s = [session[w] EXCEPT !.step = step, !.held = held]
                 /\ session' = [session EXCEPT ![w] = s]
    BY <1>4 DEF Go
  <2>2. s.step = step /\ s.key = session[w].key /\ s.row = session[w].row
    BY <1>0, <2>1 DEF Shaped, Parts
  <2>3. step \in CreationSteps /\ "idle" \notin CreationSteps /\ "realize" \notin CreationSteps
    BY DEF CreationSteps
  <2>4. RequestSound(s)
    BY <1>0, <1>4, <2>2, <2>3 DEF RequestSound
  <2> QED
    BY <1>4, <2>1, <2>2, <2>4 DEF Goes
<1>5. CASE LookForKey(w) \/ LookForSlot(w) \/ LockParents(w)
  <2>1. session[w].step \in CreationSteps
    BY <1>5 DEF LookForKey, LookForSlot, LockParents, CreationSteps
  <2> QED
    BY <1>1, <1>4, <1>5, <2>1 DEF LookForKey, LookForSlot, LockParents
<1>6. CASE Insert(w)
  <2>1. session[w].step \in CreationSteps
    BY <1>6 DEF Insert, CreationSteps
  <2> QED
    BY <1>1, <1>4, <1>6, <2>1, Compares(kind) DEF Insert
<1>7. CASE CommitCreation(w)
  BY <1>0, <1>7 DEF CommitCreation, RequestSound, CreationSteps, Creates, Answer, Go
<1>8. CASE Fail(w)
  BY <1>1, <1>8 DEF Fail
<1>9. CASE Realize(w)
  <2> DEFINE k == session[w].key
             now == record[k]
             due == now.due + 1
             row == [now EXCEPT !.due = due, !.version = @ + 1, !.status = StatusAfter(now, due)]
  <2>1. CASE ~(SameVersion(session[w].row, now) /\ now.status = "active" /\ now.due <= today)
    BY <1>1, <1>9, <2>1 DEF Realize
  <2>2. CASE SameVersion(session[w].row, now) /\ now.status = "active" /\ now.due <= today
    <3>1. k \in Keys /\ now # NoRecord /\ session[w].row = now /\ now \in Rows
      BY <1>0, <1>9, <2>2 DEF Realize, RequestSound, SameVersion
    <3>2. due \in Nat /\ now.version + 1 \in Nat /\ StatusAfter(now, due) \in {"active", "paused"}
      BY <3>1, <2>2 DEF Rows, StatusAfter
    <3>3. row \in Rows /\ row.version = now.version + 1 /\ row # NoRecord
      <4>1. PICK m, n, d, st : m = now /\ n = now.version + 1 /\ d = due /\ st = StatusAfter(now, due)
        OBVIOUS
      <4>2. row = [m EXCEPT !.due = d, !.version = n, !.status = st]
        BY <4>1
      <4>3. m \in Rows /\ n \in Nat /\ d \in Nat /\ st \in Statuses
        BY <3>1, <3>2, <4>1 DEF Statuses
      <4>4. PICK r : r = [m EXCEPT !.due = d, !.version = n, !.status = st]
        OBVIOUS
      <4>5. r \in Rows /\ r.version = n
        <5> HIDE DEF row, due, now, k
        <5>1. [m EXCEPT !.due = d, !.version = n, !.status = st] \in Rows
          BY <4>3, RealizedPlan
        <5>2. [m EXCEPT !.due = d, !.version = n, !.status = st].version = n
          BY <4>3 DEF Rows, Statuses
        <5> QED
          BY <4>4, <5>1, <5>2
      <4>6. n # 0 /\ NoRecord.version = 0
        BY <3>1, <4>1 DEF NoRecord, Rows
      <4> HIDE DEF row
      <4> QED
        BY <4>1, <4>2, <4>4, <4>5, <4>6
    <3>4. Realizes(w, row)
      BY <1>9, <2>2, <3>1, <3>3 DEF Realize, Realizes, EditsRow, Answer, Go
    <3> QED
      BY <3>4
  <2> QED
    BY <2>1, <2>2
<1>10. CASE TaxesApi(w) \/ PlansApi(w) \/ CategoriesApi(w)
  BY <1>2, <1>10 DEF TaxesApi, PlansApi, CategoriesApi
<1>11. CASE RealizeApi(w)
  BY <1>3, <1>11 DEF RealizeApi
<1>12. ASSUME NEW k \in Keys, NEW row, row \in Rows, Edit(w, k, row)
       PROVE  Edits(k, [row EXCEPT !.version = record[k].version + 1])
  BY <1>0, <1>12, EditedRow DEF Edit, Edits, EditsRow
<1>13. CASE TaxApi(w)
  <2>1. PICK k \in Keys, s \in Slots, st \in {"planned", "paid", "voided"}, a \in {0, 1} :
          Edit(w, k, [record[k] EXCEPT !.slot = s, !.status = st, !.amount = a])
    BY <1>13 DEF TaxApi, UpdateTax
  <2>2. PICK row : row = [record[k] EXCEPT !.slot = s, !.status = st, !.amount = a]
    OBVIOUS
  <2>3. row \in Rows
    <3>1. record[k] \in Rows /\ a \in Nat /\ st \in Statuses
      BY <1>0 DEF Statuses
    <3>2. [record[k] EXCEPT !.slot = s, !.status = st, !.amount = a] \in Rows
      BY <3>1, EditedTax
    <3> QED
      BY <2>2, <3>2
  <2> QED
    BY <1>12, <2>1, <2>2, <2>3
<1>14. CASE PlanApi(w)
  <2>1. PICK k \in Keys, d \in 1..MaxDay, e \in 0..MaxDay, st \in {"active", "paused"} :
          Edit(w, k, [record[k] EXCEPT !.due = d, !.ends = e, !.status = st])
    BY <1>14 DEF PlanApi, UpdatePlan
  <2>2. PICK row : row = [record[k] EXCEPT !.due = d, !.ends = e, !.status = st]
    OBVIOUS
  <2>3. row \in Rows
    <3>1. record[k] \in Rows /\ d \in Nat /\ e \in Nat /\ st \in Statuses
      BY <1>0, DuesAssumption DEF Statuses
    <3>2. [record[k] EXCEPT !.due = d, !.ends = e, !.status = st] \in Rows
      BY <3>1, EditedPlan
    <3> QED
      BY <2>2, <3>2
  <2> QED
    BY <1>12, <2>1, <2>2, <2>3
<1>15. ~(CommissionsApi(w) \/ CommissionApi(w) \/ ContributionsApi(w) \/ ContributionApi(w)
         \/ ReceiptsApi(w) \/ ReversalsApi(w))
  BY <1>0 DEF CommissionsApi, CommissionApi, ContributionsApi, ContributionApi, ReceiptsApi,
              ReversalsApi
<1>16. ~(LookForReceipt(w) \/ LockContribution(w) \/ CommitReceipt(w))
  BY <1>0 DEF RequestSound, CreationSteps, LookForReceipt, LockContribution, CommitReceipt
<1> QED
  BY <1>5, <1>6, <1>7, <1>8, <1>9, <1>10, <1>11, <1>13, <1>14, <1>15, <1>16 DEF WorkerStep

-----------------------------------------------------------------------------
(* Every step preserves the invariant.                                     *)

\* The kind and the day are no worker's to change, and only plans become expenses.
LEMMA StepsKeepDay ==
  ASSUME Shaped, NEW w \in Workers, WorkerStep(w)
  PROVE  kind' = kind /\ today' = today /\ (kind # "plan" => expenses' = expenses)
<1>1. CASE TaxesApi(w) \/ CommissionsApi(w) \/ ContributionsApi(w) \/ PlansApi(w)
           \/ CategoriesApi(w)
  BY <1>1 DEF TaxesApi, CommissionsApi, ContributionsApi, PlansApi, CategoriesApi, Ask
<1>2. CASE TaxApi(w) \/ CommissionApi(w) \/ ContributionApi(w) \/ PlanApi(w)
  <2>1. ASSUME NEW k, NEW row, Edit(w, k, row) PROVE UNCHANGED <<kind, today, expenses>>
    BY <2>1 DEF Edit
  <2> QED
    BY <1>2, <2>1 DEF TaxApi, CommissionApi, ContributionApi, PlanApi, UpdateTax,
                      UpdateCommission, UpdateContribution, UpdatePlan
<1>3. CASE ReceiptsApi(w) \/ ReversalsApi(w) \/ RealizeApi(w)
  BY <1>3 DEF ReceiptsApi, ReversalsApi, RealizeApi, AskReceipt, AskRealize
<1>4. CASE LookForKey(w) \/ LookForSlot(w) \/ LockParents(w) \/ Insert(w)
           \/ CommitCreation(w) \/ Fail(w)
  BY <1>4 DEF LookForKey, LookForSlot, LockParents, Insert, CommitCreation, Fail
<1>5. CASE LookForReceipt(w) \/ LockContribution(w) \/ CommitReceipt(w)
  BY <1>5 DEF LookForReceipt, LockContribution, CommitReceipt
<1>6. CASE Realize(w)
  BY <1>6 DEF Realize, Shaped
<1> QED
  BY <1>1, <1>2, <1>3, <1>4, <1>5, <1>6 DEF WorkerStep

\* A request that goes on disturbs no other.
LEMMA GoesKeeps ==
  ASSUME Shaped, Compared, today' = today, NEW w \in Workers, NEW s, Goes(w, s)
  PROVE  Compared'
<1>1. \A v \in Workers : session'[v] = IF v = w THEN s ELSE session[v]
  BY DEF Shaped, Goes
<1>2. \A v \in Workers : RequestSound(session[v])'
  BY <1>1 DEF Compared, Goes, RequestSound
<1>3. InsertedApart'
  BY <1>1 DEF Compared, InsertedApart, Goes, KeyFree, Inserting
<1>4. ExpensesSound' /\ Audited' /\ record' \in [Keys -> Rows]
  BY DEF Goes, Compared, ExpensesSound, ExpenseSound, Audited
<1> QED
  BY <1>2, <1>3, <1>4 DEF Compared

\* A creation inserts where no record is, and no other can.
LEMMA CreatesKeeps ==
  ASSUME Shaped, Compared, today' = today, NEW w \in Workers, Creates(w)
  PROVE  Compared'
<1>1. \A v \in Workers : session'[v] = IF v = w THEN NoSession ELSE session[v]
  BY DEF Shaped, Creates
<1>2. PICK k \in Keys, row \in Rows :
        /\ k = session[w].key /\ row = session[w].row /\ row # NoRecord /\ record[k] = NoRecord
        /\ record' = [record EXCEPT ![k] = row]
        /\ audits' = [audits EXCEPT ![k] = @ + 1]
  BY DEF Creates, Compared, RequestSound, CreationSteps
<1>3. record' \in [Keys -> Rows]
  BY <1>2 DEF Compared
<1>4. /\ record'[k] = row
      /\ \A l \in Keys \ {k} : record'[l] = record[l]
  BY <1>2 DEF Compared
<1>5. ASSUME NEW v \in Workers PROVE RequestSound(session[v])'
  <2>1. CASE v = w
    BY <1>1, <2>1, NoRowTyped DEF RequestSound, CreationSteps
  <2>2. CASE v # w
    <3>1. session'[v] = session[v] /\ RequestSound(session[v])
      BY <1>1, <2>2 DEF Compared
    <3>2. session[v].step = "inserted" => session[v].key # k
      BY <1>2, <2>2 DEF Compared, InsertedApart, Creates
    <3>3. session[v].step = "realize" => session[v].key # k
      BY <1>2, <3>1 DEF RequestSound
    <3>4. session[v].step # "idle" => session[v].key \in Keys
      BY <3>1 DEF RequestSound
    <3> QED
      BY <1>4, <3>1, <3>2, <3>3, <3>4 DEF RequestSound
  <2> QED
    BY <2>1, <2>2
<1>6. InsertedApart'
  BY <1>1, NoRowTyped DEF Compared, InsertedApart
<1>7. ExpensesSound'
  <2>1. expenses' = expenses
    BY DEF Creates
  <2>2. ASSUME NEW e \in expenses PROVE ExpenseSound(e)'
    BY <1>2, <1>4, <2>2 DEF Compared, ExpensesSound, ExpenseSound
  <2> QED
    BY <2>1, <2>2 DEF Compared, ExpensesSound
<1>8. Audited'
  <2>1. /\ audits = [l \in Keys \cup ReceiptKeys |-> audits[l]]
        /\ \A l \in Keys \cup ReceiptKeys :
             audits[l] = IF l \in Keys /\ record[l] # NoRecord THEN 1 ELSE 0
    BY DEF Compared, Audited
  <2>2. audits' = [l \in Keys \cup ReceiptKeys |-> IF l = k THEN 1 ELSE audits[l]]
    <3>1. DOMAIN audits = Keys \cup ReceiptKeys /\ k \in DOMAIN audits
      BY <2>1
    <3>2. audits[k] = 0 /\ audits[k] + 1 = 1
      BY <1>2, <2>1
    <3>3. audits' = [audits EXCEPT ![k] = 1]
      BY <1>2, <3>2
    <3> QED
      BY <3>1, <3>3
  <2>3. \A l \in Keys \cup ReceiptKeys :
          audits'[l] = IF l \in Keys /\ record'[l] # NoRecord THEN 1 ELSE 0
    BY <1>2, <1>4, <2>1, <2>2
  <2>4. audits' = [l \in Keys \cup ReceiptKeys |-> audits'[l]]
    BY <2>2
  <2> QED
    BY <2>3, <2>4 DEF Audited
<1> QED
  BY <1>3, <1>5, <1>6, <1>7, <1>8 DEF Compared

\* An edited row stays comparable by its version.
LEMMA RowEdited ==
  ASSUME Compared, today' = today, NEW k \in Keys, NEW row, EditsRow(k, row)
  PROVE  /\ record' \in [Keys -> Rows]
         /\ Audited'
         /\ \A s : RequestSound(s) => RequestSound(s)'
         /\ \A e \in expenses : ExpenseSound(e)'
<1>1. /\ record' \in [Keys -> Rows] /\ record'[k] = row /\ row # NoRecord
      /\ \A l \in Keys \ {k} : record'[l] = record[l]
      /\ \A l \in Keys : record[l].version \in Nat
      /\ row.version = record[k].version + 1 /\ record[k] # NoRecord
  BY DEF Compared, EditsRow, Rows
<1>2. Audited'
  BY <1>1 DEF Compared, Audited, EditsRow
<1>3. ASSUME NEW s, RequestSound(s) PROVE RequestSound(s)'
  <2>1. s.step \in {"inserted", "realize"} => s.key \in Keys
    BY <1>3 DEF RequestSound
  <2>2. s.step = "inserted" => record'[s.key] = NoRecord
    BY <1>1, <1>3, <2>1 DEF RequestSound
  <2>3. CASE s.step = "realize" /\ s.key = k
    <3>1. s.row.version \in Nat /\ s.row.version <= record[k].version
      BY <1>3, <2>3 DEF RequestSound, Rows
    <3>2. s.row.version <= row.version /\ s.row.version # row.version
      BY <1>1, <3>1
    <3> QED
      BY <1>1, <1>3, <2>2, <2>3, <3>2 DEF RequestSound
  <2>4. CASE ~(s.step = "realize" /\ s.key = k)
    BY <1>1, <1>3, <2>1, <2>2, <2>4 DEF RequestSound
  <2> QED
    BY <2>3, <2>4
<1>4. ASSUME NEW e \in expenses PROVE ExpenseSound(e)'
  BY <1>1, <1>4 DEF Compared, ExpensesSound, ExpenseSound
<1> QED
  BY <1>1, <1>2, <1>3, <1>4

\* What realised it has an earlier version than the row has now.
LEMMA RealizesKeeps ==
  ASSUME Shaped, Compared, today \in Nat, today' = today, NEW w \in Workers, NEW row,
         Realizes(w, row)
  PROVE  Compared'
<1>1. \A v \in Workers : session'[v] = IF v = w THEN NoSession ELSE session[v]
  BY DEF Shaped, Realizes
<1>2. PICK k \in Keys : k = session[w].key /\ EditsRow(k, row) /\ record[k].due <= today
                        /\ session[w].row = record[k]
  BY DEF Realizes, Compared, RequestSound
<1>3. record[k].version \in Nat /\ record[k].due \in Nat
  BY DEF Compared, Rows
<1>4. PICK f : /\ f = [plan |-> k, version |-> record[k].version, due |-> record[k].due,
                       seen |-> record[k].due]
               /\ expenses' = expenses \cup {f}
  BY <1>2 DEF Realizes
<1>5. \A v \in Workers : RequestSound(session[v])'
  <2>1. RequestSound(NoSession)
    BY NoRowTyped DEF RequestSound, CreationSteps
  <2>2. RequestSound(NoSession)' /\ \A v \in Workers : RequestSound(session[v]) => 
          \A s : s = session[v] => RequestSound(s)'
    BY <1>2, <2>1, RowEdited
  <2> QED
    BY <1>1, <2>2 DEF Compared, RequestSound
<1>6. InsertedApart'
  BY <1>1, NoRowTyped DEF Compared, InsertedApart
<1>7. ExpenseSound(f)'
  <2>1. record'[k] = row /\ row # NoRecord /\ row.version = record[k].version + 1
    BY <1>2 DEF EditsRow, Compared
  <2>2. f.plan = k /\ f.version = record[k].version /\ f.due = record[k].due /\ f.seen = f.due
    BY <1>4
  <2> QED
    BY <1>2, <1>3, <2>1, <2>2 DEF ExpenseSound
<1>8. \A e \in expenses : e.plan = f.plan => e.version # f.version
  BY <1>3, <1>4 DEF Compared, ExpensesSound, ExpenseSound
<1>9. ExpensesSound'
  <2>1. \A e \in expenses : ExpenseSound(e)'
    BY <1>2, RowEdited
  <2> QED
    BY <1>4, <1>7, <1>8, <2>1 DEF Compared, ExpensesSound
<1>10. Audited' /\ record' \in [Keys -> Rows]
  BY <1>2, RowEdited
<1> QED
  BY <1>5, <1>6, <1>9, <1>10 DEF Compared

LEMMA StepKeeps ==
  ASSUME DuesInv, NEW w \in Workers, WorkerStep(w)
  PROVE  DuesInv'
<1>1. Shaped
  BY DEF DuesInv
<1>2. kind' = kind /\ today' = today /\ (kind # "plan" => expenses' = expenses)
  BY <1>1, StepsKeepDay
<1>3. Shaped'
  <2>1. CASE session' = session
    BY <1>1, <1>2, <2>1 DEF Shaped
  <2>2. ASSUME NEW s, SessionGoes(w, s) PROVE Shaped'
    BY <1>1, <1>2, <2>2 DEF Shaped, SessionGoes
  <2> QED
    BY <1>1, <2>1, <2>2, StepsSession
<1>4. ASSUME Compares(kind) PROVE Compared'
  <2>0. Compared /\ today \in Nat
    BY <1>4 DEF DuesInv
  <2>1. ASSUME NEW s, Goes(w, s) PROVE Compared'
    BY <1>1, <1>2, <2>0, <2>1, GoesKeeps
  <2>2. CASE Creates(w)
    BY <1>1, <1>2, <2>0, <2>2, CreatesKeeps
  <2>3. ASSUME NEW k \in Keys, NEW row, Edits(k, row) PROVE Compared'
    <3>1. EditsRow(k, row) /\ UNCHANGED <<session, expenses>>
      BY <2>3 DEF Edits
    <3>2. /\ record' \in [Keys -> Rows] /\ Audited'
          /\ \A s : RequestSound(s) => RequestSound(s)'
          /\ \A e \in expenses : ExpenseSound(e)'
      BY <1>2, <2>0, <3>1, RowEdited
    <3>3. \A v \in Workers : RequestSound(session[v])'
      BY <2>0, <3>1, <3>2 DEF Compared, RequestSound
    <3>4. InsertedApart' /\ ExpensesSound'
      BY <2>0, <3>1, <3>2 DEF Compared, InsertedApart, ExpensesSound
    <3> QED
      BY <3>2, <3>3, <3>4 DEF Compared
  <2>4. ASSUME NEW row, Realizes(w, row) PROVE Compared'
    BY <1>1, <1>2, <2>0, <2>4, RealizesKeeps
  <2> QED
    BY <1>4, <2>1, <2>2, <2>3, <2>4, StepEffect
<1> QED
  BY <1>2, <1>3, <1>4 DEF DuesInv, Compares

LEMMA InitDuesInv == Init => DuesInv
<1> SUFFICES ASSUME Init PROVE DuesInv
  OBVIOUS
<1>1. /\ session = [w \in Workers |-> session[w]]
      /\ \A w \in Workers : session[w] = NoSession
  BY DEF Init
<1>2. Shaped
  BY <1>1, NoRowTyped DEF Shaped
<1>3. \A w \in Workers : RequestSound(session[w])
  BY <1>1, NoRowTyped DEF RequestSound, CreationSteps
<1>4. InsertedApart
  BY <1>1, NoRowTyped DEF InsertedApart
<1>5. ExpensesSound /\ expenses = {} /\ today \in Nat
  BY DEF Init, ExpensesSound
<1>6. Audited /\ record \in [Keys -> Rows]
  BY NoRowTyped DEF Init, Audited
<1> QED
  BY <1>2, <1>3, <1>4, <1>5, <1>6 DEF DuesInv, Compared

LEMMA NextDuesInv == DuesInv /\ [Next]_dueVars => DuesInv'
<1> SUFFICES ASSUME DuesInv, [Next]_dueVars PROVE DuesInv'
  OBVIOUS
<1>1. CASE UNCHANGED dueVars
  BY <1>1 DEF dueVars, DuesInv, Shaped, Compares, Compared, RequestSound, InsertedApart,
              ExpensesSound, ExpenseSound, Audited
<1>2. CASE NextDay
  <2>1. UNCHANGED <<kind, record, receipt, expenses, audits, session>> /\ today' = today + 1
    BY <1>2 DEF NextDay
  <2>2. today \in Nat /\ today' \in Nat
    BY <2>1 DEF DuesInv
  <2>3. ASSUME ExpensesSound PROVE ExpensesSound'
    <3>1. \A e \in expenses : e.due \in Nat /\ e.due <= today => e.due <= today'
      BY <2>1, <2>2
    <3> QED
      BY <2>1, <2>3, <3>1 DEF ExpensesSound, ExpenseSound
  <2> QED
    BY <2>1, <2>2, <2>3 DEF DuesInv, Shaped, Compares, Compared, RequestSound, InsertedApart,
                            Audited
<1>3. ASSUME NEW w \in Workers, WorkerStep(w) PROVE DuesInv'
  BY <1>3, StepKeeps
<1> QED
  BY <1>1, <1>2, <1>3 DEF Next, WorkerStep

-----------------------------------------------------------------------------
(* The theorems.                                                           *)

LEMMA DuesInvHolds == Spec => []DuesInv
BY InitDuesInv, NextDuesInv, PTL DEF Spec

\* Whoever asks, a plan is realised for the day its sender saw, once for a version
\* of it and not before that day (realizeRecurringExpensePlan).
THEOREM RealizedAsSeenHolds == Spec => []RealizedAsSeen
<1>1. DuesInv => RealizedAsSeen
  BY DEF DuesInv, Compares, Compared, ExpensesSound, ExpenseSound, RealizedAsSeen
<1> QED
  BY <1>1, DuesInvHolds, PTL

\* Tax obligations, plans and categories are in the audit trail once for each
\* creation, also when a request is sent twice at the same time.
THEOREM AuditedOnceWhereComparedHolds == Spec => []AuditedOnceWhereCompared
<1>1. DuesInv => AuditedOnceWhereCompared
  <2> SUFFICES ASSUME DuesInv, kind \in {"tax", "plan", "category"}, NEW k \in Keys \cup ReceiptKeys
               PROVE  audits[k] <= 1
    BY DEF AuditedOnceWhereCompared
  <2>1. audits[k] = 0 \/ audits[k] = 1
    BY DEF DuesInv, Compares, Compared, Audited
  <2> QED
    BY <2>1
<1> QED
  BY <1>1, DuesInvHolds, PTL

-----------------------------------------------------------------------------
(* Rows after an edit, by their fields.                                    *)

RowOf(status, slot, amount, received, due, ends, version) ==
  [status |-> status, slot |-> slot, amount |-> amount, received |-> received,
   due |-> due, ends |-> ends, version |-> version]

LEMMA RowIs ==
  ASSUME NEW r \in Rows
  PROVE  /\ r = RowOf(r.status, r.slot, r.amount, r.received, r.due, r.ends, r.version)
         /\ r.status \in Statuses /\ r.slot \in Slots \cup {None} /\ r.amount \in Nat
         /\ r.received \in Nat /\ r.due \in Nat /\ r.ends \in Nat /\ r.version \in Nat
BY DEF Rows, RowOf

LEMMA RowVersion ==
  ASSUME NEW q, NEW st, NEW s, NEW a, NEW r, NEW d, NEW e, NEW v, q = RowOf(st, s, a, r, d, e, v), NEW x
  PROVE  /\ [q EXCEPT !.version = x] = RowOf(st, s, a, r, d, e, x)
         /\ [q EXCEPT !.status = x] = RowOf(x, s, a, r, d, e, v)
BY DEF RowOf

LEMMA TaxEdit ==
  ASSUME NEW r \in Rows, NEW slot, NEW status, NEW amount
  PROVE  [r EXCEPT !.slot = slot, !.status = status, !.amount = amount]
           = RowOf(status, slot, amount, r.received, r.due, r.ends, r.version)
<1>1. PICK p, q : p = [r EXCEPT !.slot = slot] /\ q = [p EXCEPT !.status = status]
  OBVIOUS
<1>2. [r EXCEPT !.slot = slot, !.status = status, !.amount = amount] = [q EXCEPT !.amount = amount]
  BY <1>1
<1>3. p = RowOf(r.status, slot, r.amount, r.received, r.due, r.ends, r.version)
  BY <1>1, RowIs DEF RowOf
<1>4. q = RowOf(status, slot, r.amount, r.received, r.due, r.ends, r.version)
  BY <1>1, <1>3 DEF RowOf
<1>5. [q EXCEPT !.amount = amount] = RowOf(status, slot, amount, r.received, r.due, r.ends, r.version)
  BY <1>4 DEF RowOf
<1> QED
  BY <1>2, <1>5

LEMMA PlanEdit ==
  ASSUME NEW r \in Rows, NEW due, NEW ends, NEW status
  PROVE  [r EXCEPT !.due = due, !.ends = ends, !.status = status]
           = RowOf(status, r.slot, r.amount, r.received, due, ends, r.version)
<1>1. PICK p, q : p = [r EXCEPT !.due = due] /\ q = [p EXCEPT !.ends = ends]
  OBVIOUS
<1>2. [r EXCEPT !.due = due, !.ends = ends, !.status = status] = [q EXCEPT !.status = status]
  BY <1>1
<1>3. p = RowOf(r.status, r.slot, r.amount, r.received, due, r.ends, r.version)
  BY <1>1, RowIs DEF RowOf
<1>4. q = RowOf(r.status, r.slot, r.amount, r.received, due, ends, r.version)
  BY <1>1, <1>3 DEF RowOf
<1>5. [q EXCEPT !.status = status] = RowOf(status, r.slot, r.amount, r.received, due, ends, r.version)
  BY <1>4 DEF RowOf
<1> QED
  BY <1>2, <1>5

LEMMA ReceivedEdit ==
  ASSUME NEW r \in Rows, NEW version, NEW received
  PROVE  [r EXCEPT !.version = version, !.received = received]
           = RowOf(r.status, r.slot, r.amount, received, r.due, r.ends, version)
<1>1. PICK p : p = [r EXCEPT !.version = version]
  OBVIOUS
<1>2. [r EXCEPT !.version = version, !.received = received] = [p EXCEPT !.received = received]
  BY <1>1
<1>3. p = RowOf(r.status, r.slot, r.amount, r.received, r.due, r.ends, version)
  BY <1>1, RowIs DEF RowOf
<1> QED
  BY <1>2, <1>3 DEF RowOf

-----------------------------------------------------------------------------
(* The second invariant: what records and receipts say together.  It is    *)
(* about all kinds, and sums the receipts of a contribution with SumOver.  *)

AmountOf == [r \in ReceiptKeys |-> receipt[r].amount]
Standing(k) == {r \in ReceiptKeys : receipt[r].target = k /\ receipt[r].of = None /\ ~Reversed(r)}

\* A row of the kind of record that the behaviour is about.
RowSound(row) ==
  /\ row \in Rows /\ row.version > 0 /\ row.status # "absent"
  /\ row.slot \in IF kind = "plan" THEN {None} ELSE Slots
  /\ Valid(row)
  /\ kind = "plan" => row.due > 0
  /\ kind = "contribution" =>
       /\ row.status # "cancelled" => row.status = StatusOf(row)
       /\ row.amount > 0 /\ row.received <= row.amount
NewRow(row) == RowSound(row) /\ row.received = 0
RecordSound(k) ==
  record[k] # NoRecord => RowSound(record[k]) /\ ~SlotTaken(record[k].slot, {k})
RecordsSound ==
  /\ record = [k \in Keys |-> record[k]]
  /\ \A k \in Keys : RecordSound(k)

\* A receipt is of a contribution, a reversal of a receipt of the same.
ReceiptSound(what) ==
  /\ kind = "contribution"
  /\ what \in [target : Keys, amount : Nat \ {0}, of : ReceiptKeys \cup {None}]
  /\ record[what.target] # NoRecord
  /\ what.of # None => /\ receipt[what.of].of = None
                       /\ receipt[what.of].target = what.target
                       /\ receipt[what.of].amount = what.amount
ReversedOnce ==
  \A q, r \in ReceiptKeys : receipt[q].of = receipt[r].of /\ receipt[q].of # None => q = r
ReceiptsSound ==
  /\ receipt = [r \in ReceiptKeys |-> receipt[r]]
  /\ IsFiniteSet({r \in ReceiptKeys : receipt[r] # NoReceipt})
  /\ \A r \in ReceiptKeys : receipt[r] # NoReceipt => ReceiptSound(receipt[r])
  /\ ReversedOnce
Sums == kind = "contribution" =>
          \A k \in Keys : record[k].received = SumOver(AmountOf, Standing(k))

\* A request: what it saw of a row that it has locked is what the row is.
Creating == {"key", "slot", "parents", "insert", "inserted", "found"}
Receiving == {"receiptKey", "contribution", "received"}
SessionSound(s) ==
  /\ DOMAIN s = Parts
  /\ s.step \in {"idle", "realize"} \cup Creating \cup Receiving
  /\ s.step \in Creating => s.key \in Keys /\ NewRow(s.row)
  /\ s.step = "inserted" => record[s.key] = NoRecord /\ ~SlotTaken(s.row.slot, {})
  /\ s.step \in Receiving => s.key \in ReceiptKeys /\ ReceiptSound(s.receipt)
  /\ s.step = "received" => /\ <<"row", s.receipt.target>> \in s.held
                            /\ s.row = record[s.receipt.target]
  /\ s.step = "realize" => kind = "plan" /\ s.key \in Keys /\ record[s.key] # NoRecord
SessionsSound ==
  /\ session = [w \in Workers |-> session[w]]
  /\ \A w \in Workers : SessionSound(session[w])
\* Two requests meet in no key, slot or contribution.
SessionsApart ==
  \A v, w \in Workers : v # w =>
    /\ session[v].step = "inserted" /\ session[w].step = "inserted" =>
         session[v].key # session[w].key /\ (HasSlot => session[v].row.slot # session[w].row.slot)
    /\ session[v].step = "received" /\ session[w].step = "received" =>
         session[v].receipt.target # session[w].receipt.target

RealizedTyped ==
  /\ today \in 1..MaxDay
  /\ expenses \subseteq [plan : Keys, version : 1..MaxVersion, due : 1..MaxDay, seen : 1..MaxDay]

SoundInv ==
  RecordsSound /\ ReceiptsSound /\ Sums /\ SessionsSound /\ SessionsApart /\ RealizedTyped

\* A request goes on or is answered, and nothing is stored.
SessionMoves(w, s) ==
  /\ session' = [session EXCEPT ![w] = s]
  /\ UNCHANGED <<kind, today, record, receipt, expenses>>
  /\ SessionSound(s)
  /\ s.step = "inserted" => KeyFree(w, s.key) /\ SlotFree(w, s.row.slot)
  /\ s.step = "received" => Free(w, {<<"row", s.receipt.target>>})

LEMMA TablesSame ==
  ASSUME UNCHANGED <<kind, record, receipt>>
  PROVE  /\ RecordsSound => RecordsSound'
         /\ ReceiptsSound => ReceiptsSound'
         /\ Sums => Sums'
         /\ \A s : SessionSound(s) => SessionSound(s)'
<1>1. RecordsSound => RecordsSound'
  BY DEF RecordsSound, RecordSound, RowSound, Valid, StatusOf, SlotTaken, HasSlot
<1>2. ReceiptsSound => ReceiptsSound'
  BY DEF ReceiptsSound, ReceiptSound, ReversedOnce
<1>3. Sums => Sums'
  BY DEF Sums, AmountOf, Standing, Reversed
<1>4. \A s : SessionSound(s) => SessionSound(s)'
  BY DEF SessionSound, NewRow, RowSound, Valid, StatusOf, SlotTaken, HasSlot, ReceiptSound
<1> QED
  BY <1>1, <1>2, <1>3, <1>4

LEMMA MovesKeeps ==
  ASSUME SoundInv, NEW w \in Workers, NEW s, SessionMoves(w, s)
  PROVE  SoundInv'
<1>1. \A v \in Workers : session'[v] = IF v = w THEN s ELSE session[v]
  BY DEF SoundInv, SessionsSound, SessionMoves
<1>2. UNCHANGED <<kind, record, receipt>>
  BY DEF SessionMoves
<1>3. RecordsSound' /\ ReceiptsSound' /\ Sums' /\ RealizedTyped'
  BY <1>2, TablesSame DEF SoundInv, SessionMoves, RealizedTyped
<1>4. SessionsSound'
  <2>1. session' = [v \in Workers |-> session'[v]]
    BY DEF SoundInv, SessionsSound, SessionMoves
  <2>2. ASSUME NEW v \in Workers PROVE SessionSound(session[v])'
    <3>1. PICK t : t = session'[v]
      OBVIOUS
    <3>2. SessionSound(t)
      BY <1>1, <3>1 DEF SoundInv, SessionsSound, SessionMoves
    <3>3. SessionSound(t)'
      BY <1>2, <3>2, TablesSame
    <3> QED
      BY <3>1, <3>3 DEF SessionSound, NewRow, RowSound, Valid, StatusOf, SlotTaken, HasSlot, ReceiptSound
  <2> QED
    BY <2>1, <2>2 DEF SessionsSound
<1>5. SessionsApart'
  <2> SUFFICES ASSUME NEW v \in Workers, v # w,
                      SessionsApart
               PROVE  /\ session[v].step = "inserted" /\ s.step = "inserted" =>
                           session[v].key # s.key /\ (HasSlot => session[v].row.slot # s.row.slot)
                      /\ session[v].step = "received" /\ s.step = "received" =>
                           session[v].receipt.target # s.receipt.target
    BY <1>1, <1>2 DEF SoundInv, SessionsApart, HasSlot
  <2>1. SessionSound(session[v])
    BY DEF SoundInv, SessionsSound
  <2>2. session[v].step = "inserted" /\ s.step = "inserted" =>
          session[v].key # s.key /\ (HasSlot => session[v].row.slot # s.row.slot)
    BY DEF SessionMoves, KeyFree, SlotFree, Inserting
  <2>3. session[v].step = "received" /\ s.step = "received" =>
          session[v].receipt.target # s.receipt.target
    BY <2>1 DEF SessionMoves, Free, SessionSound
  <2> QED
    BY <2>2, <2>3
<1> QED
  BY <1>3, <1>4, <1>5 DEF SoundInv

LEMMA RowFacts ==
  ASSUME NEW st, NEW s, NEW a, NEW r, NEW d, NEW e, NEW v, NEW row,
         row = RowOf(st, s, a, r, d, e, v)
  PROVE  /\ row.status = st /\ row.slot = s /\ row.amount = a /\ row.received = r
         /\ row.due = d /\ row.ends = e /\ row.version = v
         /\ (st \in Statuses /\ s \in Slots \cup {None} /\ a \in Nat /\ r \in Nat /\ d \in Nat
             /\ e \in Nat /\ v \in Nat => row \in Rows)
BY DEF RowOf, Rows

\* What is asked for is sound.
LEMMA AskedSound ==
  ASSUME NEW row, Valid(row),
         \/ kind = "tax" /\ row \in TaxRows
         \/ kind = "commission" /\ row \in CommissionRows
         \/ kind = "contribution" /\ row \in ContributionRows
         \/ kind = "plan" /\ row \in PlanRows
         \/ kind = "category" /\ row \in CategoryRows
  PROVE  NewRow(row)
<1>1. ASSUME NEW st \in Statuses \ {"absent"}, NEW s \in Slots, NEW a \in Nat,
             row = Row(st, s, a), kind # "plan",
             kind = "contribution" => st = "expected" /\ a > 0
      PROVE  NewRow(row)
  <2>1. row = RowOf(st, s, a, 0, 0, 0, 1)
    BY <1>1 DEF Row, RowOf
  <2>2. row \in Rows /\ row.status = st /\ row.slot = s /\ row.amount = a /\ row.received = 0
        /\ row.version = 1
    BY <2>1, RowFacts
  <2> QED
    BY <1>1, <2>2 DEF NewRow, RowSound, StatusOf
<1>2. CASE kind = "plan" /\ row \in PlanRows
  <2>1. PICK d \in 1..MaxDay, e \in 0..MaxDay : row = RowOf("active", None, 0, 0, d, e, 1)
    BY <1>2 DEF PlanRows, PlanRow, RowOf
  <2>2. d \in Nat /\ e \in Nat /\ d > 0 /\ "active" \in Statuses
    BY DuesAssumption DEF Statuses
  <2>3. row \in Rows /\ row.status = "active" /\ row.slot = None /\ row.received = 0
        /\ row.version = 1 /\ row.due = d
    BY <2>1, <2>2, RowFacts
  <2> QED
    BY <1>2, <2>2, <2>3 DEF NewRow, RowSound
<1>3. CASE kind = "tax" /\ row \in TaxRows
  BY <1>1, <1>3 DEF TaxRows, Statuses
<1>4. CASE kind = "commission" /\ row \in CommissionRows
  BY <1>1, <1>4 DEF CommissionRows, Statuses
<1>5. CASE kind = "contribution" /\ row \in ContributionRows
  BY <1>1, <1>5, DuesAssumption DEF ContributionRows, Statuses
<1>6. CASE kind = "category" /\ row \in CategoryRows
  BY <1>1, <1>6 DEF CategoryRows, Statuses
<1> QED
  BY <1>2, <1>3, <1>4, <1>5, <1>6

LEMMA IdleSound == SessionSound(NoSession) /\ NoSession.step = "idle"
BY NoRowTyped DEF SessionSound, Creating, Receiving

\* An answer without a change.
LEMMA Answered ==
  ASSUME NEW w \in Workers, Answer(w), UNCHANGED <<kind, today, record, receipt, expenses>>
  PROVE  SessionMoves(w, NoSession)
BY IdleSound DEF Answer, Go, SessionMoves

LEMMA AskMoves ==
  ASSUME NEW w \in Workers,
         TaxesApi(w) \/ CommissionsApi(w) \/ ContributionsApi(w) \/ PlansApi(w) \/ CategoriesApi(w)
  PROVE  \E s : SessionMoves(w, s)
<1>1. PICK k, row : k \in Keys /\ Ask(w, k, row) /\ NewRow(row)
  <2>1. PICK k, row : /\ k \in Keys /\ Ask(w, k, row)
                               /\ \/ kind = "tax" /\ row \in TaxRows
                                  \/ kind = "commission" /\ row \in CommissionRows
                                  \/ kind = "contribution" /\ row \in ContributionRows
                                  \/ kind = "plan" /\ row \in PlanRows
                                  \/ kind = "category" /\ row \in CategoryRows
    BY DEF TaxesApi, CommissionsApi, ContributionsApi, PlansApi, CategoriesApi
  <2> QED
    BY <2>1, AskedSound DEF Ask
<1>2. PICK s : s = [NoSession EXCEPT !.step = "key", !.key = k, !.row = row]
  OBVIOUS
<1>3. s.step = "key" /\ s.key = k /\ s.row = row /\ DOMAIN s = Parts
  BY <1>2 DEF NoSession, Parts
<1>4. SessionSound(s)
  BY <1>1, <1>3 DEF SessionSound, Creating, Receiving
<1> QED
  BY <1>1, <1>2, <1>3, <1>4 DEF Ask, Go, SessionMoves

\* A creation goes on.
LEMMA CreationMoves ==
  ASSUME SoundInv, NEW w \in Workers,
         LookForKey(w) \/ LookForSlot(w) \/ LockParents(w) \/ Insert(w)
  PROVE  \E s : SessionMoves(w, s)
<1>1. SessionSound(session[w])
  BY DEF SoundInv, SessionsSound
<1>2. ASSUME NEW step \in {"slot", "parents", "insert", "found", "inserted"}, NEW held,
             session[w].step \in Creating,
             \/ Go(w, [session[w] EXCEPT !.step = step])
             \/ Go(w, [session[w] EXCEPT !.step = step, !.held = held]),
             step = "inserted" =>
               /\ record[session[w].key] = NoRecord /\ ~SlotTaken(session[w].row.slot, {})
               /\ KeyFree(w, session[w].key) /\ SlotFree(w, session[w].row.slot),
             UNCHANGED <<kind, today, record, receipt, expenses>>
      PROVE  \E s : SessionMoves(w, s)
  <2>1. PICK s : /\ \/ s = [session[w] EXCEPT !.step = step]
                    \/ s = [session[w] EXCEPT !.step = step, !.held = held]
                 /\ session' = [session EXCEPT ![w] = s]
    BY <1>2 DEF Go
  <2>2. s.step = step /\ s.key = session[w].key /\ s.row = session[w].row /\ DOMAIN s = Parts
    BY <1>1, <2>1 DEF SessionSound, Parts
  <2>3. step \in Creating /\ step \notin Receiving /\ step # "realize" /\ step # "received"
    BY DEF Creating, Receiving
  <2>4. SessionSound(s)
    BY <1>1, <1>2, <2>2, <2>3 DEF SessionSound
  <2> QED
    BY <1>2, <2>1, <2>2, <2>3, <2>4 DEF SessionMoves
<1>3. CASE LookForKey(w)
  BY <1>2, <1>3, Answered DEF LookForKey, Creating
<1>4. CASE LookForSlot(w)
  BY <1>2, <1>4, Answered DEF LookForSlot, Creating
<1>5. CASE LockParents(w)
  <2>1. PICK held : held = ProjectLock
    OBVIOUS
  <2>2. /\ session[w].step \in Creating
        /\ Go(w, [session[w] EXCEPT !.step = "insert", !.held = held])
        /\ UNCHANGED <<kind, today, record, receipt, expenses>>
    BY <1>5, <2>1 DEF LockParents, Creating
  <2> QED
    BY <1>2, <2>2
<1>6. CASE Insert(w)
  <2>1. session[w].step \in Creating /\ UNCHANGED <<kind, today, record, receipt, expenses>>
        /\ KeyFree(w, session[w].key) /\ SlotFree(w, session[w].row.slot)
    BY <1>6 DEF Insert, Creating
  <2>2. \/ Answer(w)
        \/ Go(w, [session[w] EXCEPT !.step = "found"])
        \/ /\ Go(w, [session[w] EXCEPT !.step = "inserted"])
           /\ record[session[w].key] = NoRecord /\ ~SlotTaken(session[w].row.slot, {})
    BY <1>6 DEF Insert
  <2>3. CASE Go(w, [session[w] EXCEPT !.step = "found"])
    BY <1>2, <2>1, <2>3
  <2>4. CASE /\ Go(w, [session[w] EXCEPT !.step = "inserted"])
             /\ record[session[w].key] = NoRecord /\ ~SlotTaken(session[w].row.slot, {})
    BY <1>2, <2>1, <2>4
  <2> QED
    BY <2>1, <2>2, <2>3, <2>4, Answered
<1> QED
  BY <1>3, <1>4, <1>5, <1>6

\* A receipt is asked for, and goes on to lock its contribution.
LEMMA AskReceiptMoves ==
  ASSUME SoundInv, NEW w \in Workers, ReceiptsApi(w) \/ ReversalsApi(w)
  PROVE  \E s : SessionMoves(w, s)
<1>1. PICK r, what : r \in ReceiptKeys /\ AskReceipt(w, r, what) /\ ReceiptSound(what)
  <2>1. CASE ReceiptsApi(w)
    <3>1. PICK r, k, a, what :
            /\ r \in ReceiptKeys /\ k \in Keys /\ a \in 1..MaxExpected
            /\ what = [target |-> k, amount |-> a, of |-> None] /\ AskReceipt(w, r, what)
      BY <2>1 DEF ReceiptsApi, Receipts
    <3>2. what \in [target : Keys, amount : Nat \ {0}, of : ReceiptKeys \cup {None}]
          /\ what.of = None
      BY <3>1, DuesAssumption
    <3> QED
      BY <2>1, <3>1, <3>2 DEF ReceiptsApi, AskReceipt, ReceiptSound
  <2>2. CASE ReversalsApi(w)
    <3>1. PICK r, q, what :
            /\ r \in ReceiptKeys /\ q \in Reversible
            /\ what = [receipt[q] EXCEPT !.of = q] /\ AskReceipt(w, r, what)
      BY <2>2 DEF ReversalsApi, Reversals
    <3>2. q \in ReceiptKeys /\ receipt[q].target # None /\ receipt[q].of = None
      BY <3>1 DEF Reversible
    <3>3. receipt[q] # NoReceipt
      BY <3>2 DEF NoReceipt
    <3>4. ReceiptSound(receipt[q])
      BY <3>2, <3>3 DEF SoundInv, ReceiptsSound
    <3>5. PICK old : old = receipt[q] /\ old \in [target : Keys, amount : Nat \ {0}, of : ReceiptKeys \cup {None}]
      BY <3>4 DEF ReceiptSound
    <3>6. what = [old EXCEPT !.of = q]
      BY <3>1, <3>5
    <3>7. what \in [target : Keys, amount : Nat \ {0}, of : ReceiptKeys \cup {None}]
          /\ what.of = q /\ what.target = old.target /\ what.amount = old.amount
      BY <3>2, <3>5, <3>6
    <3> QED
      BY <2>2, <3>1, <3>2, <3>4, <3>5, <3>7 DEF AskReceipt, ReceiptSound
  <2> QED
    BY <2>1, <2>2
<1>2. PICK s : s = [NoSession EXCEPT !.step = "receiptKey", !.key = r, !.receipt = what]
  OBVIOUS
<1>3. s.step = "receiptKey" /\ s.key = r /\ s.receipt = what /\ DOMAIN s = Parts
  BY <1>2 DEF NoSession, Parts
<1>4. SessionSound(s)
  BY <1>1, <1>3 DEF SessionSound, Creating, Receiving
<1> QED
  BY <1>1, <1>2, <1>3, <1>4 DEF AskReceipt, Go, SessionMoves

LEMMA ReceiptMoves ==
  ASSUME SoundInv, NEW w \in Workers, LookForReceipt(w) \/ LockContribution(w)
  PROVE  \E s : SessionMoves(w, s)
<1>1. SessionSound(session[w])
  BY DEF SoundInv, SessionsSound
<1>2. CASE LookForReceipt(w)
  <2>1. CASE Go(w, [session[w] EXCEPT !.step = "contribution"])
    <3>1. PICK s : s = [session[w] EXCEPT !.step = "contribution"]
      OBVIOUS
    <3>2. s.step = "contribution" /\ s.key = session[w].key /\ s.receipt = session[w].receipt
          /\ DOMAIN s = Parts
      BY <1>1, <3>1 DEF SessionSound, Parts
    <3>3. SessionSound(s)
      BY <1>1, <1>2, <3>2 DEF SessionSound, Creating, Receiving, LookForReceipt
    <3> QED
      BY <1>2, <2>1, <3>1, <3>2, <3>3 DEF LookForReceipt, Go, SessionMoves
  <2> QED
    BY <1>2, <2>1, Answered DEF LookForReceipt
<1>3. CASE LockContribution(w)
  <2>1. PICK k, held, row : /\ k = session[w].receipt.target /\ row = record[k]
                            /\ <<"row", k>> \in held /\ Free(w, held)
                            /\ Go(w, [session[w] EXCEPT !.step = "received", !.held = held, !.row = row])
    BY <1>3 DEF LockContribution
  <2>2. PICK s : s = [session[w] EXCEPT !.step = "received", !.held = held, !.row = row]
    OBVIOUS
  <2>3. s.step = "received" /\ s.key = session[w].key /\ s.receipt = session[w].receipt
        /\ s.held = held /\ s.row = row /\ DOMAIN s = Parts
    BY <1>1, <2>2 DEF SessionSound, Parts
  <2>4. SessionSound(s)
    BY <1>1, <1>3, <2>1, <2>3 DEF SessionSound, Creating, Receiving, LockContribution
  <2>5. Free(w, {<<"row", k>>})
    BY <2>1 DEF Free
  <2> QED
    BY <1>3, <2>1, <2>2, <2>3, <2>4, <2>5 DEF LockContribution, Go, SessionMoves
<1> QED
  BY <1>2, <1>3

LEMMA AskRealizeMoves ==
  ASSUME NEW w \in Workers, RealizeApi(w)
  PROVE  \E s : SessionMoves(w, s)
<1>1. PICK k \in Keys : AskRealize(w, k) /\ kind = "plan"
  BY DEF RealizeApi
<1>2. PICK s : s = [NoSession EXCEPT !.step = "realize", !.key = k, !.row = record[k]]
  OBVIOUS
<1>3. s.step = "realize" /\ s.key = k /\ DOMAIN s = Parts
  BY <1>2 DEF NoSession, Parts
<1>4. SessionSound(s)
  BY <1>1, <1>3 DEF AskRealize, SessionSound, Creating, Receiving
<1> QED
  BY <1>1, <1>2, <1>3, <1>4 DEF AskRealize, Go, SessionMoves

-----------------------------------------------------------------------------
(* Steps that store something.                                             *)

\* A row is put where a key has one, or none yet.
Puts(k, row) ==
  /\ record' = [record EXCEPT ![k] = row]
  /\ kind' = kind
  /\ RowSound(row) /\ ~SlotTaken(row.slot, {k})

LEMMA PutRows ==
  ASSUME RecordsSound, NEW k \in Keys, NEW row, Puts(k, row)
  PROVE  /\ RecordsSound' /\ row # NoRecord
         /\ \A l \in Keys : record'[l] = IF l = k THEN row ELSE record[l]
<1>1. row # NoRecord
  BY DEF Puts, RowSound, NoRecord
<1>2. \A l \in Keys : record'[l] = IF l = k THEN row ELSE record[l]
  BY DEF RecordsSound, Puts
<1>3. record' = [l \in Keys |-> record'[l]]
  BY DEF RecordsSound, Puts
<1>4. ASSUME NEW l \in Keys, NEW x, x = record'[l], x # NoRecord PROVE RecordSound(l)'
  <2>1. RowSound(x)
    BY <1>2, <1>4 DEF RecordsSound, RecordSound, Puts
  <2>2. RowSound(x)'
    BY <2>1 DEF RowSound, Valid, StatusOf, Puts
  <2>3. ASSUME HasSlot, NEW m \in Keys \ {l} PROVE record'[m].slot # x.slot
    <3>1. CASE l = k
      BY <1>2, <1>4, <2>3, <3>1 DEF Puts, SlotTaken
    <3>2. CASE l # k
      <4>1. x = record[l] /\ ~SlotTaken(x.slot, {l})
        BY <1>2, <1>4, <3>2 DEF RecordsSound, RecordSound
      <4>2. CASE m = k
        BY <1>2, <2>3, <3>2, <4>1, <4>2 DEF Puts, SlotTaken
      <4>3. CASE m # k
        BY <1>2, <2>3, <4>1, <4>3 DEF SlotTaken
      <4> QED
        BY <4>2, <4>3
    <3> QED
      BY <3>1, <3>2
  <2> QED
    BY <1>4, <2>2, <2>3 DEF RecordSound, RowSound, Valid, StatusOf, SlotTaken, HasSlot, Puts
<1>5. \A l \in Keys : RecordSound(l)'
  BY <1>4 DEF RecordSound
<1> QED
  BY <1>1, <1>2, <1>3, <1>5 DEF RecordsSound

\* No step takes a record or a receipt away.
Grows ==
  /\ kind' = kind
  /\ \A k \in Keys : record[k] # NoRecord => record'[k] # NoRecord
  /\ \A r \in ReceiptKeys : receipt[r] # NoReceipt => receipt'[r] = receipt[r]

LEMMA ReceiptStays ==
  ASSUME Grows, NEW what, ReceiptSound(what)
  PROVE  ReceiptSound(what)'
<1>1. /\ what \in [target : Keys, amount : Nat \ {0}, of : ReceiptKeys \cup {None}]
      /\ record[what.target] # NoRecord /\ kind' = "contribution"
  BY DEF ReceiptSound, Grows
<1>2. what.of # None => receipt[what.of] # NoReceipt /\ what.of \in ReceiptKeys
  BY <1>1, NoneAssumption DEF ReceiptSound, NoReceipt
<1>3. what.of # None => receipt'[what.of] = receipt[what.of]
  BY <1>2 DEF Grows
<1> QED
  BY <1>1, <1>3 DEF ReceiptSound, Grows

LEMMA SessionStays ==
  ASSUME Grows, NEW s, SessionSound(s),
         s.step = "inserted" => record'[s.key] = NoRecord /\ ~SlotTaken(s.row.slot, {})',
         s.step = "received" => record'[s.receipt.target] = record[s.receipt.target]
  PROVE  SessionSound(s)'
<1>1. s.step \in Creating => NewRow(s.row)'
  BY DEF SessionSound, NewRow, RowSound, Valid, StatusOf, Grows
<1>2. s.step \in Receiving => ReceiptSound(s.receipt)'
  BY ReceiptStays DEF SessionSound
<1>3. s.step = "realize" => kind' = "plan" /\ record'[s.key] # NoRecord
  BY DEF SessionSound, Grows
<1> QED
  BY <1>1, <1>2, <1>3 DEF SessionSound

\* The requests of others, and the answer of the one that stores.
LEMMA OthersStay ==
  ASSUME SoundInv, Grows, NEW w \in Workers,
         session' = session \/ session' = [session EXCEPT ![w] = NoSession],
         session' = session => SessionSound(session[w])',
         \A v \in Workers \ {w} :
           /\ session[v].step = "inserted" =>
                record'[session[v].key] = NoRecord /\ ~SlotTaken(session[v].row.slot, {})'
           /\ session[v].step = "received" =>
                record'[session[v].receipt.target] = record[session[v].receipt.target]
  PROVE  SessionsSound' /\ SessionsApart'
<1>1. session = [v \in Workers |-> session[v]] /\ \A v \in Workers : SessionSound(session[v])
  BY DEF SoundInv, SessionsSound
<1>2. \A v \in Workers \ {w} : session'[v] = session[v]
  BY <1>1
<1>3. session' = [v \in Workers |-> session'[v]] /\ (session'[w] = NoSession \/ session' = session)
  BY <1>1
<1>4. ASSUME NEW v \in Workers PROVE SessionSound(session[v])'
  <2>1. PICK t : t = session'[v]
    OBVIOUS
  <2>2. CASE v # w
    <3>1. t = session[v] /\ SessionSound(t)
      BY <1>1, <1>2, <2>1, <2>2
    <3>2. SessionSound(t)'
      <4>1. t.step = "inserted" => record'[t.key] = NoRecord /\ ~SlotTaken(t.row.slot, {})'
        BY <1>2, <2>2, <3>1 DEF SlotTaken, HasSlot
      <4>2. t.step = "received" => record'[t.receipt.target] = record[t.receipt.target]
        BY <2>2, <3>1
      <4> QED
        BY <3>1, <4>1, <4>2, SessionStays
    <3> QED
      BY <2>1, <3>2 DEF SessionSound, NewRow, RowSound, Valid, StatusOf, SlotTaken, HasSlot, ReceiptSound
  <2>3. CASE v = w /\ session'[w] = NoSession
    <3>1. DOMAIN session'[w] = Parts /\ session'[w].step = "idle"
      BY <2>3, NoRowTyped
    <3> QED
      BY <2>3, <3>1 DEF SessionSound, Creating, Receiving
  <2> QED
    BY <1>3, <2>2, <2>3
<1>5. SessionsApart'
  <2>1. \A v \in Workers : session'[v] = session[v] \/ session'[v].step = "idle"
    BY <1>2, <1>3, NoRowTyped
  <2>2. SessionsApart /\ kind' = kind
    BY DEF SoundInv, Grows
  <2> QED
    BY <2>1, <2>2 DEF SessionsApart, HasSlot
<1> QED
  BY <1>3, <1>4, <1>5 DEF SessionsSound

\* Receipts do not change with the rows.
LEMMA ReceiptsStay ==
  ASSUME ReceiptsSound, Grows, UNCHANGED receipt
  PROVE  ReceiptsSound'
<1>1. ASSUME NEW r \in ReceiptKeys, receipt[r] # NoReceipt PROVE ReceiptSound(receipt[r])'
  <2>1. PICK what : what = receipt[r]
    OBVIOUS
  <2>2. ReceiptSound(what)
    BY <1>1, <2>1 DEF ReceiptsSound
  <2>3. ReceiptSound(what)'
    BY <2>2, ReceiptStays
  <2> QED
    BY <2>1, <2>3 DEF ReceiptSound
<1> QED
  BY <1>1 DEF ReceiptsSound, ReversedOnce

\* Only receipts of what is recorded stand.
LEMMA NoneStand ==
  ASSUME ReceiptsSound, NEW k \in Keys, record[k] = NoRecord
  PROVE  Standing(k) = {}
<1>1. ASSUME NEW r \in ReceiptKeys, receipt[r].target = k PROVE FALSE
  <2>1. receipt[r] # NoReceipt
    BY <1>1, NoneAssumption DEF NoReceipt
  <2> QED
    BY <1>1, <2>1 DEF ReceiptsSound, ReceiptSound
<1> QED
  BY <1>1 DEF Standing

LEMMA CommitCreationKeeps ==
  ASSUME SoundInv, NEW w \in Workers, CommitCreation(w)
  PROVE  SoundInv'
<1>1. SessionSound(session[w])
  BY DEF SoundInv, SessionsSound
<1>2. CASE session[w].step = "found"
  <2>1. SessionMoves(w, NoSession)
    BY <1>2, Answered DEF CommitCreation
  <2> QED
    BY <2>1, MovesKeeps
<1>3. CASE session[w].step = "inserted"
  <2>1. PICK k, row : k = session[w].key /\ row = session[w].row
    OBVIOUS
  <2>2. k \in Keys /\ NewRow(row) /\ record[k] = NoRecord /\ ~SlotTaken(row.slot, {})
    BY <1>1, <1>3, <2>1 DEF SessionSound, Creating
  <2>3. /\ record' = [record EXCEPT ![k] = row]
        /\ session' = [session EXCEPT ![w] = NoSession]
        /\ UNCHANGED <<kind, today, receipt, expenses>>
    BY <1>3, <2>1 DEF CommitCreation, Answer, Go
  <2>4. Puts(k, row)
    BY <2>2, <2>3 DEF Puts, NewRow, SlotTaken
  <2>5. /\ RecordsSound' /\ row # NoRecord
        /\ \A l \in Keys : record'[l] = IF l = k THEN row ELSE record[l]
    BY <2>2, <2>4, PutRows DEF SoundInv
  <2>6. Grows
    BY <2>3, <2>5 DEF Grows
  <2>7. ReceiptsSound'
    BY <2>3, <2>6, ReceiptsStay DEF SoundInv
  <2>8. Sums'
    <3> SUFFICES ASSUME kind = "contribution", NEW l \in Keys
                 PROVE  record'[l].received = SumOver(AmountOf, Standing(l))'
      BY <2>3 DEF Sums
    <3>1. SumOver(AmountOf, Standing(l))' = SumOver(AmountOf, Standing(l))
      BY <2>3 DEF AmountOf, Standing, Reversed
    <3>2. CASE l = k
      <4>1. SumOver(AmountOf, Standing(l)) = 0
        BY <2>2, <3>2, NoneStand, SumEmpty DEF SoundInv
      <4> QED
        BY <2>2, <2>5, <3>1, <3>2, <4>1 DEF NewRow
    <3>3. CASE l # k
      BY <2>5, <3>1, <3>3 DEF SoundInv, Sums
    <3> QED
      BY <3>2, <3>3
  <2>9. ASSUME NEW v \in Workers \ {w}
        PROVE  /\ session[v].step = "inserted" =>
                    record'[session[v].key] = NoRecord /\ ~SlotTaken(session[v].row.slot, {})'
               /\ session[v].step = "received" =>
                    record'[session[v].receipt.target] = record[session[v].receipt.target]
    <3>1. SessionSound(session[v]) /\ session'[v] = session[v]
      BY <2>3 DEF SoundInv, SessionsSound
    <3>2. ASSUME session[v].step = "inserted"
          PROVE  record'[session[v].key] = NoRecord /\ ~SlotTaken(session[v].row.slot, {})'
      <4>1. session[v].key # k /\ (HasSlot => session[v].row.slot # row.slot)
        BY <1>3, <2>1, <3>2 DEF SoundInv, SessionsApart
      <4>2. session[v].key \in Keys /\ record[session[v].key] = NoRecord
            /\ ~SlotTaken(session[v].row.slot, {})
        BY <3>1, <3>2 DEF SessionSound, Creating
      <4> QED
        BY <2>3, <2>5, <3>1, <4>1, <4>2 DEF SlotTaken, HasSlot
    <3>3. ASSUME session[v].step = "received"
          PROVE  record'[session[v].receipt.target] = record[session[v].receipt.target]
      BY <2>2, <2>5, <3>1, <3>3 DEF SessionSound, Receiving, ReceiptSound
    <3> QED
      BY <3>2, <3>3
  <2>10. session' = session => SessionSound(session[w])'
    <3>1. session'[w] = NoSession
      BY <2>3 DEF SoundInv, SessionsSound
    <3> QED
      BY <1>3, <3>1, NoRowTyped
  <2>11. SessionsSound' /\ SessionsApart'
    BY <2>3, <2>6, <2>9, <2>10, OthersStay
  <2>12. RealizedTyped'
    BY <2>3 DEF SoundInv, RealizedTyped
  <2> QED
    BY <2>5, <2>7, <2>8, <2>11, <2>12 DEF SoundInv
<1> QED
  BY <1>2, <1>3 DEF CommitCreation

\* The row of a key is put again, with what it has received.
LEMMA EditKeeps ==
  ASSUME SoundInv, NEW w \in Workers, NEW k \in Keys, NEW old, NEW row,
         Edit(w, k, old), row = [old EXCEPT !.version = record[k].version + 1],
         RowSound(row), row.slot = old.slot, row.received = record[k].received
  PROVE  SoundInv'
<1>1. /\ record' = [record EXCEPT ![k] = row] /\ record[k] # NoRecord
      /\ UNCHANGED <<kind, today, receipt, expenses, session>>
      /\ session[w].step = "idle" /\ Free(w, {<<"row", k>>})
      /\ SlotFree(w, row.slot) /\ ~SlotTaken(row.slot, {k})
  BY DEF Edit, Free
<1>2. /\ RecordsSound' /\ row # NoRecord
      /\ \A l \in Keys : record'[l] = IF l = k THEN row ELSE record[l]
  <2>1. Puts(k, row) /\ RecordsSound
    BY <1>1 DEF SoundInv, Puts
  <2> QED
    BY <2>1, PutRows
<1>3. Grows
  BY <1>1, <1>2 DEF Grows
<1>4. ReceiptsSound'
  BY <1>1, <1>3, ReceiptsStay DEF SoundInv
<1>5. Sums'
  <2> SUFFICES ASSUME kind = "contribution", NEW l \in Keys
               PROVE  record'[l].received = SumOver(AmountOf, Standing(l))'
    BY <1>1 DEF Sums
  <2>1. SumOver(AmountOf, Standing(l))' = SumOver(AmountOf, Standing(l))
    BY <1>1 DEF AmountOf, Standing, Reversed
  <2>2. record'[l].received = record[l].received
    BY <1>2
  <2> QED
    BY <2>1, <2>2 DEF SoundInv, Sums
<1>6. ASSUME NEW v \in Workers \ {w}
      PROVE  /\ session[v].step = "inserted" =>
                  record'[session[v].key] = NoRecord /\ ~SlotTaken(session[v].row.slot, {})'
             /\ session[v].step = "received" =>
                  record'[session[v].receipt.target] = record[session[v].receipt.target]
  <2>1. SessionSound(session[v]) /\ session'[v] = session[v]
    BY <1>1 DEF SoundInv, SessionsSound
  <2>2. ASSUME session[v].step = "inserted"
        PROVE  record'[session[v].key] = NoRecord /\ ~SlotTaken(session[v].row.slot, {})'
    <3>1. session[v].key \in Keys /\ record[session[v].key] = NoRecord
          /\ ~SlotTaken(session[v].row.slot, {})
      BY <2>1, <2>2 DEF SessionSound, Creating
    <3>2. HasSlot => session[v].row.slot # row.slot
      BY <1>1, <2>2 DEF SlotFree, Inserting
    <3> QED
      BY <1>1, <1>2, <2>1, <3>1, <3>2 DEF SlotTaken, HasSlot
  <2>3. ASSUME session[v].step = "received"
        PROVE  record'[session[v].receipt.target] = record[session[v].receipt.target]
    <3>1. session[v].receipt.target \in Keys /\ <<"row", session[v].receipt.target>> \in session[v].held
      BY <2>1, <2>3 DEF SessionSound, Receiving, ReceiptSound
    <3>2. session[v].receipt.target # k
      BY <1>1, <3>1 DEF Free
    <3> QED
      BY <1>2, <3>1, <3>2
  <2> QED
    BY <2>2, <2>3
<1>7. SessionSound(session[w])'
  BY <1>1 DEF SoundInv, SessionsSound, SessionSound, Creating, Receiving
<1>8. SessionsSound' /\ SessionsApart'
  BY <1>1, <1>3, <1>6, <1>7, OthersStay
<1>9. RealizedTyped'
  BY <1>1 DEF SoundInv, RealizedTyped
<1> QED
  BY <1>2, <1>4, <1>5, <1>8, <1>9 DEF SoundInv

\* What edits come to, kind by kind.
LEMMA EditsKeep ==
  ASSUME SoundInv, NEW w \in Workers,
         TaxApi(w) \/ CommissionApi(w) \/ ContributionApi(w) \/ PlanApi(w)
  PROVE  SoundInv'
<1>1. ASSUME NEW k, NEW row, Edit(w, k, row), k \in Keys
      PROVE  RowSound(record[k]) /\ record[k] \in Rows /\ record[k].version + 1 \in Nat
             /\ record[k].version + 1 > 0 /\ Valid(row)
  <2>1. record[k] # NoRecord /\ Valid(row)
    BY <1>1 DEF Edit
  <2>2. RowSound(record[k])
    BY <1>1, <2>1 DEF SoundInv, RecordsSound, RecordSound
  <2>3. record[k] \in Rows /\ record[k].version > 0
    BY <2>2 DEF RowSound
  <2>4. record[k].version \in Nat
    BY <2>3, RowIs
  <2> QED
    BY <2>1, <2>2, <2>3, <2>4
<1>2. ASSUME NEW k \in Keys, NEW s, NEW st, NEW a, NEW d, NEW e, NEW old,
             old = RowOf(st, s, a, record[k].received, d, e, record[k].version),
             Edit(w, k, old), st \in Statuses \ {"absent"}, a \in Nat, d \in Nat, e \in Nat,
             s \in IF kind = "plan" THEN {None} ELSE Slots,
             kind = "plan" => d > 0,
             kind = "contribution" =>
               /\ a > 0 /\ record[k].received <= a
               /\ st # "cancelled" => st = IF record[k].received = 0 THEN "expected"
                                          ELSE IF record[k].received = a THEN "received"
                                          ELSE "partial"
      PROVE  SoundInv'
  <2>1. PICK n, row : n = record[k].version + 1 /\ row = [old EXCEPT !.version = n]
    OBVIOUS
  <2>2. RowSound(record[k]) /\ n \in Nat /\ n > 0 /\ record[k].received \in Nat /\ Valid(old)
    BY <1>1, <1>2, <2>1, RowIs
  <2>3. row = RowOf(st, s, a, record[k].received, d, e, n)
    BY <1>2, <2>1, RowVersion
  <2>4. /\ row.status = st /\ row.slot = s /\ row.amount = a
        /\ row.received = record[k].received /\ row.due = d /\ row.ends = e /\ row.version = n
        /\ row \in Rows
    BY <1>2, <2>2, <2>3, RowFacts
  <2>5. /\ old.status = st /\ old.slot = s /\ old.amount = a /\ old.due = d /\ old.ends = e
    BY <1>2, RowFacts
  <2>6. RowSound(row)
    <3>1. Valid(row)
      BY <2>2, <2>4, <2>5 DEF Valid
    <3>2. kind = "contribution" =>
            /\ row.status # "cancelled" => row.status = StatusOf(row)
            /\ row.amount > 0 /\ row.received <= row.amount
      BY <1>2, <2>2, <2>4 DEF StatusOf, RowSound
    <3> QED
      BY <1>2, <2>2, <2>4, <3>1, <3>2 DEF RowSound
  <2> QED
    BY <1>2, <2>1, <2>4, <2>5, <2>6, EditKeeps
<1>3. CASE TaxApi(w)
  <2>1. PICK k \in Keys, s \in Slots, st \in {"planned", "paid", "voided"}, a \in {0, 1} :
          Edit(w, k, [record[k] EXCEPT !.slot = s, !.status = st, !.amount = a])
    BY <1>3 DEF TaxApi, UpdateTax
  <2>2. PICK old : old = [record[k] EXCEPT !.slot = s, !.status = st, !.amount = a]
    OBVIOUS
  <2>3. record[k] \in Rows
    BY <1>1, <2>1
  <2>4. old = RowOf(st, s, a, record[k].received, record[k].due, record[k].ends, record[k].version)
    BY <2>2, <2>3, TaxEdit
  <2>5. record[k].due \in Nat /\ record[k].ends \in Nat /\ a \in Nat
        /\ st \in Statuses \ {"absent"} /\ kind = "tax"
    BY <1>3, <2>3, RowIs DEF TaxApi, Statuses
  <2> QED
    BY <1>2, <2>1, <2>2, <2>4, <2>5
<1>4. CASE CommissionApi(w)
  <2>1. PICK k \in Keys, s \in Slots, st \in {"expected", "collected", "paid", "cancelled"}, a \in {1, 2} :
          Edit(w, k, [record[k] EXCEPT !.slot = s, !.status = st, !.amount = a])
    BY <1>4 DEF CommissionApi, UpdateCommission
  <2>2. PICK old : old = [record[k] EXCEPT !.slot = s, !.status = st, !.amount = a]
    OBVIOUS
  <2>3. record[k] \in Rows
    BY <1>1, <2>1
  <2>4. old = RowOf(st, s, a, record[k].received, record[k].due, record[k].ends, record[k].version)
    BY <2>2, <2>3, TaxEdit
  <2>5. record[k].due \in Nat /\ record[k].ends \in Nat /\ a \in Nat
        /\ st \in Statuses \ {"absent"} /\ kind = "commission"
    BY <1>4, <2>3, RowIs DEF CommissionApi, Statuses
  <2> QED
    BY <1>2, <2>1, <2>2, <2>4, <2>5
<1>5. CASE ContributionApi(w)
  <2>1. PICK k, s, st, a, old :
          /\ k \in Keys /\ s \in Slots /\ st \in {record[k].status, "cancelled"}
          /\ a \in 1..MaxExpected
          /\ old = [record[k] EXCEPT !.slot = s, !.status = st, !.amount = a]
          /\ ContributionMayBecome(record[k], old) /\ Edit(w, k, old)
    BY <1>5 DEF ContributionApi, UpdateContribution
  <2>2. record[k] \in Rows /\ RowSound(record[k]) /\ kind = "contribution"
    BY <1>1, <1>5, <2>1 DEF ContributionApi
  <2>3. old = RowOf(st, s, a, record[k].received, record[k].due, record[k].ends, record[k].version)
    BY <2>1, <2>2, TaxEdit
  <2>4. old.status = st /\ old.slot = s /\ old.amount = a
    BY <2>3, RowFacts
  <2>5. /\ record[k].due \in Nat /\ record[k].ends \in Nat /\ record[k].amount \in Nat
        /\ record[k].received \in Nat /\ a \in Nat /\ a > 0
        /\ record[k].status \in Statuses \ {"absent"} /\ st \in Statuses \ {"absent"}
    BY <2>1, <2>2, RowIs, DuesAssumption DEF RowSound, Statuses
  \* What is expected has received nothing; else the amount is what it was.
  <2>6. /\ record[k].received <= a
        /\ st # "cancelled" => st = IF record[k].received = 0 THEN "expected"
                                    ELSE IF record[k].received = a THEN "received" ELSE "partial"
    <3>1. CASE record[k].status = "expected"
      <4>1. record[k].received = 0
        BY <2>2, <2>5, <3>1 DEF RowSound, StatusOf
      <4> QED
        BY <2>1, <2>5, <3>1, <4>1
    <3>2. CASE record[k].status # "expected"
      <4>1. st = record[k].status /\ a = record[k].amount
        BY <2>1, <2>4, <3>2 DEF ContributionMayBecome
      <4> QED
        BY <2>2, <2>5, <4>1 DEF RowSound, StatusOf
    <3> QED
      BY <3>1, <3>2
  <2> QED
    BY <1>2, <2>1, <2>2, <2>3, <2>5, <2>6
<1>6. CASE PlanApi(w)
  <2>1. PICK k \in Keys, d \in 1..MaxDay, e \in 0..MaxDay, st \in {"active", "paused"} :
          Edit(w, k, [record[k] EXCEPT !.due = d, !.ends = e, !.status = st])
    BY <1>6 DEF PlanApi, UpdatePlan
  <2>2. PICK old : old = [record[k] EXCEPT !.due = d, !.ends = e, !.status = st]
    OBVIOUS
  <2>3. record[k] \in Rows /\ RowSound(record[k])
    BY <1>1, <2>1
  <2>4. old = RowOf(st, record[k].slot, record[k].amount, record[k].received, d, e,
                    record[k].version)
    BY <2>2, <2>3, PlanEdit
  <2>5. record[k].amount \in Nat /\ d \in Nat /\ d > 0 /\ e \in Nat
        /\ st \in Statuses \ {"absent"} /\ kind = "plan" /\ record[k].slot \in {None}
    BY <1>6, <2>3, RowIs, DuesAssumption DEF PlanApi, Statuses, RowSound
  <2> QED
    BY <1>2, <2>1, <2>2, <2>4, <2>5
<1> QED
  BY <1>3, <1>4, <1>5, <1>6

-----------------------------------------------------------------------------
(* A receipt and the new total of its contribution.                        *)

\* What standing receipts come to, after a receipt or a reversal.
LEMMA StandingAfter ==
  ASSUME ReceiptsSound, NEW r \in ReceiptKeys, NEW what, ReceiptSound(what),
         receipt[r] = NoReceipt, receipt' = [receipt EXCEPT ![r] = what],
         what.of # None => ~Reversed(what.of)
  PROVE  /\ \A l \in Keys \ {what.target} : SumOver(AmountOf, Standing(l))' = SumOver(AmountOf, Standing(l))
         /\ SumOver(AmountOf, Standing(what.target))'
              = IF what.of = None
                THEN SumOver(AmountOf, Standing(what.target)) + what.amount
                ELSE SumOver(AmountOf, Standing(what.target)) - what.amount
<1>1. /\ what.target \in Keys /\ what.amount \in Nat /\ what.of \in ReceiptKeys \cup {None}
      /\ r # None /\ None \notin Keys /\ receipt[r].target = None /\ receipt[r].of = None
      /\ receipt[r].amount = 0
      /\ what.of # None => /\ receipt[what.of].of = None
                           /\ receipt[what.of].target = what.target
                           /\ receipt[what.of].amount = what.amount
  BY NoneAssumption DEF ReceiptSound, NoReceipt
<1>2. \A q \in ReceiptKeys : receipt'[q] = IF q = r THEN what ELSE receipt[q]
  BY DEF ReceiptsSound
<1>3. \A q \in ReceiptKeys : receipt[q].of # r
  <2> SUFFICES ASSUME NEW q \in ReceiptKeys, receipt[q].of = r PROVE FALSE
    OBVIOUS
  <2>1. receipt[q] # NoReceipt
    BY <1>1 DEF NoReceipt
  <2>2. ReceiptSound(receipt[q])
    BY <2>1 DEF ReceiptsSound
  <2> QED
    BY <1>1, <2>2 DEF ReceiptSound
<1>4. \A q \in ReceiptKeys : Reversed(q)' <=> (Reversed(q) \/ q = what.of)
  BY <1>1, <1>2 DEF Reversed
<1>5. \A q \in ReceiptKeys : receipt[q] # NoReceipt => receipt[q].amount \in Nat
  BY DEF ReceiptsSound, ReceiptSound
<1>6. PICK f, g : f = AmountOf /\ g = AmountOf'
  OBVIOUS
<1>7. /\ \A q \in ReceiptKeys \ {r} : g[q] = f[q]
      /\ \A q \in ReceiptKeys : f[q] = receipt[q].amount
      /\ g[r] = what.amount
  BY <1>2, <1>6 DEF AmountOf
<1>8. \A q \in ReceiptKeys : f[q] \in Int /\ g[q] \in Int
  BY <1>1, <1>5, <1>7 DEF NoReceipt
<1>9. \A l \in Keys : /\ Standing(l) \subseteq ReceiptKeys \ {r} /\ IsFiniteSet(Standing(l))
                      /\ SumOver(f, Standing(l)) \in Int /\ SumOver(g, Standing(l)) = SumOver(f, Standing(l))
  <2> SUFFICES ASSUME NEW l \in Keys
               PROVE  /\ Standing(l) \subseteq ReceiptKeys \ {r} /\ IsFiniteSet(Standing(l))
                      /\ SumOver(f, Standing(l)) \in Int /\ SumOver(g, Standing(l)) = SumOver(f, Standing(l))
    OBVIOUS
  <2>1. Standing(l) \subseteq ReceiptKeys \ {r}
    BY <1>1 DEF Standing
  <2>2. Standing(l) \subseteq {q \in ReceiptKeys : receipt[q] # NoReceipt}
    BY <1>1 DEF Standing, NoReceipt
  <2>3. IsFiniteSet(Standing(l))
    BY <2>2, FS_Subset DEF ReceiptsSound
  <2>4. \A q \in Standing(l) : f[q] \in Int /\ g[q] = f[q]
    BY <1>7, <1>8, <2>1
  <2> QED
    BY <2>1, <2>3, <2>4, SumType, SumSame
<1>10. ASSUME NEW l \in Keys \ {what.target}
       PROVE  SumOver(AmountOf, Standing(l))' = SumOver(AmountOf, Standing(l))
  <2>1. Standing(l)' = Standing(l)
    <3>1. what.of # None => what.of \notin Standing(l)
      BY <1>1, <1>10 DEF Standing
    <3>2. \A q \in ReceiptKeys : q # None
      BY NoneAssumption
    <3>3. \A q \in ReceiptKeys : q \in Standing(l)' <=> q \in Standing(l)
      BY <1>1, <1>2, <1>4, <1>10, <3>1, <3>2 DEF Standing
    <3> QED
      BY <3>3 DEF Standing
  <2>2. SumOver(AmountOf, Standing(l))' = SumOver(g, Standing(l)')
    BY <1>6
  <2> QED
    BY <1>6, <1>9, <2>1, <2>2
<1>11. PICK k, S, T : k \in Keys /\ k = what.target /\ S = Standing(k) /\ T = Standing(k)'
  BY <1>1
<1>12. SumOver(AmountOf, Standing(k))' = SumOver(g, T)
  BY <1>6, <1>11
<1>13. CASE what.of = None
  <2>1. T = S \cup {r}
    <3>1. ~Reversed(r)
      BY <1>3 DEF Reversed
    <3>2. \A q \in ReceiptKeys : q # None
      BY NoneAssumption
    <3>3. \A q \in ReceiptKeys : q \in Standing(k)' <=> (q \in Standing(k) \/ q = r)
      BY <1>1, <1>2, <1>4, <1>11, <1>13, <3>1, <3>2 DEF Standing
    <3> QED
      BY <1>11, <3>3 DEF Standing
  <2>2. r \notin S /\ IsFiniteSet(S) /\ SumOver(g, S) = SumOver(f, S) /\ SumOver(f, S) \in Int
        /\ \A x \in S \cup {r} : g[x] \in Int
    BY <1>8, <1>9, <1>11
  <2>3. SumOver(g, T) = g[r] + SumOver(g, S)
    BY <2>1, <2>2, SumAdd
  <2> QED
    BY <1>1, <1>6, <1>7, <1>10, <1>11, <1>12, <1>13, <2>2, <2>3
<1>14. CASE what.of # None
  <2>1. PICK q \in ReceiptKeys : q = what.of
    BY <1>1, <1>14
  <2>2. q \in S /\ q # r /\ f[q] = what.amount
    BY <1>1, <1>7, <1>9, <1>11, <1>14, <2>1 DEF Standing
  <2>3. T = S \ {q}
    <3>1. \A p \in ReceiptKeys : p \in Standing(k)' <=> (p \in Standing(k) /\ p # q)
      BY <1>1, <1>2, <1>4, <1>11, <1>14, <2>1 DEF Standing
    <3> QED
      BY <1>11, <3>1 DEF Standing
  <2>4. IsFiniteSet(S) /\ SumOver(f, S) \in Int /\ \A x \in S : f[x] \in Int
    BY <1>8, <1>9, <1>11
  <2>5. IsFiniteSet(T) /\ \A x \in T : f[x] \in Int /\ f[x] = g[x]
    BY <1>7, <1>9, <1>11, <2>3, <2>4, FS_Subset
  <2>6. SumOver(f, S) = f[q] + SumOver(f, T)
    BY <2>2, <2>3, <2>4, SumRemove
  <2>7. SumOver(g, T) = SumOver(f, T) /\ SumOver(f, T) \in Int
    BY <2>5, SumSame, SumType
  <2> QED
    BY <1>1, <1>6, <1>10, <1>11, <1>12, <1>14, <2>2, <2>4, <2>6, <2>7
<1> QED
  BY <1>13, <1>14

LEMMA CommitReceiptKeeps ==
  ASSUME SoundInv, NEW w \in Workers, CommitReceipt(w)
  PROVE  SoundInv'
<1>1. SessionSound(session[w]) /\ session[w].step = "received"
  BY DEF SoundInv, SessionsSound, CommitReceipt
<1>2. PICK r, what, k, row : /\ r = session[w].key /\ what = session[w].receipt
                             /\ k = what.target /\ row = session[w].row
  OBVIOUS
<1>3. r \in ReceiptKeys /\ ReceiptSound(what) /\ row = record[k]
      /\ k \in Keys /\ record[k] # NoRecord /\ kind = "contribution"
      /\ what.amount \in Nat \ {0}
  BY <1>1, <1>2 DEF SessionSound, Receiving, ReceiptSound
<1>4. CASE ~(Acceptable(row, what) /\ receipt[r] = NoReceipt /\ record[k].version = row.version)
  <2>1. SessionMoves(w, NoSession)
    BY <1>2, <1>4, Answered DEF CommitReceipt
  <2> QED
    BY <2>1, MovesKeeps
<1>5. CASE Acceptable(row, what) /\ receipt[r] = NoReceipt /\ record[k].version = row.version
  <2>1. RowSound(row) /\ row \in Rows
    BY <1>3 DEF SoundInv, RecordsSound, RecordSound, RowSound
  <2>2. PICK n : n = IF what.of = None THEN row.received + what.amount
                     ELSE row.received - what.amount
    OBVIOUS
  <2>3. n \in Nat /\ n <= row.amount /\ row.amount \in Nat /\ row.received \in Nat
        /\ row.version \in Nat
    BY <1>3, <1>5, <2>1, <2>2, RowIs DEF Acceptable, RowSound
  <2>4. PICK total : total = [row EXCEPT !.version = row.version + 1, !.received = n]
    OBVIOUS
  <2>5. total = RowOf(row.status, row.slot, row.amount, n, row.due, row.ends, row.version + 1)
    BY <2>1, <2>4, ReceivedEdit
  <2>6. PICK st, new : st = StatusOf(total) /\ new = [total EXCEPT !.status = st]
    OBVIOUS
  <2>7. new = RowOf(st, row.slot, row.amount, n, row.due, row.ends, row.version + 1)
    <3>1. [total EXCEPT !.status = st]
            = RowOf(st, row.slot, row.amount, n, row.due, row.ends, row.version + 1)
      BY <2>5 DEF RowOf
    <3> QED
      BY <2>6, <3>1
  <2>8. /\ receipt' = [receipt EXCEPT ![r] = what]
        /\ record' = [record EXCEPT ![k] = new]
        /\ session' = [session EXCEPT ![w] = NoSession]
        /\ UNCHANGED <<kind, today, expenses>>
    BY <1>2, <1>5, <2>2, <2>4, <2>6 DEF CommitReceipt, Answer, Go
  <2>9. /\ total.received = n /\ total.amount = row.amount
        /\ st \in {"expected", "received", "partial"}
    BY <2>5, <2>6, RowFacts DEF StatusOf
  <2>10. /\ new.status = st /\ new.slot = row.slot /\ new.amount = row.amount /\ new.received = n
         /\ new.version = row.version + 1 /\ new \in Rows
    BY <2>1, <2>3, <2>7, <2>9, RowIs, RowFacts DEF Statuses
  <2>11. st = StatusOf(new)
    BY <2>6, <2>9, <2>10 DEF StatusOf
  <2>12. RowSound(new)
    BY <1>3, <2>1, <2>3, <2>9, <2>10, <2>11 DEF RowSound, Valid
  <2>13. Puts(k, new) /\ RecordsSound
    <3>1. ~SlotTaken(row.slot, {k})
      BY <1>3 DEF SoundInv, RecordsSound, RecordSound
    <3> QED
      BY <2>8, <2>10, <2>12, <3>1 DEF Puts, SoundInv
  <2>14. /\ RecordsSound' /\ new # NoRecord
         /\ \A l \in Keys : record'[l] = IF l = k THEN new ELSE record[l]
    BY <1>3, <2>13, PutRows
  <2>15. \A q \in ReceiptKeys : receipt'[q] = IF q = r THEN what ELSE receipt[q]
    BY <2>8 DEF SoundInv, ReceiptsSound
  <2>16. Grows
    BY <1>5, <2>8, <2>14, <2>15 DEF Grows
  <2>17. what.of # None => ~Reversed(what.of)
    BY <1>5 DEF Acceptable
  <2>18. ReceiptsSound'
    <3>1. receipt' = [q \in ReceiptKeys |-> receipt'[q]]
      BY <2>8 DEF SoundInv, ReceiptsSound
    <3>2. IsFiniteSet({q \in ReceiptKeys : receipt'[q] # NoReceipt})
      <4>1. IsFiniteSet({q \in ReceiptKeys : receipt[q] # NoReceipt} \cup {r})
        BY FS_AddElement DEF SoundInv, ReceiptsSound
      <4>2. {q \in ReceiptKeys : receipt'[q] # NoReceipt}
              \subseteq {q \in ReceiptKeys : receipt[q] # NoReceipt} \cup {r}
        BY <2>15
      <4> QED
        BY <4>1, <4>2, FS_Subset
    <3>3. ASSUME NEW q \in ReceiptKeys, receipt'[q] # NoReceipt PROVE ReceiptSound(receipt[q])'
      <4>1. PICK x : x = receipt'[q]
        OBVIOUS
      <4>2. ReceiptSound(x)
        BY <1>3, <2>15, <3>3, <4>1 DEF SoundInv, ReceiptsSound
      <4>3. ReceiptSound(x)'
        BY <2>16, <4>2, ReceiptStays
      <4> QED
        BY <4>1, <4>3 DEF ReceiptSound
    <3>4. ReversedOnce'
      <4>1. ReversedOnce
        BY DEF SoundInv, ReceiptsSound
      <4>2. ASSUME NEW q \in ReceiptKeys, q # r, receipt'[q].of = receipt'[r].of, receipt'[q].of # None
            PROVE  FALSE
        <5>1. receipt'[q] = receipt[q] /\ receipt'[r] = what
          BY <1>3, <2>15, <4>2
        <5>2. receipt[q].of = what.of /\ what.of # None
          BY <4>2, <5>1
        <5> QED
          BY <2>17, <5>2 DEF Reversed
      <4> QED
        BY <2>15, <4>1, <4>2 DEF ReversedOnce
    <3> QED
      BY <3>1, <3>2, <3>3, <3>4 DEF ReceiptsSound
  <2>19. Sums'
    <3>1. ReceiptsSound /\ Sums
      BY DEF SoundInv
    <3>2. /\ \A l \in Keys \ {what.target} :
               SumOver(AmountOf, Standing(l))' = SumOver(AmountOf, Standing(l))
          /\ SumOver(AmountOf, Standing(what.target))'
               = IF what.of = None
                 THEN SumOver(AmountOf, Standing(what.target)) + what.amount
                 ELSE SumOver(AmountOf, Standing(what.target)) - what.amount
      BY <1>3, <1>5, <2>8, <2>17, <3>1, StandingAfter
    <3>3. \A l \in Keys : record[l].received = SumOver(AmountOf, Standing(l))
      BY <1>3, <3>1 DEF Sums
    <3>4. ASSUME NEW l \in Keys PROVE record'[l].received = SumOver(AmountOf, Standing(l))'
      <4>1. CASE l # k
        BY <1>2, <2>14, <3>2, <3>3, <4>1
      <4>2. CASE l = k
        <5>1. SumOver(AmountOf, Standing(k)) = row.received
          BY <1>3, <3>3
        <5>2. SumOver(AmountOf, Standing(k))' = n
          BY <1>2, <2>2, <3>2, <5>1
        <5> QED
          BY <2>10, <2>14, <4>2, <5>2
      <4> QED
        BY <4>1, <4>2
    <3> QED
      BY <3>4 DEF Sums
  <2>20. ASSUME NEW v \in Workers \ {w}
         PROVE  /\ session[v].step = "inserted" =>
                     record'[session[v].key] = NoRecord /\ ~SlotTaken(session[v].row.slot, {})'
                /\ session[v].step = "received" =>
                     record'[session[v].receipt.target] = record[session[v].receipt.target]
    <3>1. SessionSound(session[v]) /\ session'[v] = session[v]
      BY <2>8 DEF SoundInv, SessionsSound
    <3>2. ASSUME session[v].step = "inserted"
          PROVE  record'[session[v].key] = NoRecord /\ ~SlotTaken(session[v].row.slot, {})'
      <4>1. session[v].key \in Keys /\ record[session[v].key] = NoRecord
            /\ ~SlotTaken(session[v].row.slot, {})
        BY <3>1, <3>2 DEF SessionSound, Creating
      <4>2. \A l \in Keys : record'[l].slot = record[l].slot
        BY <1>3, <2>10, <2>14
      <4> QED
        BY <1>3, <2>8, <2>14, <3>1, <4>1, <4>2 DEF SlotTaken, HasSlot
    <3>3. ASSUME session[v].step = "received"
          PROVE  record'[session[v].receipt.target] = record[session[v].receipt.target]
      <4>1. session[v].receipt.target \in Keys
        BY <3>1, <3>3 DEF SessionSound, Receiving, ReceiptSound
      <4>2. session[v].receipt.target # k
        BY <1>1, <1>2, <3>3 DEF SoundInv, SessionsApart
      <4> QED
        BY <2>14, <4>1, <4>2
    <3> QED
      BY <3>2, <3>3
  <2>21. session' = session => SessionSound(session[w])'
    <3>1. session'[w] = NoSession
      BY <2>8 DEF SoundInv, SessionsSound
    <3> QED
      BY <1>1, <3>1, NoRowTyped
  <2>22. SessionsSound' /\ SessionsApart'
    BY <2>8, <2>16, <2>20, <2>21, OthersStay
  <2>23. RealizedTyped'
    BY <2>8 DEF SoundInv, RealizedTyped
  <2> QED
    BY <2>14, <2>18, <2>19, <2>22, <2>23 DEF SoundInv
<1> QED
  BY <1>4, <1>5

-----------------------------------------------------------------------------
(* Realising a plan; the day that comes.                                   *)

LEMMA RealizeKeeps ==
  ASSUME DuesInv, SoundInv, NEW w \in Workers, Realize(w)
  PROVE  SoundInv'
<1>1. SessionSound(session[w]) /\ session[w].step = "realize"
  BY DEF SoundInv, SessionsSound, Realize
<1>2. PICK k, seen, now : k = session[w].key /\ seen = session[w].row /\ now = record[k]
  OBVIOUS
<1>3. k \in Keys /\ now # NoRecord /\ kind = "plan"
  BY <1>1, <1>2 DEF SessionSound
<1>4. CASE ~(SameVersion(seen, now) /\ now.status = "active" /\ now.due <= today)
  <2>1. SessionMoves(w, NoSession)
    BY <1>2, <1>4, Answered DEF Realize
  <2> QED
    BY <2>1, MovesKeeps
<1>5. CASE SameVersion(seen, now) /\ now.status = "active" /\ now.due <= today
  <2>1. seen = now
    BY <1>1, <1>2, <1>3, <1>5 DEF DuesInv, Compares, Compared, RequestSound, SameVersion
  <2>2. RowSound(now) /\ now \in Rows
    BY <1>2, <1>3 DEF SoundInv, RecordsSound, RecordSound, RowSound
  <2>3. /\ now.version \in Nat /\ now.version > 0 /\ now.due \in Nat /\ now.due > 0
        /\ now.slot = None
    BY <1>3, <2>2, RowIs DEF RowSound
  <2>4. PICK d, n, st, new : /\ d = now.due + 1 /\ n = now.version + 1 /\ st = StatusAfter(now, d)
                             /\ new = [now EXCEPT !.due = d, !.version = n, !.status = st]
    OBVIOUS
  <2>5. new = RowOf(st, now.slot, now.amount, now.received, d, now.ends, n)
    <3>1. now = RowOf(now.status, now.slot, now.amount, now.received, now.due, now.ends, now.version)
      BY <2>2, RowIs
    <3>2. PICK p, q : p = [now EXCEPT !.due = d] /\ q = [p EXCEPT !.version = n]
      OBVIOUS
    <3>3. new = [q EXCEPT !.status = st]
      BY <2>4, <3>2
    <3>4. p = RowOf(now.status, now.slot, now.amount, now.received, d, now.ends, now.version)
      BY <3>1, <3>2 DEF RowOf
    <3>5. q = RowOf(now.status, now.slot, now.amount, now.received, d, now.ends, n)
      BY <3>2, <3>4 DEF RowOf
    <3> QED
      BY <3>3, <3>5 DEF RowOf
  <2>6. /\ new.status = st /\ new.slot = now.slot /\ new.due = d /\ new.ends = now.ends
        /\ new.version = n /\ new.received = now.received
        /\ new \in Rows
    <3>1. st \in Statuses /\ d \in Nat /\ n \in Nat
      BY <2>3, <2>4 DEF StatusAfter, Statuses
    <3>2. now.slot \in Slots \cup {None} /\ now.amount \in Nat /\ now.received \in Nat /\ now.ends \in Nat
      BY <2>2, RowIs
    <3> QED
      BY <2>5, <3>1, <3>2, RowFacts
  <2>7. RowSound(new)
    <3>1. now.ends \in Nat
      BY <2>2, RowIs
    <3>2. Valid(new)
      BY <1>3, <2>3, <2>4, <2>6, <3>1 DEF Valid, StatusAfter
    <3> QED
      BY <1>3, <2>3, <2>4, <2>6, <3>2 DEF RowSound, StatusAfter
  <2>8. PICK e : e = [plan |-> k, version |-> now.version, due |-> now.due, seen |-> seen.due]
    OBVIOUS
  <2>9. /\ record' = [record EXCEPT ![k] = new] /\ expenses' = expenses \cup {e}
        /\ session' = [session EXCEPT ![w] = NoSession]
        /\ UNCHANGED <<kind, today, receipt>> /\ now.version < MaxVersion
    BY <1>2, <1>5, <2>4, <2>8 DEF Realize, Answer, Go
  <2>10. Puts(k, new) /\ RecordsSound
    BY <1>3, <2>7, <2>9 DEF Puts, SoundInv, SlotTaken, HasSlot
  <2>11. /\ RecordsSound' /\ new # NoRecord
         /\ \A l \in Keys : record'[l] = IF l = k THEN new ELSE record[l]
    BY <1>3, <2>10, PutRows
  <2>12. Grows
    BY <2>9, <2>11 DEF Grows
  <2>13. ReceiptsSound' /\ Sums'
    BY <1>3, <2>9, <2>12, ReceiptsStay DEF SoundInv, Sums
  <2>14. ASSUME NEW v \in Workers \ {w}
         PROVE  /\ session[v].step = "inserted" =>
                     record'[session[v].key] = NoRecord /\ ~SlotTaken(session[v].row.slot, {})'
                /\ session[v].step = "received" =>
                     record'[session[v].receipt.target] = record[session[v].receipt.target]
    <3>1. SessionSound(session[v])
      BY DEF SoundInv, SessionsSound
    <3>2. session[v].step = "inserted" => record[session[v].key] = NoRecord /\ session[v].key \in Keys
      BY <3>1 DEF SessionSound, Creating
    <3>3. session[v].step # "received"
      BY <1>3, <3>1 DEF SessionSound, Receiving, ReceiptSound
    <3> QED
      BY <1>2, <1>3, <2>9, <2>11, <3>2, <3>3 DEF SlotTaken, HasSlot
  <2>15. session' = session => SessionSound(session[w])'
    <3>1. session'[w] = NoSession
      BY <2>9 DEF SoundInv, SessionsSound
    <3> QED
      BY <1>1, <3>1, NoRowTyped
  <2>16. SessionsSound' /\ SessionsApart'
    BY <2>9, <2>12, <2>14, <2>15, OthersStay
  <2>17. RealizedTyped'
    <3>1. today \in 1..MaxDay
      BY DEF SoundInv, RealizedTyped
    <3>2. now.version \in 1..MaxVersion /\ now.due \in 1..MaxDay
      BY <1>5, <2>3, <2>9, <3>1, DuesAssumption
    <3>3. e \in [plan : Keys, version : 1..MaxVersion, due : 1..MaxDay, seen : 1..MaxDay]
      BY <1>3, <2>1, <2>8, <3>2
    <3> QED
      BY <2>9, <3>3 DEF SoundInv, RealizedTyped
  <2> QED
    BY <2>11, <2>13, <2>16, <2>17 DEF SoundInv
<1> QED
  BY <1>4, <1>5

LEMMA SoundStep ==
  ASSUME DuesInv, SoundInv, NEW w \in Workers, WorkerStep(w)
  PROVE  SoundInv'
<1>1. ASSUME \E s : SessionMoves(w, s) PROVE SoundInv'
  BY <1>1, MovesKeeps
<1>2. CASE TaxesApi(w) \/ CommissionsApi(w) \/ ContributionsApi(w) \/ PlansApi(w)
           \/ CategoriesApi(w)
  BY <1>1, <1>2, AskMoves
<1>3. CASE TaxApi(w) \/ CommissionApi(w) \/ ContributionApi(w) \/ PlanApi(w)
  BY <1>3, EditsKeep
<1>4. CASE ReceiptsApi(w) \/ ReversalsApi(w)
  BY <1>1, <1>4, AskReceiptMoves
<1>5. CASE RealizeApi(w)
  BY <1>1, <1>5, AskRealizeMoves
<1>6. CASE LookForKey(w) \/ LookForSlot(w) \/ LockParents(w) \/ Insert(w)
  BY <1>1, <1>6, CreationMoves
<1>7. CASE LookForReceipt(w) \/ LockContribution(w)
  BY <1>1, <1>7, ReceiptMoves
<1>8. CASE Fail(w)
  BY <1>1, <1>8, Answered DEF Fail
<1>9. CASE CommitCreation(w)
  BY <1>9, CommitCreationKeeps
<1>10. CASE CommitReceipt(w)
  BY <1>10, CommitReceiptKeeps
<1>11. CASE Realize(w)
  BY <1>11, RealizeKeeps
<1> QED
  BY <1>2, <1>3, <1>4, <1>5, <1>6, <1>7, <1>8, <1>9, <1>10, <1>11 DEF WorkerStep

LEMMA InitSoundInv == Init => SoundInv
<1> SUFFICES ASSUME Init PROVE SoundInv
  OBVIOUS
<1>1. /\ record = [k \in Keys |-> NoRecord] /\ receipt = [r \in ReceiptKeys |-> NoReceipt]
      /\ session = [w \in Workers |-> NoSession] /\ today = 1 /\ expenses = {}
  BY DEF Init
<1>2. RecordsSound
  BY <1>1 DEF RecordsSound, RecordSound
<1>3. ReceiptsSound
  <2>1. \A r \in ReceiptKeys : receipt[r] = NoReceipt
    BY <1>1
  <2>2. {r \in ReceiptKeys : receipt[r] # NoReceipt} = {}
    BY <2>1
  <2>3. ReversedOnce
    BY <2>1 DEF ReversedOnce, NoReceipt
  <2> QED
    BY <1>1, <2>1, <2>2, <2>3, FS_EmptySet DEF ReceiptsSound
<1>4. Sums
  <2>1. ASSUME NEW k \in Keys PROVE record[k].received = 0 /\ Standing(k) = {}
    BY <1>1, <1>3, NoneStand DEF NoRecord
  <2> QED
    BY <2>1, SumEmpty DEF Sums
<1>5. SessionsSound
  BY <1>1, IdleSound DEF SessionsSound
<1>6. SessionsApart
  BY <1>1, NoRowTyped DEF SessionsApart
<1>7. RealizedTyped
  BY <1>1, DuesAssumption DEF RealizedTyped
<1> QED
  BY <1>2, <1>3, <1>4, <1>5, <1>6, <1>7 DEF SoundInv

LEMMA NextSoundInv == DuesInv /\ SoundInv /\ [Next]_dueVars => SoundInv'
<1> SUFFICES ASSUME DuesInv, SoundInv, [Next]_dueVars PROVE SoundInv'
  OBVIOUS
<1>1. ASSUME UNCHANGED <<kind, record, receipt, expenses, session>>, today' \in 1..MaxDay
      PROVE  SoundInv'
  <2>1. RecordsSound' /\ ReceiptsSound' /\ Sums' /\ \A s : SessionSound(s) => SessionSound(s)'
    BY <1>1, TablesSame DEF SoundInv
  <2>2. ASSUME NEW w \in Workers PROVE SessionSound(session[w])'
    <3>1. PICK s : s = session[w]
      OBVIOUS
    <3>2. SessionSound(s)'
      BY <2>1, <3>1 DEF SoundInv, SessionsSound
    <3> QED
      BY <1>1, <3>1, <3>2 DEF SessionSound, NewRow, RowSound, Valid, StatusOf, SlotTaken, HasSlot, ReceiptSound
  <2>3. SessionsSound' /\ SessionsApart' /\ RealizedTyped'
    BY <1>1, <2>2 DEF SoundInv, SessionsSound, SessionsApart, HasSlot, RealizedTyped
  <2> QED
    BY <2>1, <2>3 DEF SoundInv
<1>2. CASE UNCHANGED dueVars
  BY <1>1, <1>2 DEF dueVars, SoundInv, RealizedTyped
<1>3. CASE NextDay
  <2>1. today' \in 1..MaxDay
    BY <1>3, DuesAssumption DEF NextDay, SoundInv, RealizedTyped
  <2> QED
    BY <1>1, <1>3, <2>1 DEF NextDay
<1>4. ASSUME NEW w \in Workers, WorkerStep(w) PROVE SoundInv'
  BY <1>4, SoundStep
<1> QED
  BY <1>2, <1>3, <1>4 DEF Next, WorkerStep

\* The sum of the model is the sum of the lemmas.
LEMMA ReceivedSum ==
  ASSUME NEW S \in SUBSET ReceiptKeys, IsFiniteSet(S)
  PROVE  MapThenSumSet(LAMBDA r : receipt[r].amount, S) = SumOver(AmountOf, S)
<1> DEFINE h == CHOOSE g : g = [s \in SUBSET S |->
                                  IF s = {} THEN 0
                                  ELSE receipt[CHOOSE k \in s : TRUE].amount
                                       + g[s \ {CHOOSE k \in s : TRUE}]]
<1>1. MapThenSumSet(LAMBDA r : receipt[r].amount, S) = h[S]
  BY DEF MapThenSumSet, MapThenFoldSet
<1>2. PICK g : Recurs(g, AmountOf, S)
  BY RecursExists
<1>3. \A s \in SUBSET S : s # {} =>
        (CHOOSE k \in s : TRUE) \in ReceiptKeys /\ Pick(s) = (CHOOSE k \in s : TRUE)
        /\ AmountOf[Pick(s)] = receipt[CHOOSE k \in s : TRUE].amount
  BY DEF AmountOf, Pick
<1>4. g = [s \in SUBSET S |-> IF s = {} THEN 0
           ELSE receipt[CHOOSE k \in s : TRUE].amount + g[s \ {CHOOSE k \in s : TRUE}]]
  BY <1>2, <1>3 DEF Recurs, Pick
<1>5. h = [s \in SUBSET S |-> IF s = {} THEN 0
           ELSE receipt[CHOOSE k \in s : TRUE].amount + h[s \ {CHOOSE k \in s : TRUE}]]
  BY <1>4
<1> HIDE DEF h
<1>6. Recurs(h, AmountOf, S)
  BY <1>3, <1>5 DEF Recurs, Pick
<1>7. h[S] = SumOver(AmountOf, S)
  BY <1>6, SumRecurs
<1> QED
  BY <1>1, <1>7

-----------------------------------------------------------------------------
(* The theorem.                                                            *)

LEMMA SoundInvHolds == Spec => []SoundInv
<1>1. Init => DuesInv /\ SoundInv
  BY InitDuesInv, InitSoundInv
<1>2. (DuesInv /\ SoundInv) /\ [Next]_dueVars => (DuesInv /\ SoundInv)'
  BY NextDuesInv, NextSoundInv
<1> QED
  BY <1>1, <1>2, PTL DEF Spec

\* Whatever the kind of record: rows are of their types, a slot has one record, and
\* however receipts, reversals and edits of a contribution overlap, what it says it has
\* received is what its standing receipts come to, within what is expected of it.
THEOREM DuesSoundHolds == Spec => []DuesSound
<1>1. SoundInv => DuesTypeOK
  <2> SUFFICES ASSUME SoundInv PROVE DuesTypeOK
    OBVIOUS
  <2>1. ASSUME NEW k \in Keys, record[k] # NoRecord
        PROVE  /\ record[k].slot \in (IF kind = "plan" THEN {None} ELSE Slots) /\ record[k].version > 0
               /\ ~SlotTaken(record[k].slot, {k})
               /\ Valid(record[k])
    BY <2>1 DEF SoundInv, RecordsSound, RecordSound, RowSound
  <2>2. ASSUME NEW r \in ReceiptKeys PROVE receipt[r].target \in Keys \cup {None}
    <3>1. CASE receipt[r] = NoReceipt
      BY <3>1 DEF NoReceipt
    <3>2. CASE receipt[r] # NoReceipt
      BY <3>2 DEF SoundInv, ReceiptsSound, ReceiptSound
    <3> QED
      BY <3>1, <3>2
  <2> QED
    BY <2>1, <2>2 DEF DuesTypeOK, SoundInv, RealizedTyped
<1>2. SoundInv => ReceivedAddsUp
  <2> SUFFICES ASSUME SoundInv, kind = "contribution", NEW k \in Keys
               PROVE  /\ record[k].received = MapThenSumSet(LAMBDA r : receipt[r].amount, Standing(k))
                      /\ record[k].received <= record[k].amount
                      /\ record[k].status \notin {"absent", "cancelled"}
                           => record[k].status = StatusOf(record[k])
                      /\ ReversedOnce
    BY DEF ReceivedAddsUp, Standing, ReversedOnce
  <2>1. Standing(k) \in SUBSET ReceiptKeys /\ IsFiniteSet(Standing(k))
    <3>1. Standing(k) \subseteq {r \in ReceiptKeys : receipt[r] # NoReceipt}
      BY NoneAssumption DEF Standing, NoReceipt
    <3> QED
      BY <3>1, FS_Subset DEF SoundInv, ReceiptsSound
  <2>2. MapThenSumSet(LAMBDA r : receipt[r].amount, Standing(k)) = SumOver(AmountOf, Standing(k))
    BY <2>1, ReceivedSum
  <2>3. record[k].received = SumOver(AmountOf, Standing(k)) /\ ReversedOnce
    BY DEF SoundInv, Sums, ReceiptsSound
  <2>4. CASE record[k] = NoRecord
    BY <2>2, <2>3, <2>4 DEF NoRecord
  <2>5. CASE record[k] # NoRecord
    BY <2>2, <2>3, <2>5 DEF SoundInv, RecordsSound, RecordSound, RowSound
  <2> QED
    BY <2>4, <2>5
<1>3. SoundInv => DuesSound
  BY <1>1, <1>2 DEF DuesSound
<1> QED
  BY <1>3, SoundInvHolds, PTL

=============================================================================
