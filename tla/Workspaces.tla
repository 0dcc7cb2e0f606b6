------------------------------ MODULE Workspaces ------------------------------
(***************************************************************************)
(* The screens of the portal (src/components): what a browser keeps of the *)
(* server's records, and how its forms write to them.                      *)
(*                                                                         *)
(* A behaviour is about one screen of one user: a list read from the       *)
(* server, a form, and the requests under way.  Any request may be slow or *)
(* lost, before or after the server has done it; requests that the browser *)
(* gave up may still be done.  Another user edits the same records.        *)
(*                                                                         *)
(* The server is abstract: it compares versions, looks for the operation   *)
(* key and for what is unique by nature; the other modules have it in      *)
(* detail.  What is typed is one of a few texts; which record belongs to   *)
(* which filter is left out: a list is tagged with the filter it was read  *)
(* for.  A session that ended (401) is left out.                           *)
(***************************************************************************)
EXTENDS Integers, Sequences, FiniteSets

CONSTANTS
  Texts,           \* what a form may hold, in all fields that matter
  Filters,         \* months, projects, days
  Calls,           \* writes under way
  Visited,         \* the screens that behaviours are about
  MaxOpenings,     \* bound: forms that are opened
  MaxSends,        \* bound: writes
  MaxLoads,        \* bound: reads of the list
  MaxOthers        \* bound: edits of the other user

VARIABLES
  screen,
  form,            \* the editor: on the record 0 if it is for a new one
  ref,             \* operationRef: the key of a creation, and the text it is for
  wish,            \* what the user is trying to create, for as long as it is unsettled
  saving,          \* saveState = "saving"
  busy,            \* the action on a row that is under way locks the others
  calls,
  table,           \* the server's records
  shown,           \* the list on the screen
  filter,
  loads,           \* reads of the list under way, that nobody aborted
  told,            \* what the screen said was saved
  sends, asked, others

screenVars == <<screen, form, ref, wish, saving, busy, calls, table, shown, filter, loads,
                told, sends, asked, others>>

Nothing == "none"

ASSUME CallsAssumption == IsFiniteSet(Calls)
ASSUME TextsAssumption == Nothing \notin Texts
ASSUME BoundsAssumption == /\ MaxOpenings \in Nat /\ MaxSends \in Nat
                           /\ MaxLoads \in Nat /\ MaxOthers \in Nat

NoForm == [session |-> 0, open |-> FALSE, on |-> 0, base |-> 0, text |-> Nothing]
NoRef == [text |-> Nothing, key |-> 0]
NoWish == [text |-> Nothing, intent |-> 0]
NoReply == [id |-> 0, version |-> 0]
NoCall == [step |-> "idle", live |-> FALSE, row |-> FALSE, on |-> 0, base |-> 0,
           drawn |-> 0, text |-> Nothing, key |-> 0, intent |-> 0, reply |-> NoReply,
           for |-> Nothing, rows |-> <<>>]

At(s) == screen = s
IsNew(c) == calls[c].on = 0
Listed == [i \in 1..Len(table) |-> [id |-> i, version |-> table[i].version]]
Ids == {shown.rows[k].id : k \in 1..Len(shown.rows)}
ShownVersion(i) == LET k == CHOOSE k \in 1..Len(shown.rows) : shown.rows[k].id = i
                   IN shown.rows[k].version

ScreenInit ==
  /\ screen \in Visited
  /\ form = NoForm /\ ref = NoRef /\ wish = NoWish
  /\ saving = FALSE /\ busy = FALSE
  /\ calls = [c \in Calls |-> NoCall]
  /\ table = <<[key |-> 0, text |-> Nothing, version |-> 1, intent |-> 0]>>
  /\ filter \in Filters
  /\ shown = [for |-> filter, rows |-> <<>>, ready |-> FALSE]
  /\ loads = {[n |-> 1, for |-> filter, step |-> "asked", rows |-> <<>>]}
  /\ told = {}
  /\ sends = 0 /\ asked = 1 /\ others = 0

-----------------------------------------------------------------------------
(* Reading the list.  An effect aborts the read of the run before it.      *)

\* Mutant: the clean-up of an effect aborts nothing.
NothingAborted == loads
Superseded == {}

Fetch(kept, f) ==
  /\ asked < MaxLoads
  /\ asked' = asked + 1
  /\ loads' = kept \cup {[n |-> asked + 1, for |-> f, step |-> "asked", rows |-> <<>>]}

LoadServed(l) ==
  /\ l.step = "asked"
  /\ loads' = (loads \ {l}) \cup {[l EXCEPT !.step = "read", !.rows = Listed]}
  /\ UNCHANGED <<screen, form, ref, wish, saving, busy, calls, table, shown, filter, told,
                 sends, asked, others>>

\* The contracts of a customer are not replaced while one of them is edited or created.
InteractionIdle == At("contracts") => ~form.open

\* A customer that is read again replaces what was typed about it, with its version.
DraftReplaced(l) ==
  \E t \in Texts : form' = [form EXCEPT !.base = l.rows[form.on].version, !.text = t]

LoadAnswers(l) ==
  /\ l.step = "read"
  /\ loads' = loads \ {l}
  /\ IF InteractionIdle
     THEN /\ shown' = [for |-> l.for, rows |-> l.rows, ready |-> TRUE]
          /\ IF At("profile") /\ form.open THEN DraftReplaced(l) ELSE UNCHANGED form
     ELSE UNCHANGED <<shown, form>>
  /\ UNCHANGED <<screen, ref, wish, saving, busy, calls, table, filter, told, sends, asked,
                 others>>

\* These leave what they have where it is, under a message.
KeepsRows == screen \in {"finance", "contracts", "projectfinance"}

LoadFails(l) ==
  /\ loads' = loads \ {l}
  /\ shown' = [shown EXCEPT !.rows = IF KeepsRows THEN @ ELSE <<>>, !.ready = FALSE]
  /\ UNCHANGED <<screen, form, ref, wish, saving, busy, calls, table, filter, told, sends,
                 asked, others>>

\* "Try again", and the list after a record was archived, restored or reversed.
ReadAgain(kept) ==
  /\ Fetch(kept, filter)
  /\ UNCHANGED <<screen, form, ref, wish, saving, busy, calls, table, shown, filter, told,
                 sends, others>>
Reload(s) == At(s) /\ ReadAgain(Superseded)

LoadExpenses == Reload("expenses")
LoadCards == Reload("cards")
LoadInstallments == Reload("payments")
LoadReceivables == Reload("finance")
LoadAccounts == At("accounts") /\ ReadAgain(loads)
LoadTaxes == Reload("tax")
LoadPartnership == Reload("partnership")
LoadDay == Reload("plan") /\ ~shown.ready
LoadProjects == Reload("projects")
LoadContracts == Reload("contracts") /\ ~form.open
LoadTasks == Reload("tasks")
LoadCustomers == Reload("customers")
LoadProfile == Reload("profile")
LoadMonthPlan == Reload("monthplan") /\ ~form.open
LoadCashFlow == Reload("cashflow")
LoadSettings == Reload("settings") /\ ~form.open

ChooseFilter(f, rows) ==
  /\ f # filter
  /\ filter' = f
  /\ Fetch(Superseded, f)
  /\ shown' = [shown EXCEPT !.rows = rows, !.ready = FALSE]
  /\ UNCHANGED <<screen, ref, wish, saving, busy, calls, table, told, sends, others>>

FormClosed == form' = [form EXCEPT !.open = FALSE]

\* The screens that choose what they list on the server.
ChooseMonth(f) == At("payments") /\ ChooseFilter(f, <<>>) /\ FormClosed
ChooseTaxPeriod(f) == At("tax") /\ ChooseFilter(f, <<>>) /\ FormClosed
ChooseProject(f) == At("finance") /\ ChooseFilter(f, shown.rows) /\ UNCHANGED form
ChooseReport(f) == At("cashflow") /\ ChooseFilter(f, <<>>) /\ UNCHANGED form

\* A form on a visit goes with the visits of the day.  What it has sent is aborted just
\* before: that is Lost.
ChooseDay(f) ==
  screen \in {"plan", "visittasks"} /\ ~saving /\ ChooseFilter(f, <<>>) /\ FormClosed

\* The report of the month before stays, under its own month, until the other one comes.
ChooseReportMonth(f) ==
  At("projectfinance") /\ ChooseFilter(f, shown.rows) /\ UNCHANGED form

\* A report is shown only under the query it was asked with.
ChooseTaskReport(f) == At("taskreport") /\ ChooseFilter(f, <<>>) /\ UNCHANGED form

-----------------------------------------------------------------------------
(* The form.                                                               *)

\* An operation is tried until the form is opened again, on the finance screen until it is
\* settled (pendingWrite).  nextRef: the operation key after opening.
Opening(on, nextRef, nextSaving) ==
  /\ form.session < MaxOpenings
  /\ on \in Ids \cup {0}
  /\ \E t \in Texts :
       form' = [session |-> form.session + 1, open |-> TRUE, on |-> on,
                base |-> IF on = 0 THEN 0 ELSE ShownVersion(on), text |-> t]
  /\ ref' = nextRef
  /\ wish' = IF At("finance") THEN wish ELSE NoWish
  /\ saving' = nextSaving
  /\ UNCHANGED <<screen, busy, calls, table, shown, filter, told, sends, asked, others>>

Untouched == UNCHANGED loads

\* An expense, or the plan of a recurring one: they share one editor.
OpenExpense(on) == At("expenses") /\ Opening(on, NoRef, saving) /\ Untouched
OpenCard(on) == At("cards") /\ Opening(on, NoRef, saving) /\ Untouched
\* A payment is for one of the instalments on the screen, here the first record.
OpenPayment == At("payments") /\ 1 \in Ids /\ Opening(0, NoRef, saving) /\ Untouched
OpenAccount(on) == At("accounts") /\ Opening(on, NoRef, saving) /\ Untouched
OpenTax(on) == At("tax") /\ Opening(on, NoRef, saving) /\ Untouched
OpenCategory == At("categories") /\ Opening(0, NoRef, saving) /\ Untouched
OpenMovement == At("movements") /\ Opening(0, NoRef, saving) /\ Untouched
OpenReceipt == At("receipts") /\ Opening(0, NoRef, saving) /\ Untouched
OpenUser == At("users") /\ ~saving /\ Opening(0, NoRef, FALSE) /\ Untouched

\* A new commission or contribution gets a new key; an edit leaves the key where it is.
OpenPartnership(on) ==
  At("partnership") /\ Opening(on, IF on = 0 THEN NoRef ELSE ref, saving) /\ Untouched

\* Work that was done on a visit, here the first record.  Each item has a key: one that
\* takes the place of another is opened again.
OpenVisitTasks ==
  At("visittasks") /\ ~saving /\ 1 \in Ids /\ Opening(0, NoRef, FALSE) /\ Untouched
OpenProject(on) == At("projects") /\ ~saving /\ Opening(on, NoRef, saving) /\ Untouched

\* The record itself, its status, or its access is the form.
OpenVisit(on) ==
  At("plan") /\ ~saving /\ ~form.open /\ on # 0 /\ Opening(on, NoRef, FALSE) /\ Untouched
OpenLifecycle(on) ==
  /\ screen \in {"lifecycle", "reversals"} /\ ~saving /\ on # 0
  /\ Opening(on, NoRef, FALSE) /\ Untouched
OpenUserAccess(on) ==
  At("useraccess") /\ ~saving /\ on # 0 /\ Opening(on, NoRef, FALSE) /\ Untouched
OpenProfile(on) == At("profile") /\ ~saving /\ on # 0 /\ Opening(on, NoRef, FALSE) /\ Untouched
OpenMonthPlan(on) == At("monthplan") /\ ~saving /\ on # 0 /\ Opening(on, NoRef, FALSE) /\ Untouched
OpenSettings(on) == At("settings") /\ ~saving /\ on # 0 /\ Opening(on, NoRef, FALSE) /\ Untouched

\* These forget that a request is under way; the finance screen keeps its key.
OpenTask(on) == At("tasks") /\ Opening(on, NoRef, FALSE) /\ Untouched
OpenFinance == At("finance") /\ Opening(0, ref, FALSE) /\ Untouched
OpenCustomer == At("customers") /\ ~form.open /\ Opening(0, NoRef, FALSE) /\ Untouched

\* Creating or editing a contract makes the list that is being read stale.
\* Mutant: the generation stays as it is.
SameGeneration == loads
NextGeneration == {}

OpenContract(on) ==
  /\ At("contracts") /\ ~saving /\ ~form.open
  /\ Opening(on, NoRef, FALSE)
  /\ loads' = NextGeneration

\* Fields can be changed while the form is being sent.
Fill(s) ==
  /\ At(s) /\ form.open
  /\ \E t \in Texts \ {form.text} : form' = [form EXCEPT !.text = t]
  /\ UNCHANGED <<screen, ref, wish, saving, busy, calls, table, shown, filter, loads, told,
                 sends, asked, others>>

FillExpense == Fill("expenses")
FillCategory == Fill("categories")
FillCard == Fill("cards")
FillPayment == Fill("payments")
FillFinance == Fill("finance")
FillAccount == Fill("accounts")
FillMovement == Fill("movements")
FillTax == Fill("tax")
FillPartnership == Fill("partnership")
FillReceipt == Fill("receipts")
FillVisit == Fill("plan")
FillProject == Fill("projects")
FillContract == Fill("contracts")
FillTask == Fill("tasks")
FillCustomer == Fill("customers")
FillProfile == Fill("profile")
FillMonthPlan == Fill("monthplan")
FillUser == Fill("users")
FillUserAccess == Fill("useraccess")
FillSettings == Fill("settings")
FillReason == ~saving /\ (Fill("lifecycle") \/ Fill("reversals"))
FillVisitTasks == ~saving /\ Fill("visittasks")

Close(anytime) ==
  /\ form.open
  /\ ~saving \/ anytime
  /\ form' = [form EXCEPT !.open = FALSE]
  /\ UNCHANGED <<screen, ref, wish, saving, busy, calls, table, shown, filter, loads, told,
                 sends, asked, others>>

CloseForm == Close(screen \in {"finance", "customers", "categories"})

-----------------------------------------------------------------------------
(* Sending a form.                                                         *)

\* A creation keeps its key for as long as its body is the same.
KeyOfBody == IF ref.text = form.text THEN ref ELSE [text |-> form.text, key |-> sends + 1]

\* A creation keeps its key until the form is opened again.
KeyOfOpening == IF ref.key # 0 THEN ref ELSE [text |-> form.text, key |-> sends + 1]

Request(row, on, base, drawn, text, key, intent) ==
  \E c \in Calls :
    /\ calls[c].step = "idle"
    /\ calls' = [calls EXCEPT ![c] =
                  [step |-> "sent", live |-> TRUE, row |-> row, on |-> on, base |-> base,
                   drawn |-> drawn, text |-> text, key |-> key, intent |-> intent,
                   reply |-> NoReply, for |-> filter, rows |-> <<>>]]

\* The same text that was sent before, and failed as far as the screen says, is the same
\* wish.
Retried == wish.text = form.text /\ \A c \in Calls : calls[c].live => calls[c].intent # wish.intent

Send(keyed, base) ==
  LET new == form.on = 0
      now == IF new /\ ~Retried THEN [text |-> form.text, intent |-> sends + 1] ELSE wish
  IN /\ form.open /\ ~saving
     /\ sends < MaxSends
     /\ Request(FALSE, form.on, base, form.base, form.text, IF new THEN keyed.key ELSE 0,
                IF new THEN now.intent ELSE 0)
     /\ ref' = IF new THEN keyed ELSE ref
     /\ wish' = now
     /\ saving' = TRUE
     /\ sends' = sends + 1
     /\ UNCHANGED <<screen, form, busy, table, shown, filter, loads, told, asked, others>>

\* Mutant: the version of an edit is taken from the list when it is sent.
BaseWhenSent == IF form.on \in Ids THEN ShownVersion(form.on) ELSE form.base
BaseOfDraft == form.base

SubmitExpense == At("expenses") /\ Send(KeyOfBody, BaseOfDraft)
SubmitCategory == At("categories") /\ Send(KeyOfBody, 0)
SubmitCard == At("cards") /\ Send(KeyOfBody, BaseOfDraft)
SubmitFinance == At("finance") /\ Send(KeyOfBody, 0)
SubmitAccount == At("accounts") /\ Send(KeyOfBody, BaseOfDraft)
SubmitMovement == At("movements") /\ Send(KeyOfBody, 0)
SubmitTax == At("tax") /\ Send(KeyOfBody, BaseOfDraft)
SubmitPartnership == At("partnership") /\ Send(KeyOfOpening, BaseOfDraft)
SubmitReceipt == At("receipts") /\ Send(KeyOfOpening, 0)
SubmitVisitTasks == At("visittasks") /\ Send(KeyOfOpening, 0)

\* With the version the instalment has in the list.
SubmitPayment == At("payments") /\ 1 \in Ids /\ Send(KeyOfOpening, ShownVersion(1))

\* No key; a short code, or the days of a contract, is unique by nature.
SubmitProject == At("projects") /\ Send(NoRef, IF form.on \in Ids THEN ShownVersion(form.on) ELSE form.base)
SubmitContract == At("contracts") /\ Send(NoRef, BaseOfDraft)

SubmitUser == At("users") /\ Send(NoRef, 0)

\* Records that are only changed; settings, visits, the plan of a month and the access of a
\* user have no version.
SubmitProfile == At("profile") /\ Send(NoRef, BaseOfDraft)
SubmitMonthPlan == At("monthplan") /\ Send(NoRef, 0)
SubmitSettings == At("settings") /\ Send(NoRef, 0)
SubmitVisit == At("plan") /\ Send(NoRef, 0)
SubmitUserAccess == At("useraccess") /\ Send(NoRef, 0)

\* Archiving, restoring or voiding, each once for a version of the record; a collection or
\* a movement is reversed once and is not changed otherwise.
SubmitLifecycle ==
  \/ At("lifecycle") /\ Send(NoRef, BaseOfDraft)
  \/ At("reversals") /\ Send(NoRef, 0)

\* No key, and nothing that is unique: each customer gets a random short code.
SubmitTask == At("tasks") /\ Send(NoRef, BaseOfDraft)
SubmitCustomer == At("customers") /\ Send(NoRef, 0)

\* A button of a row, with the version of the row.
RowAction(i) ==
  /\ ~busy /\ i \in Ids
  /\ sends < MaxSends
  /\ Request(TRUE, i, ShownVersion(i), ShownVersion(i), Nothing, 0, 0)
  /\ busy' = TRUE
  /\ sends' = sends + 1
  /\ UNCHANGED <<screen, form, ref, wish, saving, table, shown, filter, loads, told, asked,
                 others>>

ChangePlanStatus(i) == At("expenses") /\ RowAction(i)
InactivateCard(i) == At("cards") /\ RowAction(i)
MarkTaxPaid(i) == At("tax") /\ RowAction(i)
ChangeTaskStatus(i) == At("tasks") /\ RowAction(i)

-----------------------------------------------------------------------------
(* The server and the network.                                             *)

UniqueByNature == screen \in {"projects", "contracts", "tax", "users", "categories"}
Unversioned == screen \in {"useraccess", "monthplan", "settings", "plan", "visittasks"}

\* A payment changes its instalment; work on a visit is sent with the note that the list
\* has of the visit, which replaces the visit's.
OnRecord == screen \in {"payments", "visittasks"}
Touched == [table EXCEPT ![1].version = @ + 1]
OfRecord == [id |-> 1, version |-> table[1].version + 1]

Replies(c, reply) ==
  calls' = [calls EXCEPT ![c] = IF calls[c].live THEN [@ EXCEPT !.step = "done", !.reply = reply]
                                ELSE NoCall]

\* The answer to a creation whose key is known is the record, or a conflict if it is not
\* for the same text.
ServeReplay(c) ==
  /\ calls[c].step = "sent" /\ IsNew(c) /\ calls[c].key # 0 /\ ~At("visittasks")
  /\ \E i \in 1..Len(table) :
       /\ table[i].key = calls[c].key
       /\ Replies(c, IF table[i].text = calls[c].text THEN Listed[IF OnRecord THEN 1 ELSE i]
                     ELSE NoReply)
  /\ UNCHANGED table

\* Work on a visit that is there already is left as it is, whatever its title is now.
SkipKnownWork(c) ==
  /\ calls[c].step = "sent" /\ calls[c].key # 0 /\ At("visittasks")
  /\ \E i \in 1..Len(table) : table[i].key = calls[c].key
  /\ Replies(c, OfRecord)
  /\ table' = Touched

Unacceptable(c) ==
  \/ UniqueByNature /\ \E i \in 1..Len(table) : table[i].text = calls[c].text
  \/ At("payments") /\ table[1].version # calls[c].base

ServeCreate(c) ==
  /\ calls[c].step = "sent" /\ IsNew(c)
  /\ calls[c].key = 0 \/ \A i \in 1..Len(table) : table[i].key # calls[c].key
  /\ IF Unacceptable(c)
     THEN Replies(c, NoReply) /\ UNCHANGED table
     ELSE /\ table' = Append(IF OnRecord THEN Touched ELSE table,
                             [key |-> calls[c].key, text |-> calls[c].text,
                              version |-> 1, intent |-> calls[c].intent])
          /\ Replies(c, IF OnRecord THEN OfRecord ELSE [id |-> Len(table) + 1, version |-> 1])

\* The version a request has to meet: a record that is to be reversed is as it was made.
Expected(c) == IF At("reversals") THEN 1 ELSE calls[c].base

ServeEdit(c) ==
  LET i == calls[c].on IN
  /\ calls[c].step = "sent" /\ ~IsNew(c)
  /\ IF table[i].version = Expected(c) \/ Unversioned
     THEN /\ table' = [table EXCEPT ![i].version = @ + 1]
          /\ Replies(c, [id |-> i, version |-> table[i].version + 1])
     ELSE Replies(c, NoReply) /\ UNCHANGED table

Serve(c) ==
  /\ ServeReplay(c) \/ SkipKnownWork(c) \/ ServeCreate(c) \/ ServeEdit(c)
  /\ UNCHANGED <<screen, form, ref, wish, saving, busy, shown, filter, loads, told, sends,
                 asked, others>>

OtherEdit(i) ==
  /\ others < MaxOthers
  /\ others' = others + 1
  /\ table' = [table EXCEPT ![i].version = @ + 1]
  /\ UNCHANGED <<screen, form, ref, wish, saving, busy, calls, shown, filter, loads, told,
                 sends, asked>>

\* What each request locked is free again.
Unlocked(c) == IF calls[c].row THEN busy' = FALSE /\ UNCHANGED saving
               ELSE saving' = FALSE /\ UNCHANGED busy

\* The catch of a submission: no answer, or none in time; the server may do it yet.
Lost(c) ==
  /\ calls[c].live /\ calls[c].step \in {"sent", "done"}
  /\ calls' = [calls EXCEPT ![c] = IF @.step = "sent" THEN [@ EXCEPT !.live = FALSE] ELSE NoCall]
  /\ Unlocked(c)
  /\ UNCHANGED <<screen, form, ref, wish, table, shown, filter, loads, told, sends, asked,
                 others>>

NeverArrives(c) ==
  /\ calls[c].step = "sent" /\ ~calls[c].live
  /\ calls' = [calls EXCEPT ![c] = NoCall]
  /\ UNCHANGED <<screen, form, ref, wish, saving, busy, table, shown, filter, loads, told,
                 sends, asked, others>>

\* A payment of several instalments drops its draft on a conflict, that of one keeps it.
Refused(c) ==
  /\ calls[c].step = "done" /\ calls[c].reply = NoReply
  /\ calls' = [calls EXCEPT ![c] = NoCall]
  /\ Unlocked(c)
  /\ UNCHANGED form \/ (At("payments") /\ FormClosed)
  /\ UNCHANGED <<screen, ref, wish, table, shown, filter, loads, told, sends, asked,
                 others>>

-----------------------------------------------------------------------------
(* The answers.  Each closes whatever form is open by then.                *)

InPlace(reply) == [k \in 1..Len(shown.rows) |->
                    IF shown.rows[k].id = reply.id THEN reply ELSE shown.rows[k]]
NewFirst(c) == IF IsNew(c) THEN <<calls[c].reply>> \o shown.rows ELSE InPlace(calls[c].reply)
NewLast(c) == IF IsNew(c) THEN Append(shown.rows, calls[c].reply) ELSE InPlace(calls[c].reply)

\* The rows that the answer is not about, in their order.
Others(reply) ==
  LET kept[n \in 0..Len(shown.rows)] ==
        IF n = 0 THEN <<>>
        ELSE IF shown.rows[n].id = reply.id THEN kept[n - 1]
        ELSE Append(kept[n - 1], shown.rows[n])
  IN kept[Len(shown.rows)]
Replaced(c) == Append(Others(calls[c].reply), calls[c].reply)

\* What is said to be saved is followed on the screens that order their reads.
TellsWhatItShows == screen \in {"tax", "contracts"}

FormDone(c) ==
  /\ form' = [form EXCEPT !.open = FALSE]
  /\ ref' = NoRef
  /\ wish' = IF wish.text = calls[c].text THEN NoWish ELSE wish
  /\ saving' = FALSE
  /\ calls' = [calls EXCEPT ![c] = NoCall]
  /\ told' = told \cup IF TellsWhatItShows THEN {calls[c].reply} ELSE {}

Saved(c, rows) ==
  /\ calls[c].step = "done" /\ calls[c].reply # NoReply /\ ~calls[c].row
  /\ FormDone(c)
  /\ shown' = [shown EXCEPT !.rows = rows]
  /\ UNCHANGED <<screen, busy, table, filter, sends, others>>

ExpenseSaved(c) == At("expenses") /\ Saved(c, NewFirst(c)) /\ UNCHANGED <<loads, asked>>
CategorySaved(c) ==
  /\ At("categories")
  /\ Saved(c, IF calls[c].reply.id \in Ids THEN shown.rows ELSE NewLast(c))
  /\ UNCHANGED <<loads, asked>>
ReceiptSaved(c) == At("receipts") /\ Saved(c, Replaced(c)) /\ UNCHANGED <<loads, asked>>
UserSaved(c) == At("users") /\ Saved(c, NewLast(c)) /\ UNCHANGED <<loads, asked>>
ProfileSaved(c) == At("profile") /\ Saved(c, InPlace(calls[c].reply)) /\ UNCHANGED <<loads, asked>>
MonthPlanSaved(c) == At("monthplan") /\ Saved(c, InPlace(calls[c].reply)) /\ UNCHANGED <<loads, asked>>
UserAccessSaved(c) == At("useraccess") /\ Saved(c, InPlace(calls[c].reply)) /\ UNCHANGED <<loads, asked>>
SettingsSaved(c) == At("settings") /\ Saved(c, InPlace(calls[c].reply)) /\ UNCHANGED <<loads, asked>>
CardSaved(c) == At("cards") /\ Saved(c, NewLast(c)) /\ UNCHANGED <<loads, asked>>
PaymentSaved(c) == At("payments") /\ Saved(c, InPlace(calls[c].reply)) /\ UNCHANGED <<loads, asked>>
PartnershipSaved(c) == At("partnership") /\ Saved(c, NewFirst(c)) /\ UNCHANGED <<loads, asked>>
ProjectSaved(c) == At("projects") /\ Saved(c, NewLast(c)) /\ UNCHANGED <<loads, asked>>
TaskSaved(c) == At("tasks") /\ Saved(c, Replaced(c)) /\ UNCHANGED <<loads, asked>>
CustomerSaved(c) == At("customers") /\ Saved(c, NewLast(c)) /\ UNCHANGED <<loads, asked>>
ContractSaved(c) ==
  At("contracts") /\ Saved(c, Replaced(c)) /\ loads' = NextGeneration /\ UNCHANGED asked

\* These read the list again, in an effect.
TaxSaved(c) == At("tax") /\ Saved(c, shown.rows) /\ Fetch(Superseded, filter)
LifecycleSaved(c) ==
  screen \in {"lifecycle", "reversals"} /\ Saved(c, shown.rows) /\ Fetch(Superseded, filter)

\* The visits are out of sight until they are read again.
VisitSaved(c) ==
  screen \in {"plan", "visittasks"} /\ Saved(c, <<>>) /\ Fetch(Superseded, filter)

\* These read it again before they are done, for the filter of the submission.
ReadsAgain(c) ==
  /\ screen \in {"finance", "accounts", "movements"}
  /\ calls[c].step = "done" /\ calls[c].reply # NoReply
  /\ calls' = [calls EXCEPT ![c].step = "reread", ![c].rows = Listed]
  /\ UNCHANGED <<screen, form, ref, wish, saving, busy, table, shown, filter, loads, told,
                 sends, asked, others>>

ListRead(c) ==
  /\ calls[c].step = "reread"
  /\ FormDone(c)
  /\ shown' = [for |-> calls[c].for, rows |-> calls[c].rows, ready |-> TRUE]
  /\ UNCHANGED <<screen, busy, table, filter, loads, sends, asked, others>>

\* The record is saved, the list is not: the form and its key stay.
\* Mutant: the key goes with the answer.
KeyDropped == NoRef
KeyAfterListUnread == ref

ListUnread(c) ==
  /\ calls[c].step = "reread"
  /\ calls' = [calls EXCEPT ![c] = NoCall]
  /\ saving' = FALSE
  /\ ref' = KeyAfterListUnread
  /\ UNCHANGED <<screen, form, wish, busy, table, shown, filter, loads, told, sends, asked,
                 others>>

RowSaved(c) ==
  /\ calls[c].step = "done" /\ calls[c].reply # NoReply /\ calls[c].row
  /\ calls' = [calls EXCEPT ![c] = NoCall]
  /\ busy' = FALSE
  /\ told' = told \cup IF TellsWhatItShows THEN {calls[c].reply} ELSE {}
  /\ IF At("tax") THEN Fetch(Superseded, filter) /\ UNCHANGED shown
     ELSE /\ shown' = [shown EXCEPT !.rows = InPlace(calls[c].reply)]
          /\ UNCHANGED <<loads, asked>>
  /\ UNCHANGED <<screen, form, ref, wish, saving, table, filter, sends, others>>

-----------------------------------------------------------------------------
Open ==
  \/ \E on \in Ids \cup {0} :
       \/ OpenExpense(on) \/ OpenCard(on) \/ OpenAccount(on) \/ OpenTax(on)
       \/ OpenPartnership(on) \/ OpenProject(on) \/ OpenTask(on) \/ OpenContract(on)
       \/ OpenVisit(on) \/ OpenUserAccess(on) \/ OpenLifecycle(on) \/ OpenProfile(on)
       \/ OpenMonthPlan(on) \/ OpenSettings(on)
  \/ OpenCategory \/ OpenMovement \/ OpenReceipt \/ OpenPayment \/ OpenVisitTasks
  \/ OpenFinance \/ OpenCustomer \/ OpenUser

Submit ==
  \/ SubmitExpense \/ SubmitCard \/ SubmitPayment \/ SubmitFinance \/ SubmitAccount
  \/ SubmitTax \/ SubmitPartnership \/ SubmitVisitTasks \/ SubmitProject \/ SubmitContract
  \/ SubmitTask \/ SubmitCustomer \/ SubmitVisit \/ SubmitCategory \/ SubmitMovement
  \/ SubmitReceipt \/ SubmitUser \/ SubmitProfile \/ SubmitMonthPlan \/ SubmitSettings
  \/ SubmitLifecycle \/ SubmitUserAccess

Load ==
  \/ LoadExpenses \/ LoadCards \/ LoadInstallments \/ LoadReceivables \/ LoadAccounts
  \/ LoadTaxes \/ LoadPartnership \/ LoadDay \/ LoadProjects \/ LoadContracts \/ LoadTasks
  \/ LoadCustomers \/ LoadProfile \/ LoadMonthPlan \/ LoadCashFlow \/ LoadSettings

Type ==
  \/ FillExpense \/ FillVisit \/ FillCategory \/ FillCard \/ FillPayment \/ FillFinance
  \/ FillAccount \/ FillMovement \/ FillTax \/ FillPartnership \/ FillReceipt
  \/ FillVisitTasks \/ FillProject \/ FillContract \/ FillTask \/ FillCustomer
  \/ FillProfile \/ FillMonthPlan \/ FillUser \/ FillSettings \/ FillReason
  \/ FillUserAccess

Act(i) ==
  ChangePlanStatus(i) \/ InactivateCard(i) \/ MarkTaxPaid(i) \/ ChangeTaskStatus(i)

Choose(f) ==
  \/ ChooseMonth(f) \/ ChooseTaxPeriod(f) \/ ChooseProject(f) \/ ChooseDay(f)
  \/ ChooseReport(f) \/ ChooseReportMonth(f) \/ ChooseTaskReport(f)

Answered(c) ==
  \/ ExpenseSaved(c) \/ CardSaved(c) \/ PaymentSaved(c) \/ PartnershipSaved(c)
  \/ ProjectSaved(c) \/ TaskSaved(c) \/ CustomerSaved(c) \/ ContractSaved(c)
  \/ TaxSaved(c) \/ VisitSaved(c) \/ UserAccessSaved(c) \/ CategorySaved(c)
  \/ ReceiptSaved(c) \/ UserSaved(c) \/ ProfileSaved(c) \/ MonthPlanSaved(c)
  \/ SettingsSaved(c) \/ LifecycleSaved(c)
  \/ ReadsAgain(c) \/ ListRead(c) \/ ListUnread(c) \/ RowSaved(c) \/ Refused(c)

ScreenNext ==
  \/ Open \/ Type \/ CloseForm \/ Submit \/ Load
  \/ \E i \in Ids : Act(i)
  \/ \E f \in Filters : Choose(f)
  \/ \E l \in loads : LoadServed(l) \/ LoadAnswers(l) \/ LoadFails(l)
  \/ \E c \in Calls : Serve(c) \/ Lost(c) \/ NeverArrives(c) \/ Answered(c)
  \/ \E i \in 1..Len(table) : OtherEdit(i)

ScreenSpec == ScreenInit /\ [][ScreenNext]_screenVars

-----------------------------------------------------------------------------
(* Properties.                                                             *)

\* Type invariant.  The list may be older than the records, never newer, and nothing is
\* locked unless the request that locked it is under way.
ScreenTypeOK ==
  /\ screen \in Visited /\ filter \in Filters
  /\ form.session \in 0..MaxOpenings /\ form.on \in 0..Len(table)
  /\ form.open => form.text \in Texts
  /\ ref.key \in 0..sends /\ wish.intent \in 0..sends
  /\ saving => \E c \in Calls : calls[c].live /\ ~calls[c].row
  /\ busy => \E c \in Calls : calls[c].live /\ calls[c].row
  /\ \A c \in Calls : /\ calls[c].step \in {"idle", "sent", "done", "reread"}
                       /\ calls[c].drawn \in 0..MaxSends + MaxOthers + 1
  /\ \A k \in 1..Len(shown.rows) :
       /\ shown.rows[k].id \in 1..Len(table)
       /\ shown.rows[k].version \in 1..table[shown.rows[k].id].version

Copies(intent) == {i \in 1..Len(table) : intent # 0 /\ table[i].intent = intent}
CreatesOnce == \A n \in 1..sends : Cardinality(Copies(n)) <= 1

\* A user who is told of a failure and sends the same form again creates one record, also
\* when the first request was done without an answer, is done late, or was done and the
\* list could not be read.  Where the screen has a key, or the record something unique.
RetriesCreateOnce == screen \notin {"finance", "tasks", "customers"} => CreatesOnce

\* The finance screen, too, means a retry to be the same operation: it keeps the key of a
\* failed collection when its form is closed (pendingWrite).
CollectionsRetriedOnce == screen = "finance" => CreatesOnce

\* An edit, an action on a row or a reversal changes the record only as it was when the
\* draft or the row was taken from the list: what another user saved meanwhile is never
\* overwritten unseen.  Said of the screens whose requests carry the version of their
\* draft.  It is not so, and not said, of a visit, the plan of a month, the access of a user
\* and the settings, which have no version (Unversioned), nor of a project and a payment,
\* which are sent with the version the list has by then.
NothingOverwrittenUnseen ==
  [][~Unversioned /\ screen \notin {"projects", "payments"} =>
       \A c \in Calls : \A i \in 1..Len(table) :
          (/\ calls[c].step = "sent" /\ calls'[c] # calls[c]
           /\ table'[i] # table[i])
             => calls[c].on = i /\ calls[c].drawn = table[i].version]_screenVars

\* No record is on the screen twice, whatever came first: the answer to its creation or a
\* list that has it.  Where records are replaced by their id or the list is read again.
ShownOnce ==
  screen \in {"categories", "tasks", "contracts", "tax", "accounts", "movements", "finance",
             "visittasks", "receipts", "lifecycle"} =>
    \A j, k \in 1..Len(shown.rows) : shown.rows[j].id = shown.rows[k].id => j = k

\* A list that is on the screen is the one for the month, period, day or query that is
\* chosen, however late the others come.  (Finance reads once more after a write.)
ShownForFilter == screen # "finance" => (shown.ready => shown.for = filter)

\* What was said to be saved is on the screen, in that version or a later one, once no
\* list is being read: no list read before the save comes after it.
SavedStaysShown ==
  shown.ready /\ loads = {} =>
    \A t \in told : \E k \in 1..Len(shown.rows) :
      shown.rows[k].id = t.id /\ shown.rows[k].version >= t.version

\* What holds of drafts, requests and records in every state.
DraftsSound == ScreenTypeOK /\ RetriesCreateOnce

\* What holds of the list that is on the screen.
ListsSound == ShownOnce /\ ShownForFilter
=============================================================================
