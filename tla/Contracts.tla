------------------------------ MODULE Contracts ------------------------------
(***************************************************************************)
(* Consulting contracts, the visits promised under them, the work done on  *)
(* a visit, and the receivables a contract or an opening balance brings:   *)
(* src/features/contracts and finance/service.ts, on top of the customers, *)
(* projects and tasks they refer to.                                       *)
(*                                                                         *)
(* Every writer of a contract, its visits or its bills locks the contract, *)
(* and those that change its terms lock the customer first.  Customers and *)
(* projects look for contracts without a lock.  Days are numbers, months   *)
(* are MonthLength of them.  A receivable is collected in full or not at   *)
(* all here; FinanceLedger has the amounts.                                *)
(***************************************************************************)
EXTENDS Portfolio

CONSTANTS
  ContractIds,
  VisitIds,        \* 1..n
  Days,            \* 1..n
  MonthLength,
  OpeningKeys      \* operation keys of opening balances

ASSUME DaysAssumption ==
  VisitIds \subseteq Nat /\ Days \subseteq Nat \ {0} /\ MonthLength \in Nat \ {0}

VARIABLES
  contract,        \* consulting_contract
  visit,           \* monthly_visit_commitment
  bill,            \* receivable, by contract and month or by operation key
  item,            \* work_task_visit: the visit a task was done on
  ownWrites        \* what a transaction will have written to these

own == <<contract, visit, bill, item>>
contractVars == <<portfolioVars, own, ownWrites>>

Month(d) == (d - 1) \div MonthLength
Months == {Month(d) : d \in Days}
DaysOf(m) == {d \in Days : Month(d) = m}

NoContract == [status |-> "absent", archived |-> FALSE, customer |-> None,
               project |-> None, from |-> 0, to |-> 0]
NoVisit == [status |-> "absent", contract |-> None, day |-> 0, delivered |-> 0]
NoBill == [status |-> "absent", customer |-> None, project |-> None]
Bills == ContractIds \X Months \cup OpeningKeys

ASSUME IdsAssumption ==
  /\ None \notin ContractIds \cup VisitIds
  /\ \A k \in ContractIds, m \in Months : <<k, m>> \notin OpeningKeys

NoOwnWrites == [contract |-> <<>>, visit |-> <<>>, bill |-> <<>>, item |-> <<>>]

ContractsInit ==
  /\ Init
  /\ contract = [k \in ContractIds |-> NoContract]
  /\ visit = [v \in VisitIds |-> NoVisit]
  /\ bill = [b \in Bills |-> NoBill]
  /\ item = [t \in Tasks |-> None]
  /\ ownWrites = [w \in Workers |-> NoOwnWrites]

WriteOwn(w, change) == ownWrites' = [ownWrites EXCEPT ![w] = change] /\ UNCHANGED own

ContractLock(k) == {<<"contract", k>>}
VisitLocks(vs) == {<<"visit", v>> : v \in vs}
BillLock(b) == {<<"bill", b>>}
LinkLock(c, p) == {<<"link", c, p>>}

-----------------------------------------------------------------------------
(* Contracts.                                                              *)

Unclosed(k) == contract[k].status \in {"draft", "active"}
Terms == [status : {"draft", "active", "closed"}, archived : {FALSE}, customer : Customers,
          project : Projects, from : Days, to : Days]

\* findOverlappingContract: an unclosed contract of the same customer and project.
Overlap(k, l) ==
  /\ k.customer = l.customer /\ k.project = l.project
  /\ k.from <= l.to /\ l.from <= k.to
PeriodFree(terms, except) ==
  terms.status # "closed" =>
    ~\E l \in ContractIds \ except : Unclosed(l) /\ Overlap(contract[l], terms)

\* uq_consulting_contract_customer_project_start, closed contracts included.
StartFree(terms, except) ==
  ~\E l \in ContractIds \ except :
     /\ contract[l] # NoContract
     /\ contract[l].customer = terms.customer /\ contract[l].project = terms.project
     /\ contract[l].from = terms.from

VisitsOf(k) == {v \in VisitIds : visit[v].contract = k}
BillsOf(k) == {<<k, m>> : m \in Months}
Outstanding(b) == bill[b].status = "outstanding"

\* contractHasVisitOutsideRange.
VisitsInside(k, terms) == \A v \in VisitsOf(k) : visit[v].day \in terms.from..terms.to

\* Mutant: the customer is read without FOR UPDATE.
NoTermsLock(k, c) == ContractLock(k)
TermsLock(k, c) == CustomerLock(c) \cup ContractLock(k)

CreateCustomerContract(w, k, terms) ==
  LET c == terms.customer
      p == terms.project IN
  /\ contract[k] = NoContract /\ \A v \in Workers : k \notin DOMAIN ownWrites[v].contract
  /\ terms.from <= terms.to
  /\ customer[c].status = "active"
  /\ ActiveLink(c, p)
  /\ PeriodFree(terms, {}) /\ StartFree(terms, {})
  /\ Begin(w, TermsLock(k, c) \cup PairLocks(c, p), Nothing)
  /\ WriteOwn(w, [NoOwnWrites EXCEPT !.contract = RowAt(k, terms)])

UpdateCustomerContract(w, k, terms) ==
  LET before == contract[k]
      moved == terms.project # before.project
      reopened == before.status = "closed" /\ terms.status # "closed"
      c == terms.customer
      p == terms.project IN
  /\ Live(before)
  /\ c = before.customer
  /\ terms.from <= terms.to
  /\ moved \/ reopened => ActiveLink(c, p)
  /\ moved => \A b \in BillsOf(k) : bill[b] = NoBill
  /\ PeriodFree(terms, {k}) /\ StartFree(terms, {k})
  /\ VisitsInside(k, terms)
  /\ Begin(w, TermsLock(k, c) \cup IF moved \/ reopened THEN PairLocks(c, p) ELSE {}, Nothing)
  /\ WriteOwn(w, [NoOwnWrites EXCEPT !.contract = RowAt(k, terms)])

\* contractHasLifecycleDependencies, read without a lock.
Editable(v) == visit[v].status \in {"planned", "makeup"}
ContractInUse(k) ==
  (\E v \in VisitsOf(k) : Editable(v)) \/ \E b \in BillsOf(k) : Outstanding(b)

ChangeContractLifecycle(w, k, archive) ==
  LET row == contract[k] IN
  /\ IF archive THEN Live(row) /\ row.status = "closed" /\ ~ContractInUse(k)
     ELSE row.archived /\ ~customer[row.customer].archived /\ ~project[row.project].archived
  /\ Begin(w, TermsLock(k, row.customer)
              \cup IF archive THEN {} ELSE ProjectLocks({row.project}), Nothing)
  /\ WriteOwn(w, [NoOwnWrites EXCEPT !.contract = RowAt(k, [row EXCEPT !.archived = archive])])

-----------------------------------------------------------------------------
(* Visits.                                                                 *)

PlanLocks(k, vs) == ContractLock(k) \cup VisitLocks(vs)

FreeVisits == {v \in VisitIds : /\ visit[v] = NoVisit
                                /\ \A w \in Workers : v \notin DOMAIN ownWrites[w].visit}
FirstFree(n) == {v \in FreeVisits : Cardinality({u \in FreeVisits : u < v}) < n}

\* kept: the visits the request names, with the days it gives them; added: the days
\* of new ones.  What can still change and is not named is deleted, except a visit
\* that waits for its makeup.
MonthsVisits(k, m) == {v \in VisitsOf(k) : Month(visit[v].day) = m}
\* Mutant: only the visits that wait for their makeup are.
PreservedMakeup(k, m, kept) ==
  {v \in MonthsVisits(k, m) \ DOMAIN kept : visit[v].status = "makeup"}
Preserved(k, m, kept) ==
  {v \in MonthsVisits(k, m) \ DOMAIN kept : visit[v].status # "planned"}

Increasing(S, T) == {f \in [S -> T] : \A u, v \in S : u < v => f[u] < f[v]}

ReplaceMonthlyVisitPlan(w, k, m, kept, added) ==
  \E days \in Increasing(FirstFree(Cardinality(added)), added) :
  LET existing == MonthsVisits(k, m)
      preserved == Preserved(k, m, kept)
      Asked == added \cup {kept[v] : v \in DOMAIN kept}
      Fresh == FirstFree(Cardinality(added))
      after == [v \in existing \cup Fresh |->
                  IF v \in Fresh THEN [NoVisit EXCEPT !.status = "planned", !.contract = k,
                                                      !.day = days[v]]
                  ELSE IF v \in preserved THEN visit[v]
                  ELSE IF v \in DOMAIN kept THEN [visit[v] EXCEPT !.day = kept[v]]
                  ELSE NoVisit] IN
  /\ contract[k].status = "active"
  /\ \E d \in DaysOf(m) : d \in contract[k].from..contract[k].to
  /\ \A d \in Asked : Month(d) = m /\ d \in contract[k].from..contract[k].to
  /\ \A v \in DOMAIN kept : kept[v] \notin added
  /\ \A u, v \in DOMAIN kept : kept[u] = kept[v] => u = v
  /\ DOMAIN kept \subseteq existing
  /\ \A v \in DOMAIN kept : Editable(v) \/ kept[v] = visit[v].day
  /\ {visit[v].day : v \in preserved} \cap Asked = {}
  /\ Cardinality(Fresh) = Cardinality(added)
  /\ \E v \in DOMAIN after : after[v] # visit[v]
  /\ Begin(w, PlanLocks(k, existing), Nothing)
  /\ WriteOwn(w, [NoOwnWrites EXCEPT !.visit = after])

\* updateMonthlyVisitInTransaction.  A completed visit takes a new note and new
\* items with ids, and keeps its status and its day.
Resolution(v, status, delivered, noteOnly) ==
  /\ visit[v].status \notin {"absent", "cancelled"}
  /\ visit[v].status = "completed" =>
       noteOnly /\ status = "completed" /\ delivered = visit[v].delivered
  /\ ~(visit[v].status = "makeup" /\ status = "planned")
  /\ (status = "completed") = (delivered # 0)
  /\ delivered # 0 => Month(delivered) = Month(visit[v].day)

\* named: the ids of the work items that have one; unnamed: whether there is one
\* without, in the form of old clients.  An item that is linked already is skipped,
\* an id that belongs to another task is refused.
UpdateMonthlyVisitWithWorkItems(w, v, status, delivered, named, unnamed) ==
  LET k == visit[v].contract
      c == contract[k].customer
      p == contract[k].project
      missing == {t \in named : item[t] # v}
      created == missing \cup IF unnamed THEN {NewId} ELSE {}
      done == [NoTask EXCEPT !.status = "done", !.customer = c, !.project = p, !.visit = TRUE] IN
  /\ Resolution(v, status, delivered, ~unnamed)
  /\ contract[k].status = "active"
  /\ named # {} \/ unnamed => status = "completed"
  /\ missing \subseteq NewIds
  /\ unnamed => NewIds \ named # {} /\ NewId \notin named
  /\ created # {} => ReferencesHold(c, p)
  /\ Begin(w, PlanLocks(k, {v}) \cup (UNION {TaskLock(t) : t \in created})
              \cup IF created # {} THEN ReferenceLocks(c, p) ELSE {},
           [Nothing EXCEPT !.task = [t \in created |-> done]])
  /\ WriteOwn(w, [NoOwnWrites EXCEPT
                 !.visit = RowAt(v, [visit[v] EXCEPT !.status = status, !.delivered = delivered]),
                 !.item = [t \in created |-> v]])

-----------------------------------------------------------------------------
(* Receivables.                                                            *)

\* The foreign keys of a new receivable.
BillParents(c, p) == CustomerLock(c) \cup LinkLock(c, p)

\* Mutant: the contract is read before there is any lock.
NoBillingLocks(k) == {}
BillingLocks(k) == ContractLock(k) \cup BillParents(contract[k].customer, contract[k].project)

GenerateContractMonthReceivable(w, k, m) ==
  LET b == <<k, m>>
      row == contract[k] IN
  /\ row.status = "active"
  /\ \E d \in DaysOf(m) : d \in row.from..row.to
  /\ bill[b] = NoBill
  /\ Begin(w, BillingLocks(k) \cup BillLock(b), Nothing)
  /\ WriteOwn(w, [NoOwnWrites EXCEPT !.bill = RowAt(b, [status |-> "outstanding",
                                 customer |-> row.customer, project |-> row.project])])

CreateOpeningBalance(w, b, c, p) ==
  /\ Live(customer[c]) /\ customer[c].status = "active"
  /\ ActiveLink(c, p)
  /\ bill[b] = NoBill
  /\ Begin(w, CustomerLock(c) \cup PairLocks(c, p) \cup BillLock(b), Nothing)
  /\ WriteOwn(w, [NoOwnWrites EXCEPT !.bill = RowAt(b, [status |-> "outstanding",
                                 customer |-> c, project |-> p])])

ChangeBill(w, b, before, after) ==
  /\ bill[b].status = before
  /\ Begin(w, BillLock(b), Nothing)
  /\ WriteOwn(w, [NoOwnWrites EXCEPT !.bill = RowAt(b, [bill[b] EXCEPT !.status = after])])

CreateReceivableCollection(w, b) == ChangeBill(w, b, "outstanding", "settled")
ReverseReceivableCollection(w, b) == ChangeBill(w, b, "settled", "outstanding")
VoidReceivable(w, b) == ChangeBill(w, b, "outstanding", "voided")

-----------------------------------------------------------------------------
(* Requests.                                                               *)

\* What customerProjectLinkIsInUse, customerHasLifecycleDependencies and
\* projectHasLifecycleDependencies ask of the tables of this module, of a request
\* of Portfolio that has just decided to write.
Claimed(c, p) == \E k \in ContractIds : Unclosed(k) /\ contract[k].customer = c
                                        /\ contract[k].project = p
Owes(c) == \E b \in Bills : Outstanding(b) /\ bill[b].customer = c
OwedTo(p) == \E b \in Bills : Outstanding(b) /\ bill[b].project = p
NotClaimed(writes) ==
  /\ \A x \in DOMAIN writes.link :
       link[x] = "active" /\ writes.link[x] = "inactive" => ~Claimed(x[1], x[2])
  /\ \A c \in DOMAIN writes.customer :
       writes.customer[c].archived /\ ~customer[c].archived =>
         ~Owes(c) /\ \A p \in Projects : ~Claimed(c, p)
  /\ \A p \in DOMAIN writes.project :
       writes.project[p].archived /\ ~project[p].archived =>
         ~OwedTo(p) /\ \A c \in Customers : ~Claimed(c, p)

PortfolioApi(w) ==
  /\ Request(w)
  /\ NotClaimed(tx'[w].writes)
  /\ UNCHANGED <<own, ownWrites>>

\* Bounds on a behaviour: whether contracts have other terms than the first days and
\* other statuses than active, whether there are several and,
\* where tasks change, that only the first month is planned.
AskedTerms ==
  {t \in Terms : /\ "terms" \in asks \/ (t.status # "draft" /\ t.from = 1)
                 /\ "statuses" \in asks \/ t.status = "active"}
MayAddContract == "several" \in asks \/ \A k \in ContractIds : contract[k] = NoContract
MayPlan == "visits" \in asks
MayBill == "bills" \in asks
AskedMonths == IF "tasks" \in asks THEN {0} ELSE Months
Plans(k, m) == UNION {[vs -> DaysOf(m)] : vs \in SUBSET MonthsVisits(k, m)}

ContractsApi(w) ==
  /\ MayAddContract /\ ~tx[w].on
  /\ \E k \in ContractIds, terms \in AskedTerms : CreateCustomerContract(w, k, terms)

ContractApi(w) ==
  /\ ~tx[w].on
  /\ \E k \in ContractIds, terms \in AskedTerms : UpdateCustomerContract(w, k, terms)

ContractLifecycleApi(w) ==
  /\ "archive" \in asks
  /\ \E k \in ContractIds, archive \in BOOLEAN : ChangeContractLifecycle(w, k, archive)

MonthPlansApi(w) ==
  /\ MayPlan /\ ~tx[w].on
  /\ \E k \in ContractIds, m \in AskedMonths : \E kept \in Plans(k, m), added \in SUBSET DaysOf(m) :
       ReplaceMonthlyVisitPlan(w, k, m, kept, added)

VisitsApi(w) ==
  /\ MayPlan /\ ~tx[w].on
  /\ \E v \in VisitIds, status \in {"planned", "makeup", "completed", "cancelled"},
        delivered \in Days \cup {0}, named \in SUBSET Tasks, unnamed \in BOOLEAN :
       UpdateMonthlyVisitWithWorkItems(w, v, status, delivered, named, unnamed)

GenerateApi(w) ==
  /\ MayBill
  /\ \E k \in ContractIds, m \in Months : GenerateContractMonthReceivable(w, k, m)

OpeningBalanceApi(w) ==
  /\ MayBill
  /\ \E b \in OpeningKeys, c \in Customers, p \in Projects : CreateOpeningBalance(w, b, c, p)

CollectionsApi(w) ==
  /\ MayBill
  /\ \E b \in Bills : \/ CreateReceivableCollection(w, b)
                      \/ ReverseReceivableCollection(w, b)
                      \/ VoidReceivable(w, b)

ContractsCommit(w) ==
  /\ Commit(w)
  /\ contract' = Written(contract, ownWrites[w].contract)
  /\ visit' = Written(visit, ownWrites[w].visit)
  /\ bill' = Written(bill, ownWrites[w].bill)
  /\ item' = Written(item, ownWrites[w].item)
  /\ ownWrites' = [ownWrites EXCEPT ![w] = NoOwnWrites]

ContractsFail(w) == Fail(w) /\ WriteOwn(w, NoOwnWrites)

ContractsNext == \E w \in Workers :
  \/ PortfolioApi(w)
  \/ ContractsApi(w) \/ ContractApi(w) \/ ContractLifecycleApi(w)
  \/ MonthPlansApi(w) \/ VisitsApi(w)
  \/ GenerateApi(w) \/ OpeningBalanceApi(w) \/ CollectionsApi(w)
  \/ ContractsCommit(w) \/ ContractsFail(w)

ContractsSpec == ContractsInit /\ [][ContractsNext]_contractVars

-----------------------------------------------------------------------------
(* What contracts promise.                                                 *)

\* The rows are of their types, and no two contracts of a customer and a project
\* start on the same day.
ContractsTypeOK ==
  /\ PortfolioTypeOK
  /\ \A k \in ContractIds :
       contract[k] # NoContract =>
         [contract[k] EXCEPT !.archived = FALSE] \in Terms /\ contract[k].from <= contract[k].to
  /\ visit \in [VisitIds -> [status : {"absent", "planned", "makeup", "completed", "cancelled"},
                             contract : ContractIds \cup {None}, day : Days \cup {0},
                             delivered : Days \cup {0}]]
  /\ bill \in [Bills -> [status : {"absent", "outstanding", "settled", "voided"},
                         customer : Customers \cup {None}, project : Projects \cup {None}]]
  /\ item \in [Tasks -> VisitIds \cup {None}]
  /\ \A k \in ContractIds : contract[k] # NoContract => StartFree(contract[k], {k})

\* Contracts that are not closed do not overlap, and keep their link and their
\* project: neither goes away under them, whatever else is going on.
UnclosedContractsSound ==
  \A k \in ContractIds : Unclosed(k) =>
    /\ PeriodFree(contract[k], {k})
    /\ link[<<contract[k].customer, contract[k].project>>] = "active"
    /\ ~project[contract[k].project].archived

\* Every visit falls into the period of its contract, on a day of its own; under an
\* archived contract none is left to be made.
VisitsFit ==
  /\ \A v \in VisitIds : visit[v] # NoVisit =>
       LET k == contract[visit[v].contract] IN
       /\ visit[v].day \in k.from..k.to
       /\ k.archived => ~Editable(v)
       /\ (visit[v].status = "completed") = (visit[v].delivered # 0)
  /\ \A u, v \in VisitIds : u # v /\ visit[u] # NoVisit /\ visit[u].contract = visit[v].contract
                            => visit[u].day # visit[v].day

\* A visit that was made or cancelled stays as it is, and no plan that was read
\* before can delete or reopen it.
FinalVisitsKept ==
  [][\A v \in VisitIds : visit[v].status \in {"completed", "cancelled"} =>
       visit'[v] = visit[v]]_contractVars

\* A task that was done on a visit stays done, for the customer of the contract, and
\* the visit stays completed; a task belongs to one visit for good.
WorkDelivered ==
  \A t \in Tasks :
    /\ task[t].visit = (item[t] # None)
    /\ item[t] # None =>
         /\ task[t].status = "done"
         /\ visit[item[t]].status = "completed"
         /\ task[t].customer = contract[visit[item[t]].contract].customer

\* The receivable of a contract's month is for its customer and its project, and
\* these cannot change once there is one.
BilledAsContracted ==
  \A k \in ContractIds : \A b \in BillsOf(k) : bill[b] # NoBill =>
    bill[b].customer = contract[k].customer /\ bill[b].project = contract[k].project

\* What contracts, visits, links and projects say together in every state.
ContractsSound == ContractsTypeOK /\ UnclosedContractsSound /\ VisitsFit
=============================================================================
