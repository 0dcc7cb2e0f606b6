------------------------------ MODULE Portfolio ------------------------------
(***************************************************************************)
(* Customers, projects, the links between them, and the tasks that refer   *)
(* to them: src/features/customers, projects, tasks and lifecycle.         *)
(*                                                                         *)
(* An operation is one transaction under READ COMMITTED.  It locks rows    *)
(* (FOR UPDATE, and the parents of rows it inserts through their foreign   *)
(* keys), checks what it read, and writes; the others see its writes when  *)
(* it commits.  Begin stands for everything up to the last lock: from then *)
(* on the transaction waits for nobody, so that where its writes fall      *)
(* before Commit makes no difference.  What it decided on without a lock   *)
(* may have changed by then.  It may fail at any point and is rolled back. *)
(*                                                                         *)
(* Every row has a version, and every edit is refused unless the client    *)
(* sent the current one; so an accepted edit was made in view of the row   *)
(* as it is, and versions add nothing here.  Ids are random and new.  A    *)
(* status stands for those that are treated alike: "open" for backlog,     *)
(* todo, in_progress and blocked, "waiting" for planned and on_hold,       *)
(* "closed" for completed and cancelled.                                   *)
(***************************************************************************)
EXTENDS Integers, FiniteSets

CONSTANTS
  Workers,       \* concurrent requests
  Customers,
  Projects,
  Tasks,         \* the ids tasks may get: 1..n
  MaxLeft,       \* how often a task may recur before its series ends
  MaxRequested,  \* how many tasks requests may create, the generated ones apart
  Scenes,        \* the sets of request kinds that are sent in one behaviour
  None           \* SQL NULL

ASSUME TasksAssumption == Tasks \subseteq Nat /\ MaxLeft \in Nat /\ MaxRequested \in Nat
ASSUME NoneAssumption == None \notin Customers \cup Projects \cup Tasks

VARIABLES
  customer,      \* customer
  project,       \* project
  link,          \* customer_project: "absent", "active" or "inactive"
  task,          \* work_task with its work_task_project and work_task_visit
  tx,            \* the transaction of each worker
  asks           \* the kinds of requests sent in this behaviour

tables == <<customer, project, link, task>>
portfolioVars == <<customer, project, link, task, tx, asks>>

NoCustomer == [status |-> "absent", archived |-> FALSE]
NoProject == [status |-> "absent", archived |-> FALSE]
\* left: the occurrences that still fit before the series ends, 0 for a task
\* that does not recur; from: the task whose completion generated it.
NoTask == [status |-> "absent", archived |-> FALSE, customer |-> None,
           project |-> None, left |-> 0, visit |-> FALSE, from |-> None]

\* One row, and a table after rows of it were written.
RowAt(k, row) == [x \in {k} |-> row]
Written(table, rows) ==
  [x \in DOMAIN table |-> IF x \in DOMAIN rows THEN rows[x] ELSE table[x]]

Nothing == [customer |-> <<>>, project |-> <<>>, link |-> <<>>, task |-> <<>>]
CustomerWrite(c, row) == [Nothing EXCEPT !.customer = RowAt(c, row)]
ProjectWrite(p, row) == [Nothing EXCEPT !.project = RowAt(p, row)]
TaskWrite(t, row) == [Nothing EXCEPT !.task = RowAt(t, row)]
Idle == [on |-> FALSE, held |-> {}, writes |-> Nothing]

Init ==
  /\ customer = [c \in Customers |-> NoCustomer]
  /\ project = [p \in Projects |-> NoProject]
  /\ link = [x \in Customers \X Projects |-> "absent"]
  /\ task = [t \in Tasks |-> NoTask]
  /\ tx = [w \in Workers |-> Idle]
  /\ asks \in Scenes

-----------------------------------------------------------------------------
(* Transactions.                                                           *)

Begin(w, locks, writes) ==
  /\ ~tx[w].on
  /\ \A v \in Workers : tx[v].held \cap locks = {}
  /\ tx' = [tx EXCEPT ![w] = [on |-> TRUE, held |-> locks, writes |-> writes]]
  /\ UNCHANGED <<tables, asks>>

Commit(w) ==
  /\ tx[w].on
  /\ customer' = Written(customer, tx[w].writes.customer)
  /\ project' = Written(project, tx[w].writes.project)
  /\ link' = Written(link, tx[w].writes.link)
  /\ task' = Written(task, tx[w].writes.task)
  /\ tx' = [tx EXCEPT ![w] = Idle]
  /\ UNCHANGED asks

\* A deadlock, a lock wait timeout, a lost connection, a crash.
Fail(w) ==
  /\ tx[w].on
  /\ tx' = [tx EXCEPT ![w] = Idle]
  /\ UNCHANGED <<tables, asks>>

CustomerLock(c) == IF c = None THEN {} ELSE {<<"customer", c>>}
ProjectLocks(ps) == {<<"project", p>> : p \in ps \ {None}}
LinkLocks(c) == {<<"link", c, p>> : p \in {q \in Projects : link[<<c, q>>] # "absent"}}
TaskLock(t) == {<<"task", t>>}

\* Ids of rows that are neither there nor about to be inserted.
NewIds == {t \in Tasks : /\ task[t] = NoTask
                         /\ \A w \in Workers : t \notin DOMAIN tx[w].writes.task}
NewId == CHOOSE t \in NewIds : \A u \in NewIds : t <= u

-----------------------------------------------------------------------------
(* Questions asked of the database.                                        *)

Live(row) == row.status # "absent" /\ ~row.archived
OpenProject(p) == project[p].status \in {"active", "waiting"}
IsOpen(t) == task[t].status = "open"

\* findActiveCustomerProjectForUpdate: an active link to an open project.
ActiveLink(c, p) == link[<<c, p>>] = "active" /\ Live(project[p]) /\ OpenProject(p)

\* customerProjectLinkIsInUse, customerHasLifecycleDependencies and
\* projectHasLifecycleDependencies: reads without a lock.  Contracts and
\* receivables are in Contracts.
LinkInUse(c, p) ==
  \E t \in Tasks : IsOpen(t) /\ task[t].customer = c /\ task[t].project = p
CustomerInUse(c) == \E t \in Tasks : IsOpen(t) /\ task[t].customer = c
ProjectInUse(p) == \E t \in Tasks : IsOpen(t) /\ task[t].project = p

-----------------------------------------------------------------------------
(* Customers.                                                              *)

\* requireProjectsForBinding: a project that is not linked yet must accept links.
Bindable(c, ps) ==
  \A p \in ps : /\ project[p].status # "absent"
                /\ link[<<c, p>>] # "active" => Live(project[p]) /\ OpenProject(p)

\* replaceCustomerProjectLinks.
Replaced(c, ps) ==
  [x \in {<<c, p>> : p \in {q \in Projects : q \in ps \/ link[<<c, q>>] # "absent"}} |->
     IF x[2] \in ps THEN "active" ELSE "inactive"]

Releasable(c, ps) ==
  \A p \in Projects \ ps : link[<<c, p>>] = "active" => ~LinkInUse(c, p)

CreateCustomer(w, c, status, ps) ==
  /\ customer[c] = NoCustomer
  /\ Bindable(c, ps)
  /\ Begin(w, CustomerLock(c) \cup ProjectLocks(ps),
           [CustomerWrite(c, [NoCustomer EXCEPT !.status = status])
              EXCEPT !.link = Replaced(c, ps)])

\* ps is {} when the request leaves the projects alone.
\* Mutant: the links are read without FOR UPDATE.
UnlockedLinks(c) == {}
LinksRead(c) == LinkLocks(c)

UpdateCustomer(w, c, status, ps) ==
  /\ Live(customer[c])
  /\ ps # {} => Bindable(c, ps) /\ Releasable(c, ps)
  /\ Begin(w, CustomerLock(c) \cup IF ps = {} THEN {} ELSE ProjectLocks(ps) \cup LinksRead(c),
           [CustomerWrite(c, [customer[c] EXCEPT !.status = status])
              EXCEPT !.link = IF ps = {} THEN <<>> ELSE Replaced(c, ps)])

ChangeCustomerLifecycle(w, c, archive) ==
  /\ IF archive THEN Live(customer[c]) /\ customer[c].status = "inactive" /\ ~CustomerInUse(c)
     ELSE customer[c].archived
  /\ Begin(w, CustomerLock(c),
           CustomerWrite(c, [customer[c] EXCEPT !.archived = archive]))

-----------------------------------------------------------------------------
(* Projects.  Closing one asks nothing about its tasks.                    *)

CreateProject(w, p, status) ==
  /\ project[p] = NoProject
  /\ Begin(w, ProjectLocks({p}),
           ProjectWrite(p, [NoProject EXCEPT !.status = status]))

UpdateProject(w, p, status) ==
  /\ Live(project[p])
  /\ Begin(w, ProjectLocks({p}),
           ProjectWrite(p, [project[p] EXCEPT !.status = status]))

ChangeProjectLifecycle(w, p, archive) ==
  /\ IF archive THEN Live(project[p]) /\ project[p].status = "closed" /\ ~ProjectInUse(p)
     ELSE project[p].archived
  /\ Begin(w, ProjectLocks({p}),
           ProjectWrite(p, [project[p] EXCEPT !.archived = archive]))

-----------------------------------------------------------------------------
(* Tasks.                                                                  *)

\* assertTaskReferences and assertAvailableParents.
ReferencesHold(c, p) ==
  /\ c # None => Live(customer[c])
  /\ p # None => Live(project[p])
  /\ c # None /\ p # None => ActiveLink(c, p)

\* The link and, through the join, its project.
PairLocks(c, p) ==
  IF c = None \/ p = None THEN {} ELSE {<<"link", c, p>>} \cup ProjectLocks({p})
\* Mutant: the references are read without FOR UPDATE.
NoReferenceLocks(c, p) == {}
ReferenceLocks(c, p) == CustomerLock(c) \cup ProjectLocks({p}) \cup PairLocks(c, p)

\* createTaskInTransaction, in a transaction that holds more locks.
CreateTaskInTransaction(w, c, p, status, left, locks) ==
  /\ NewIds # {}
  /\ left > 0 => status = "open"
  /\ ReferencesHold(c, p)
  /\ Begin(w, locks \cup ReferenceLocks(c, p),
           TaskWrite(NewId, [NoTask EXCEPT !.status = status, !.customer = c,
                                           !.project = p, !.left = left]))

CreateTask(w, c, p, status, left) == CreateTaskInTransaction(w, c, p, status, left, {})

\* generateNextRecurringTask: at most one successor, with the same customer and
\* project, about which nothing is asked.
Generated(t) == \E u \in Tasks : task[u].from = t
Generates(t, after) ==
  task[t].status # "done" /\ after.status = "done" /\ after.left > 0 /\ ~Generated(t)
Successor(t, after) ==
  [after EXCEPT !.status = "open", !.left = @ - 1, !.from = t]

\* A visit-linked task gets its customer, project, schedule and status from the visit.
\* Mutant: only the customer and the project are fixed.
VisitFieldsLoose(t, after) ==
  task[t].visit => after.customer = task[t].customer /\ after.project = task[t].project
VisitFieldsKept(t, after) == task[t].visit => after = task[t]

\* reassign: the request names an assignee, the same or another.
RechecksReferences(t, after, reassign) ==
  reassign \/ after.customer # task[t].customer \/ after.project # task[t].project

\* Otherwise a task that is or becomes open still needs its link.
StillLinked(t, after) ==
  after.status = "open" /\ after.customer # None /\ after.project # None
    => ActiveLink(after.customer, after.project)

UpdateTask(w, t, after, reassign) ==
  LET rechecks == RechecksReferences(t, after, reassign)
      c == after.customer
      p == after.project IN
  /\ Live(task[t])
  /\ VisitFieldsKept(t, after)
  /\ IF rechecks THEN ReferencesHold(c, p) ELSE StillLinked(t, after)
  /\ Generates(t, after) => NewIds # {}
  /\ Begin(w, TaskLock(t)
              \cup IF rechecks THEN ReferenceLocks(c, p)
                   ELSE IF after.status = "open" THEN PairLocks(c, p)
                   ELSE IF Generates(t, after) THEN CustomerLock(c) \cup ProjectLocks({p})
                   ELSE {},
           IF Generates(t, after)
           THEN [Nothing EXCEPT !.task = [u \in {t, NewId} |->
                                            IF u = t THEN after ELSE Successor(t, after)]]
           ELSE TaskWrite(t, after))

ChangeTaskLifecycle(w, t, archive) ==
  LET c == task[t].customer
      p == task[t].project IN
  /\ IF archive THEN Live(task[t]) /\ ~IsOpen(t)
     ELSE task[t].archived /\ ReferencesHold(c, p)
  /\ Begin(w, TaskLock(t) \cup IF archive THEN {} ELSE ReferenceLocks(c, p),
           TaskWrite(t, [task[t] EXCEPT !.archived = archive]))

-----------------------------------------------------------------------------
(* The requests of the API.                                                *)

CustomerStatuses == {"active", "inactive"}
ProjectStatuses == {"active", "waiting", "closed"}
TaskStatuses == {"open", "done", "cancelled"}

\* Bounds on a behaviour: which statuses are asked for, whether there are several
\* projects, and what parents and how many occurrences a task is given.
AskedCustomerStatuses == IF "customers" \in asks THEN CustomerStatuses ELSE {"active"}
AskedProjectStatuses == IF "projects" \in asks THEN {"active", "closed"} ELSE {"active"}
MayAddProject == "links" \in asks \/ \A p \in Projects : project[p] = NoProject
AskedTaskStatuses == IF "series" \in asks THEN TaskStatuses ELSE {"open", "done"}
Parents == Customers \X Projects \cup
           IF "loose" \in asks THEN Customers \X {None} \cup {None} \X Projects ELSE {}
Lefts == IF "series" \in asks THEN 0..MaxLeft ELSE {0}
Requested == {t \in Tasks : task[t] # NoTask /\ task[t].from = None}

CustomersApi(w) ==
  \E c \in Customers, status \in AskedCustomerStatuses, ps \in (SUBSET Projects) \ {{}} :
    CreateCustomer(w, c, status, ps)

CustomerApi(w) ==
  \E c \in Customers, ps \in SUBSET Projects, status \in AskedCustomerStatuses :
    /\ "customers" \in asks \/ ps # {}
    /\ ps # {} => "links" \in asks
    /\ UpdateCustomer(w, c, status, ps)

CustomerLifecycleApi(w) ==
  /\ "archive" \in asks
  /\ \E c \in Customers, archive \in BOOLEAN : ChangeCustomerLifecycle(w, c, archive)

ProjectsApi(w) ==
  /\ MayAddProject
  /\ \E p \in Projects, status \in AskedProjectStatuses : CreateProject(w, p, status)

ProjectApi(w) ==
  /\ "projects" \in asks
  /\ \E p \in Projects, status \in AskedProjectStatuses : UpdateProject(w, p, status)

ProjectLifecycleApi(w) ==
  /\ "archive" \in asks
  /\ \E p \in Projects, archive \in BOOLEAN : ChangeProjectLifecycle(w, p, archive)

TasksApi(w) ==
  /\ "tasks" \in asks
  /\ Cardinality(Requested) < MaxRequested
  /\ \E parents \in Parents, status \in AskedTaskStatuses, left \in Lefts :
       CreateTask(w, parents[1], parents[2], status, left)

TaskApi(w) ==
  /\ "tasks" \in asks
  /\ \E t \in Tasks, parents \in Parents, status \in AskedTaskStatuses, left \in Lefts,
        reassign \in BOOLEAN :
       UpdateTask(w, t, [task[t] EXCEPT !.customer = parents[1], !.project = parents[2],
                                        !.status = status, !.left = left], reassign)

TaskLifecycleApi(w) ==
  /\ "archive" \in asks
  /\ \E t \in Tasks, archive \in BOOLEAN : ChangeTaskLifecycle(w, t, archive)

Request(w) ==
  \/ CustomersApi(w) \/ CustomerApi(w) \/ CustomerLifecycleApi(w)
  \/ ProjectsApi(w) \/ ProjectApi(w) \/ ProjectLifecycleApi(w)
  \/ TasksApi(w) \/ TaskApi(w) \/ TaskLifecycleApi(w)

Next == \E w \in Workers : Request(w) \/ Commit(w) \/ Fail(w)

Spec == Init /\ [][Next]_portfolioVars

-----------------------------------------------------------------------------
(* What the references promise.                                            *)

CustomerRows == [status : CustomerStatuses \cup {"absent"}, archived : BOOLEAN]
ProjectRows == [status : ProjectStatuses \cup {"absent"}, archived : BOOLEAN]
TaskRows == [status : TaskStatuses \cup {"absent"}, archived : BOOLEAN,
             customer : Customers \cup {None}, project : Projects \cup {None},
             left : 0..MaxLeft, visit : BOOLEAN, from : Tasks \cup {None}]

\* The rows are of their types; only closed records are archived, a linked
\* customer has a project, and a task generates at most one successor.
PortfolioTypeOK ==
  /\ customer \in [Customers -> CustomerRows]
  /\ project \in [Projects -> ProjectRows]
  /\ link \in [Customers \X Projects -> {"absent", "active", "inactive"}]
  /\ task \in [Tasks -> TaskRows]
  /\ \A c \in Customers : customer[c].archived => customer[c].status = "inactive"
  /\ \A p \in Projects : project[p].archived => project[p].status = "closed"
  /\ \A t \in Tasks : task[t].archived => ~IsOpen(t)
  /\ \A t, u \in Tasks : task[t].from = task[u].from /\ task[t].from # None => t = u

Attached(t) == ReferencesHold(task[t].customer, task[t].project)

\* Whenever a request creates, restores or moves a task, its customer and project
\* are in use at the moment this takes effect, and linked.
AttachedToLiving ==
  [][\A t \in Tasks :
       /\ task'[t].from = None
       /\ \/ task[t] = NoTask /\ task'[t] # NoTask
          \/ task[t].archived /\ ~task'[t].archived
          \/ task[t] # NoTask /\ <<task[t].customer, task[t].project>> #
                                 <<task'[t].customer, task'[t].project>>
       => Attached(t)']_portfolioVars

\* An open task that was not generated has an active link between its customer and
\* its project, and the project is not archived.
RequestedWorkLinked ==
  \A t \in Tasks : IsOpen(t) /\ task[t].from = None
                   /\ task[t].customer # None /\ task[t].project # None =>
    link[<<task[t].customer, task[t].project>>] = "active" /\ ~project[task[t].project].archived
=============================================================================
