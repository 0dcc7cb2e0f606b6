---------------------------- MODULE PortfolioProofs ----------------------------
(***************************************************************************)
(* Theorems about Portfolio, Transfer and Contracts for any requests,      *)
(* customers, projects, tasks, steps, contracts, visits and days.          *)
(*                                                                         *)
(* All of them rest on what a transaction has locked while it is at its    *)
(* writes: the rows that it is about to write, and those that what it      *)
(* decided depends on.  What it asked without a lock (is a link, a project *)
(* still in use?) stays true because whoever could make it false needs one *)
(* of its locks.  Transactions on contracts, visits and receivables are    *)
(* those of Portfolio with writes of their own, so that the invariant of   *)
(* Portfolio is the first part of theirs.                                  *)
(***************************************************************************)
EXTENDS Transfer, Contracts, FiniteSetTheorems, WellFoundedInduction, TLAPS

-----------------------------------------------------------------------------
(* The inductive invariant.                                                *)

\* An open task that a request made, of this customer and this project.
OpenAt(c, p) == \E t \in Tasks : IsOpen(t) /\ task[t].from = None
                                 /\ task[t].customer = c /\ task[t].project = p

\* What is known of the writes ws of a transaction with the locks ls.
CustomersOK(ls, ws) ==
  \A c \in DOMAIN ws.customer :
    /\ c \in Customers /\ <<"customer", c>> \in ls
    /\ ws.customer[c] \in CustomerRows /\ ws.customer[c].status # "absent"
    /\ ws.customer[c].archived => ws.customer[c].status = "inactive"

ProjectsOK(ls, ws) ==
  \A p \in DOMAIN ws.project :
    /\ p \in Projects /\ <<"project", p>> \in ls
    /\ ws.project[p] \in ProjectRows /\ ws.project[p].status # "absent"
    /\ ws.project[p].archived => /\ ws.project[p].status = "closed"
                                 /\ \A c \in Customers : ~OpenAt(c, p)

LinksOK(ls, ws) ==
  /\ DOMAIN ws.link \subseteq Customers \X Projects
  /\ \A c \in Customers, p \in Projects : <<c, p>> \in DOMAIN ws.link =>
       /\ c \in DOMAIN ws.customer
       /\ ws.link[<<c, p>>] \in {"active", "inactive"}
       /\ link[<<c, p>>] # "absent" => <<"link", c, p>> \in ls
       /\ ws.link[<<c, p>>] # "active" => ~OpenAt(c, p)

\* A task that is created, restored or moved has its references locked, an open one
\* its link.
Arrives(t, row) ==
  /\ row.from = None
  /\ \/ task[t] = NoTask
     \/ task[t].archived /\ ~row.archived
     \/ <<task[t].customer, task[t].project>> # <<row.customer, row.project>>
Referred(ls, c, p) == ReferencesHold(c, p) /\ ReferenceLocks(c, p) \subseteq ls
LinkedBy(ls, c, p) == ActiveLink(c, p) /\ PairLocks(c, p) \subseteq ls
NeedsLink(row) == /\ row.status = "open" /\ row.from = None
                  /\ row.customer # None /\ row.project # None

TaskOK(ls, t, row) ==
  /\ t \in Tasks /\ row \in TaskRows /\ row.status # "absent"
  /\ row.archived => row.status # "open"
  /\ task[t] # NoTask => <<"task", t>> \in ls /\ row.from = task[t].from
  /\ task[t] = NoTask /\ row.from # None => <<"task", row.from>> \in ls /\ ~Generated(row.from)
  /\ Arrives(t, row) => Referred(ls, row.customer, row.project)
  /\ NeedsLink(row) => LinkedBy(ls, row.customer, row.project)

TasksOK(ls, ws) ==
  /\ \A t \in DOMAIN ws.task : TaskOK(ls, t, ws.task[t])
  /\ \A t, u \in DOMAIN ws.task :
       ws.task[t].from = ws.task[u].from /\ ws.task[t].from # None => t = u
  /\ DOMAIN ws.task # {} =>
       DOMAIN ws.customer = {} /\ DOMAIN ws.project = {} /\ DOMAIN ws.link = {}

WritesOK(ls, ws) == CustomersOK(ls, ws) /\ ProjectsOK(ls, ws) /\ LinksOK(ls, ws) /\ TasksOK(ls, ws)

LocksApart == \A v, w \in Workers : v # w => tx[v].held \cap tx[w].held = {}
NewRowsApart == \A v, w \in Workers :
  v # w => DOMAIN tx[v].writes.task \cap DOMAIN tx[w].writes.task = {}

\* What the tables say.
Unlinked == \A c \in Customers : customer[c] = NoCustomer =>
              \A p \in Projects : link[<<c, p>>] = "absent"
Present == \A t \in Tasks : task[t].status = "absent" => task[t] = NoTask
TablesInv == PortfolioTypeOK /\ Unlinked /\ Present /\ RequestedWorkLinked

TxInv == /\ tx = [w \in Workers |-> tx[w]] /\ LocksApart /\ NewRowsApart
         /\ \A w \in Workers : WritesOK(tx[w].held, tx[w].writes)

PortfolioInv == TablesInv /\ TxInv

\* The steps, as far as these variables are concerned.
NewRowsFree(ws) == \A t \in DOMAIN ws.task :
  task[t] = NoTask => \A v \in Workers : t \notin DOMAIN tx[v].writes.task
SoundBegin(w, ls, ws) == Begin(w, ls, ws) /\ WritesOK(ls, ws) /\ NewRowsFree(ws)
RolledBack(w) == tx' = [tx EXCEPT ![w] = Idle] /\ UNCHANGED tables
PortfolioStep(w) ==
  (\E ls, ws : SoundBegin(w, ls, ws)) \/ Commit(w) \/ RolledBack(w)

-----------------------------------------------------------------------------
(* Writes: rows of the tables after a commit.                              *)

LEMMA WrittenAt ==
  ASSUME NEW table, NEW writes, NEW x \in DOMAIN table
  PROVE  Written(table, writes)[x] = IF x \in DOMAIN writes THEN writes[x] ELSE table[x]
BY DEF Written

LEMMA AfterCommit ==
  ASSUME PortfolioInv, NEW v \in Workers, Commit(v),
         NEW ws, ws = tx[v].writes
  PROVE  /\ \A c \in Customers : customer'[c] = IF c \in DOMAIN ws.customer THEN ws.customer[c] ELSE customer[c]
         /\ \A p \in Projects : project'[p] = IF p \in DOMAIN ws.project THEN ws.project[p] ELSE project[p]
         /\ \A x \in Customers \X Projects : link'[x] = IF x \in DOMAIN ws.link THEN ws.link[x] ELSE link[x]
         /\ \A t \in Tasks : task'[t] = IF t \in DOMAIN ws.task THEN ws.task[t] ELSE task[t]
         /\ tx' = [tx EXCEPT ![v] = Idle]
BY DEF PortfolioInv, TablesInv, PortfolioTypeOK, Commit, Written

\* The rows that somebody has locked, nobody else's commit changes.
LEMMA LockedStay ==
  ASSUME PortfolioInv, NEW v \in Workers, Commit(v), NEW ls, ls \cap tx[v].held = {}
  PROVE  /\ \A c \in Customers : <<"customer", c>> \in ls => customer'[c] = customer[c]
         /\ \A p \in Projects : <<"project", p>> \in ls => project'[p] = project[p]
         /\ \A c \in Customers, p \in Projects :
              <<"link", c, p>> \in ls /\ link[<<c, p>>] # "absent" =>
                link'[<<c, p>>] = link[<<c, p>>]
<1> PICK ws, held : ws = tx[v].writes /\ held = tx[v].held
  OBVIOUS
<1>1. WritesOK(held, ws)
  BY DEF PortfolioInv, TxInv
<1>2. /\ \A c \in Customers : customer'[c] = IF c \in DOMAIN ws.customer THEN ws.customer[c] ELSE customer[c]
      /\ \A p \in Projects : project'[p] = IF p \in DOMAIN ws.project THEN ws.project[p] ELSE project[p]
      /\ \A x \in Customers \X Projects : link'[x] = IF x \in DOMAIN ws.link THEN ws.link[x] ELSE link[x]
  BY AfterCommit
<1>3. ASSUME NEW c \in Customers, <<"customer", c>> \in ls
      PROVE  customer'[c] = customer[c]
  BY <1>1, <1>2, <1>3 DEF WritesOK, CustomersOK
<1>4. ASSUME NEW p \in Projects, <<"project", p>> \in ls
      PROVE  project'[p] = project[p]
  BY <1>1, <1>2, <1>4 DEF WritesOK, ProjectsOK
<1>5. ASSUME NEW c \in Customers, NEW p \in Projects, <<"link", c, p>> \in ls,
             link[<<c, p>>] # "absent"
      PROVE  link'[<<c, p>>] = link[<<c, p>>]
  BY <1>1, <1>2, <1>5 DEF WritesOK, LinksOK
<1> QED
  BY <1>3, <1>4, <1>5

LEMMA LinkedStays ==
  ASSUME PortfolioInv, NEW v \in Workers, Commit(v), NEW ls, ls \cap tx[v].held = {},
         NEW c \in Customers, NEW p \in Projects, LinkedBy(ls, c, p)
  PROVE  LinkedBy(ls, c, p)'
<1>1. <<"link", c, p>> \in ls /\ <<"project", p>> \in ls /\ link[<<c, p>>] = "active"
  BY NoneAssumption DEF LinkedBy, PairLocks, ProjectLocks, ActiveLink
<1>2. link'[<<c, p>>] = link[<<c, p>>] /\ project'[p] = project[p]
  BY <1>1, LockedStay
<1> QED
  BY <1>2 DEF LinkedBy, ActiveLink, OpenProject, Live, PairLocks, ProjectLocks

LEMMA ReferredStays ==
  ASSUME PortfolioInv, NEW v \in Workers, Commit(v), NEW ls, ls \cap tx[v].held = {},
         NEW c \in Customers \cup {None}, NEW p \in Projects \cup {None}, Referred(ls, c, p)
  PROVE  Referred(ls, c, p)'
<1>1. ReferenceLocks(c, p)' = ReferenceLocks(c, p)
  BY DEF ReferenceLocks, CustomerLock, ProjectLocks, PairLocks
<1>2. c # None => customer'[c] = customer[c]
  BY LockedStay DEF Referred, ReferenceLocks, CustomerLock
<1>3. p # None => project'[p] = project[p]
  BY LockedStay DEF Referred, ReferenceLocks, ProjectLocks
<1>4. c # None /\ p # None => link'[<<c, p>>] = link[<<c, p>>]
  <2> SUFFICES ASSUME c # None, p # None
               PROVE  link'[<<c, p>>] = link[<<c, p>>]
    OBVIOUS
  <2>1. <<"link", c, p>> \in ls /\ link[<<c, p>>] = "active"
    BY DEF Referred, ReferenceLocks, PairLocks, ReferencesHold, ActiveLink
  <2> QED
    BY <2>1, LockedStay
<1>5. ReferencesHold(c, p)'
  BY <1>2, <1>3, <1>4 DEF Referred, ReferencesHold, ActiveLink, OpenProject, Live
<1> QED
  BY <1>1, <1>5 DEF Referred

\* No commit makes a task generated a second time.
LEMMA TaskStays ==
  ASSUME PortfolioInv, NEW v \in Workers, Commit(v), NEW ls, ls \cap tx[v].held = {},
         NEW t, NEW row, t \notin DOMAIN tx[v].writes.task, TaskOK(ls, t, row)
  PROVE  TaskOK(ls, t, row)'
<1> PICK ws, held : ws = tx[v].writes /\ held = tx[v].held
  OBVIOUS
<1>1. /\ \A u \in DOMAIN ws.task : TaskOK(held, u, ws.task[u])
      /\ \A u \in Tasks : task'[u] = IF u \in DOMAIN ws.task THEN ws.task[u] ELSE task[u]
  BY AfterCommit DEF PortfolioInv, TxInv, WritesOK, TasksOK
<1>2. /\ t \in Tasks /\ row \in TaskRows /\ row.status # "absent"
      /\ row.archived => row.status # "open"
      /\ task[t] # NoTask => <<"task", t>> \in ls /\ row.from = task[t].from
      /\ task[t] = NoTask /\ row.from # None => <<"task", row.from>> \in ls /\ ~Generated(row.from)
      /\ Arrives(t, row) => Referred(ls, row.customer, row.project)
      /\ NeedsLink(row) => LinkedBy(ls, row.customer, row.project)
  BY DEF TaskOK
<1>3. task'[t] = task[t]
  BY <1>1, <1>2
<1>4. task[t] = NoTask /\ row.from # None => ~Generated(row.from)'
  <2> SUFFICES ASSUME task[t] = NoTask, row.from # None, NEW u \in Tasks, task'[u].from = row.from
               PROVE  FALSE
    BY DEF Generated
  <2>1. task[u].from # row.from /\ <<"task", row.from>> \notin held
    BY <1>2 DEF Generated
  <2>2. u \in DOMAIN ws.task /\ ws.task[u].from = row.from
    BY <1>1, <2>1
  <2>3. TaskOK(held, u, ws.task[u])
    BY <1>1, <2>2
  <2> QED
    BY <2>1, <2>2, <2>3 DEF TaskOK
<1>5. row.customer \in Customers \cup {None} /\ row.project \in Projects \cup {None}
  BY <1>2 DEF TaskRows
<1>6. Arrives(t, row)' => Arrives(t, row)
  BY <1>3 DEF Arrives
<1>7. Arrives(t, row)' => Referred(ls, row.customer, row.project)'
  BY <1>2, <1>5, <1>6, ReferredStays
<1>8. NeedsLink(row) => LinkedBy(ls, row.customer, row.project)'
  BY <1>2, <1>5, LinkedStays DEF NeedsLink
<1> QED
  BY <1>2, <1>3, <1>4, <1>7, <1>8 DEF TaskOK, NeedsLink

\* What somebody else has decided still holds after a commit.
LEMMA WritesStay ==
  ASSUME PortfolioInv, NEW v \in Workers, Commit(v), NEW ls, ls \cap tx[v].held = {},
         NEW ws, WritesOK(ls, ws),
         \A t \in DOMAIN ws.task : t \notin DOMAIN tx[v].writes.task
  PROVE  WritesOK(ls, ws)'
<1> PICK vs, held : vs = tx[v].writes /\ held = tx[v].held
  OBVIOUS
<1>1. WritesOK(held, vs) /\ ls \cap held = {}
  BY DEF PortfolioInv, TxInv
<1>2. /\ \A x \in Customers \X Projects : link'[x] = IF x \in DOMAIN vs.link THEN vs.link[x] ELSE link[x]
      /\ \A t \in Tasks : task'[t] = IF t \in DOMAIN vs.task THEN vs.task[t] ELSE task[t]
  BY AfterCommit
<1>3. ASSUME NEW c \in Customers, NEW p \in Projects, OpenAt(c, p)', ~OpenAt(c, p)
      PROVE  LinkedBy(held, c, p)
  <2> PICK t \in Tasks : IsOpen(t)' /\ task'[t].from = None
                         /\ task'[t].customer = c /\ task'[t].project = p
    BY <1>3 DEF OpenAt
  <2>1. t \in DOMAIN vs.task /\ task'[t] = vs.task[t]
    BY <1>2, <1>3 DEF OpenAt, IsOpen
  <2>2. NeedsLink(vs.task[t])
    BY <2>1, NoneAssumption DEF NeedsLink, IsOpen
  <2> QED
    BY <1>1, <2>1, <2>2 DEF WritesOK, TasksOK, TaskOK
<1>4. CustomersOK(ls, ws)'
  BY DEF WritesOK, CustomersOK
<1>5. ASSUME NEW p \in DOMAIN ws.project, ws.project[p].archived, NEW c \in Customers
      PROVE  ~OpenAt(c, p)'
  <2>1. p \in Projects /\ <<"project", p>> \in ls /\ ~OpenAt(c, p)
    BY <1>5 DEF WritesOK, ProjectsOK
  <2>2. LinkedBy(held, c, p) => <<"project", p>> \in held
    BY <2>1, NoneAssumption DEF LinkedBy, PairLocks, ProjectLocks
  <2> QED
    BY <1>1, <1>3, <2>1, <2>2
<1>6. ProjectsOK(ls, ws)'
  BY <1>5 DEF WritesOK, ProjectsOK
<1>7. ASSUME NEW c \in Customers, NEW p \in Projects, <<c, p>> \in DOMAIN ws.link
      PROVE  /\ link'[<<c, p>>] = link[<<c, p>>]
             /\ ws.link[<<c, p>>] # "active" => ~OpenAt(c, p)'
  <2>1. /\ <<"customer", c>> \in ls
        /\ link[<<c, p>>] # "absent" => <<"link", c, p>> \in ls
        /\ ws.link[<<c, p>>] # "active" => ~OpenAt(c, p)
    BY <1>7 DEF WritesOK, LinksOK, CustomersOK
  <2>2. <<c, p>> \in DOMAIN vs.link => <<"customer", c>> \in held
    BY <1>1 DEF WritesOK, LinksOK, CustomersOK
  <2>3. LinkedBy(held, c, p) => <<"link", c, p>> \in held /\ link[<<c, p>>] = "active"
    BY NoneAssumption DEF LinkedBy, PairLocks, ActiveLink
  <2>4. link'[<<c, p>>] = link[<<c, p>>]
    BY <1>1, <1>2, <2>1, <2>2
  <2> QED
    BY <1>1, <1>3, <2>1, <2>3, <2>4
<1>8. LinksOK(ls, ws)'
  BY <1>7 DEF WritesOK, LinksOK
<1>9. TasksOK(ls, ws)'
  BY TaskStays DEF WritesOK, TasksOK
<1> QED
  BY <1>4, <1>6, <1>8, <1>9 DEF WritesOK

LEMMA CommitTypes ==
  ASSUME PortfolioInv, NEW v \in Workers, Commit(v)
  PROVE  PortfolioTypeOK'
<1> PICK ws, held : ws = tx[v].writes /\ held = tx[v].held
  OBVIOUS
<1>1. WritesOK(held, ws) /\ PortfolioTypeOK
  BY DEF PortfolioInv, TxInv, TablesInv
<1>2. /\ customer' = Written(customer, ws.customer) /\ project' = Written(project, ws.project)
      /\ link' = Written(link, ws.link) /\ task' = Written(task, ws.task)
  BY DEF Commit
<1>3. /\ \A c \in Customers : customer'[c] = IF c \in DOMAIN ws.customer THEN ws.customer[c] ELSE customer[c]
      /\ \A p \in Projects : project'[p] = IF p \in DOMAIN ws.project THEN ws.project[p] ELSE project[p]
      /\ \A t \in Tasks : task'[t] = IF t \in DOMAIN ws.task THEN ws.task[t] ELSE task[t]
  BY AfterCommit
<1>4. /\ \A c \in DOMAIN ws.customer : ws.customer[c] \in CustomerRows
      /\ \A p \in DOMAIN ws.project : ws.project[p] \in ProjectRows
      /\ \A t \in DOMAIN ws.task : ws.task[t] \in TaskRows
      /\ \A c \in Customers, p \in Projects : <<c, p>> \in DOMAIN ws.link =>
           ws.link[<<c, p>>] \in {"absent", "active", "inactive"}
  BY <1>1 DEF WritesOK, CustomersOK, ProjectsOK, LinksOK, TasksOK, TaskOK
<1>5. customer' \in [Customers -> CustomerRows] /\ project' \in [Projects -> ProjectRows]
  BY <1>1, <1>2, <1>4 DEF PortfolioTypeOK, Written
<1>6. link' \in [Customers \X Projects -> {"absent", "active", "inactive"}]
  <2>1. link' = [x \in Customers \X Projects |-> IF x \in DOMAIN ws.link THEN ws.link[x] ELSE link[x]]
    BY <1>1, <1>2 DEF PortfolioTypeOK, Written
  <2>2. ASSUME NEW x \in Customers \X Projects
        PROVE  (IF x \in DOMAIN ws.link THEN ws.link[x] ELSE link[x]) \in {"absent", "active", "inactive"}
    <3> PICK c \in Customers, p \in Projects : x = <<c, p>>
      OBVIOUS
    <3>1. link[x] \in {"absent", "active", "inactive"}
      BY <1>1 DEF PortfolioTypeOK
    <3> QED
      BY <1>4, <3>1
  <2> QED
    BY <2>1, <2>2
<1>7. task' \in [Tasks -> TaskRows]
  BY <1>1, <1>2, <1>4 DEF PortfolioTypeOK, Written
<1>8. \A c \in Customers : customer'[c].archived => customer'[c].status = "inactive"
  BY <1>1, <1>3 DEF PortfolioTypeOK, WritesOK, CustomersOK
<1>13. \A p \in Projects : project'[p].archived => project'[p].status = "closed"
  BY <1>1, <1>3 DEF PortfolioTypeOK, WritesOK, ProjectsOK
<1>9. \A t \in Tasks : task'[t].archived => task'[t].status # "open"
  BY <1>1, <1>3 DEF PortfolioTypeOK, WritesOK, TasksOK, TaskOK, IsOpen
<1>10. ASSUME NEW t \in Tasks, NEW u \in Tasks, task'[t].from = task'[u].from,
              task'[t].from # None, t \in DOMAIN ws.task, u \notin DOMAIN ws.task
       PROVE  t = u
  <2>1. task'[t] = ws.task[t] /\ task'[u] = task[u] /\ TaskOK(held, t, ws.task[t])
    BY <1>1, <1>3, <1>10 DEF WritesOK, TasksOK
  <2>2. CASE task[t] = NoTask
    BY <1>10, <2>1, <2>2 DEF TaskOK, Generated
  <2>3. CASE task[t] # NoTask
    BY <1>1, <1>10, <2>1, <2>3 DEF TaskOK, PortfolioTypeOK
  <2> QED
    BY <2>2, <2>3
<1>11. ASSUME NEW t \in Tasks, NEW u \in Tasks, task'[t].from = task'[u].from,
              task'[t].from # None, t \in DOMAIN ws.task <=> u \in DOMAIN ws.task
       PROVE  t = u
  <2>1. CASE t \in DOMAIN ws.task
    BY <1>1, <1>3, <1>11, <2>1 DEF WritesOK, TasksOK
  <2>2. CASE t \notin DOMAIN ws.task
    BY <1>1, <1>3, <1>11, <2>2 DEF PortfolioTypeOK
  <2> QED
    BY <2>1, <2>2
<1>12. \A t, u \in Tasks : task'[t].from = task'[u].from /\ task'[t].from # None => t = u
  BY <1>10, <1>11
<1> QED
  BY <1>5, <1>6, <1>7, <1>8, <1>13, <1>9, <1>12 DEF PortfolioTypeOK, IsOpen

LEMMA CommitTables ==
  ASSUME PortfolioInv, NEW v \in Workers, Commit(v)
  PROVE  TablesInv'
<1> PICK ws, held : ws = tx[v].writes /\ held = tx[v].held
  OBVIOUS
<1>1. WritesOK(held, ws) /\ TablesInv
  BY DEF PortfolioInv, TxInv
<1>2. /\ \A c \in Customers : customer'[c] = IF c \in DOMAIN ws.customer THEN ws.customer[c] ELSE customer[c]
      /\ \A p \in Projects : project'[p] = IF p \in DOMAIN ws.project THEN ws.project[p] ELSE project[p]
      /\ \A x \in Customers \X Projects : link'[x] = IF x \in DOMAIN ws.link THEN ws.link[x] ELSE link[x]
      /\ \A t \in Tasks : task'[t] = IF t \in DOMAIN ws.task THEN ws.task[t] ELSE task[t]
  BY AfterCommit
<1>3. PortfolioTypeOK'
  BY CommitTypes
<1>4. ASSUME NEW c \in Customers, customer'[c] = NoCustomer, NEW p \in Projects
      PROVE  link'[<<c, p>>] = "absent"
  <2>1. c \in DOMAIN ws.customer => customer'[c] = ws.customer[c] /\ ws.customer[c].status # "absent"
    BY <1>1, <1>2 DEF WritesOK, CustomersOK
  <2>2. c \notin DOMAIN ws.customer
    BY <1>4, <2>1 DEF NoCustomer
  <2>3. <<c, p>> \notin DOMAIN ws.link
    BY <1>1, <2>2 DEF WritesOK, LinksOK
  <2> QED
    BY <1>1, <1>2, <1>4, <2>2, <2>3 DEF TablesInv, Unlinked
<1>5. Present'
  BY <1>1, <1>2 DEF TablesInv, Present, WritesOK, TasksOK, TaskOK
<1>6. ASSUME NEW t \in Tasks, NEW c \in Customers, NEW p \in Projects, task'[t].status = "open",
             task'[t].from = None, task'[t].customer = c, task'[t].project = p
      PROVE  link'[<<c, p>>] = "active" /\ ~project'[p].archived
  <2>1. CASE t \in DOMAIN ws.task
    <3>1. TaskOK(held, t, ws.task[t]) /\ NeedsLink(ws.task[t])
      BY <1>1, <1>2, <1>6, <2>1, NoneAssumption DEF WritesOK, TasksOK, NeedsLink
    <3>2. ActiveLink(c, p)
      BY <1>2, <1>6, <2>1, <3>1 DEF TaskOK, LinkedBy
    <3>3. p \notin DOMAIN ws.project /\ <<c, p>> \notin DOMAIN ws.link
      BY <1>1, <2>1 DEF WritesOK, TasksOK
    <3> QED
      BY <1>2, <3>2, <3>3 DEF ActiveLink, Live
  <2>2. CASE t \notin DOMAIN ws.task
    <3>1. task[t].status = "open" /\ task[t].from = None /\ task[t].customer = c
          /\ task[t].project = p
      BY <1>2, <1>6, <2>2
    <3>2. OpenAt(c, p)
      BY <3>1 DEF OpenAt, IsOpen
    <3>3. link[<<c, p>>] = "active" /\ ~project[p].archived
      BY <1>1, <3>1, NoneAssumption DEF TablesInv, RequestedWorkLinked, IsOpen
    <3>4. link'[<<c, p>>] = "active"
      BY <1>1, <1>2, <3>2, <3>3 DEF WritesOK, LinksOK
    <3>5. ~project'[p].archived
      BY <1>1, <1>2, <3>2, <3>3 DEF WritesOK, ProjectsOK
    <3> QED
      BY <3>4, <3>5
  <2> QED
    BY <2>1, <2>2
<1>7. \A t \in Tasks : task'[t].customer \in Customers \cup {None}
                       /\ task'[t].project \in Projects \cup {None}
  BY <1>3 DEF PortfolioTypeOK, TaskRows
<1>8. RequestedWorkLinked'
  BY <1>6, <1>7 DEF RequestedWorkLinked, IsOpen
<1> QED
  BY <1>3, <1>4, <1>5, <1>8 DEF TablesInv, Unlinked

LEMMA WritesFrame ==
  ASSUME UNCHANGED tables, NEW ls, NEW ws, WritesOK(ls, ws)
  PROVE  WritesOK(ls, ws)'
<1>1. customer' = customer /\ project' = project /\ link' = link /\ task' = task
  BY DEF tables
<1>2. CustomersOK(ls, ws)' /\ ProjectsOK(ls, ws)' /\ LinksOK(ls, ws)'
  BY <1>1 DEF WritesOK, CustomersOK, ProjectsOK, LinksOK, OpenAt, IsOpen
<1>3. \A c, p : Referred(ls, c, p)' = Referred(ls, c, p) /\ LinkedBy(ls, c, p)' = LinkedBy(ls, c, p)
  BY <1>1 DEF Referred, LinkedBy, ReferencesHold, ActiveLink, OpenProject, Live, ReferenceLocks,
              CustomerLock, ProjectLocks, PairLocks
<1>4. TasksOK(ls, ws)'
  BY <1>1, <1>3 DEF WritesOK, TasksOK, TaskOK, Arrives, NeedsLink, Generated
<1> QED
  BY <1>2, <1>4 DEF WritesOK

LEMMA TablesFrame ==
  ASSUME UNCHANGED tables, TablesInv
  PROVE  TablesInv'
BY DEF tables, TablesInv, PortfolioTypeOK, IsOpen, Unlinked, Present, RequestedWorkLinked

LEMMA BeginKeeps ==
  ASSUME PortfolioInv, NEW w \in Workers, NEW ls, NEW ws, SoundBegin(w, ls, ws)
  PROVE  PortfolioInv'
<1>1. /\ \A v \in Workers : tx[v].held \cap ls = {}
      /\ tx' = [tx EXCEPT ![w] = [on |-> TRUE, held |-> ls, writes |-> ws]]
      /\ UNCHANGED tables /\ WritesOK(ls, ws) /\ NewRowsFree(ws)
  BY DEF SoundBegin, Begin
<1>2. tx' = [v \in Workers |-> tx'[v]] /\ tx'[w].held = ls /\ tx'[w].writes = ws
      /\ \A v \in Workers \ {w} : tx'[v] = tx[v]
  BY <1>1 DEF PortfolioInv, TxInv
<1>3. LocksApart'
  BY <1>1, <1>2 DEF PortfolioInv, TxInv, LocksApart
<1>4. ASSUME NEW v \in Workers \ {w}, NEW t \in DOMAIN ws.task
      PROVE  t \notin DOMAIN tx[v].writes.task
  <2>1. TaskOK(ls, t, ws.task[t])
    BY <1>1 DEF WritesOK, TasksOK
  <2>2. t \in DOMAIN tx[v].writes.task => TaskOK(tx[v].held, t, tx[v].writes.task[t])
    BY DEF PortfolioInv, TxInv, WritesOK, TasksOK
  <2>3. CASE task[t] = NoTask
    BY <1>1, <2>3 DEF NewRowsFree
  <2>4. CASE task[t] # NoTask
    BY <1>1, <2>1, <2>2, <2>4 DEF TaskOK
  <2> QED
    BY <2>3, <2>4
<1>5. NewRowsApart'
  BY <1>2, <1>4 DEF PortfolioInv, TxInv, NewRowsApart
<1>6. ASSUME NEW v \in Workers
      PROVE  WritesOK(tx[v].held, tx[v].writes)'
  <2> PICK ks, vs : ks = tx'[v].held /\ vs = tx'[v].writes
    OBVIOUS
  <2>1. WritesOK(ks, vs)
    BY <1>1, <1>2 DEF PortfolioInv, TxInv
  <2>2. WritesOK(ks, vs)'
    BY <1>1, <2>1, WritesFrame
  <2> QED
    BY <2>2
<1>7. TablesInv'
  BY <1>1, TablesFrame DEF PortfolioInv
<1> QED
  BY <1>2, <1>3, <1>5, <1>6, <1>7 DEF PortfolioInv, TxInv

LEMMA EndKeepsApart ==
  ASSUME PortfolioInv, NEW w \in Workers, tx' = [tx EXCEPT ![w] = Idle]
  PROVE  /\ tx' = [v \in Workers |-> tx'[v]] /\ LocksApart' /\ NewRowsApart' /\ tx'[w] = Idle
         /\ \A v \in Workers \ {w} : tx'[v] = tx[v]
<1>1. tx' = [v \in Workers |-> tx'[v]] /\ tx'[w] = Idle /\ \A v \in Workers \ {w} : tx'[v] = tx[v]
  BY DEF PortfolioInv, TxInv
<1>2. LocksApart'
  BY <1>1 DEF PortfolioInv, TxInv, LocksApart, Idle
<1>3. DOMAIN Idle.writes.task = {}
  BY DEF Idle, Nothing
<1>4. NewRowsApart'
  BY <1>1, <1>3 DEF PortfolioInv, TxInv, NewRowsApart
<1> QED
  BY <1>1, <1>2, <1>4

LEMMA PortfolioStepKeeps ==
  ASSUME PortfolioInv, NEW w \in Workers, PortfolioStep(w)
  PROVE  PortfolioInv'
<1>1. CASE \E ls, ws : SoundBegin(w, ls, ws)
  BY <1>1, BeginKeeps
<1>2. ASSUME tx' = [tx EXCEPT ![w] = Idle],
             \A v \in Workers \ {w} : WritesOK(tx[v].held, tx[v].writes) =>
               \E ls, ws : ls = tx[v].held /\ ws = tx[v].writes /\ WritesOK(ls, ws)'
      PROVE  TxInv'
  <2>1. ASSUME NEW v \in Workers \ {w}
        PROVE  WritesOK(tx[v].held, tx[v].writes)'
    <3> PICK ls, ws : ls = tx[v].held /\ ws = tx[v].writes /\ WritesOK(ls, ws)'
      BY <1>2 DEF PortfolioInv, TxInv
    <3>1. ls = tx'[v].held /\ ws = tx'[v].writes
      BY <1>2, EndKeepsApart
    <3> QED
      BY <3>1
  <2>2. WritesOK(tx[w].held, tx[w].writes)'
    <3> PICK ls, ws : ls = Idle.held /\ ws = Idle.writes
      OBVIOUS
    <3>1. ls = tx'[w].held /\ ws = tx'[w].writes
      BY <1>2, EndKeepsApart
    <3>2. DOMAIN ws.task = {} /\ DOMAIN ws.customer = {} /\ DOMAIN ws.project = {} /\ DOMAIN ws.link = {}
      BY DEF Idle, Nothing
    <3>3. WritesOK(ls, ws)'
      BY <3>2 DEF WritesOK, CustomersOK, ProjectsOK, LinksOK, TasksOK
    <3> QED
      BY <3>1, <3>3
  <2> QED
    BY <1>2, <2>1, <2>2, EndKeepsApart DEF TxInv
<1>3. CASE RolledBack(w)
  <2>1. ASSUME NEW v \in Workers \ {w}, WritesOK(tx[v].held, tx[v].writes)
        PROVE  \E ls, ws : ls = tx[v].held /\ ws = tx[v].writes /\ WritesOK(ls, ws)'
    <3> PICK ls, ws : ls = tx[v].held /\ ws = tx[v].writes
      OBVIOUS
    <3>1. WritesOK(ls, ws)'
      BY <1>3, <2>1, WritesFrame DEF RolledBack
    <3> QED
      BY <3>1
  <2> QED
    BY <1>2, <1>3, <2>1, TablesFrame DEF RolledBack, PortfolioInv
<1>4. CASE Commit(w)
  <2>1. ASSUME NEW v \in Workers \ {w}, WritesOK(tx[v].held, tx[v].writes)
        PROVE  \E ls, ws : ls = tx[v].held /\ ws = tx[v].writes /\ WritesOK(ls, ws)'
    <3> PICK ls, ws : ls = tx[v].held /\ ws = tx[v].writes
      OBVIOUS
    <3>1. ls \cap tx[w].held = {} /\ \A t \in DOMAIN ws.task : t \notin DOMAIN tx[w].writes.task
      BY DEF PortfolioInv, TxInv, LocksApart, NewRowsApart
    <3>2. WritesOK(ls, ws)'
      BY <1>4, <2>1, <3>1, WritesStay
    <3> QED
      BY <3>2
  <2>2. tx' = [tx EXCEPT ![w] = Idle]
    BY <1>4 DEF Commit
  <2> QED
    BY <1>2, <1>4, <2>1, <2>2, CommitTables DEF PortfolioInv
<1> QED
  BY <1>1, <1>3, <1>4 DEF PortfolioStep

-----------------------------------------------------------------------------
(* Ids.                                                                    *)

LEMMA LeastNatural ==
  ASSUME NEW S \in SUBSET Nat, S # {}
  PROVE  \E s \in S : \A u \in S : s <= u
<1> DEFINE R == OpToRel(<, Nat)
<1>1. IsWellFoundedOn(R, Nat)
  BY NatLessThanWellFounded
<1>2. \A x, y \in Nat : x < y => <<x, y>> \in R
  BY DEF OpToRel
<1> HIDE DEF R
<1>3. PICK s \in S : \A u \in S : ~(<<u, s>> \in R)
  BY <1>1, WFMin
<1>4. ASSUME NEW u \in S
      PROVE  s <= u
  <2>1. ~(u < s)
    BY <1>2, <1>3
  <2> QED
    BY <2>1
<1> QED
  BY <1>4

LEMMA NewIdIsNew == NewIds # {} => NewId \in NewIds
<1>1. NewIds \subseteq Nat
  BY TasksAssumption DEF NewIds
<1> QED
  BY <1>1, LeastNatural DEF NewId

-----------------------------------------------------------------------------
(* Requests.  What each of them decides is sound under the locks it takes. *)

LEMMA FieldsOfWrites ==
  /\ \A c, row, ls : LET ws == [CustomerWrite(c, row) EXCEPT !.link = ls] IN
       ws.customer = RowAt(c, row) /\ ws.project = <<>> /\ ws.link = ls /\ ws.task = <<>>
  /\ \A c, row : LET ws == CustomerWrite(c, row) IN
       ws.customer = RowAt(c, row) /\ ws.project = <<>> /\ ws.link = <<>> /\ ws.task = <<>>
  /\ \A p, row : LET ws == ProjectWrite(p, row) IN
       ws.customer = <<>> /\ ws.project = RowAt(p, row) /\ ws.link = <<>> /\ ws.task = <<>>
  /\ \A t, row : LET ws == TaskWrite(t, row) IN
       ws.customer = <<>> /\ ws.project = <<>> /\ ws.link = <<>> /\ ws.task = RowAt(t, row)
  /\ \A rows : LET ws == [Nothing EXCEPT !.task = rows] IN
       ws.customer = <<>> /\ ws.project = <<>> /\ ws.link = <<>> /\ ws.task = rows
BY DEF CustomerWrite, ProjectWrite, TaskWrite, Nothing

LEMMA NoRows == DOMAIN <<>> = {}
OBVIOUS

LEMMA SoundCustomerWrite ==
  ASSUME NEW c \in Customers, NEW row \in CustomerRows, row.status # "absent",
         row.archived => row.status = "inactive", NEW ls, <<"customer", c>> \in ls,
         NEW ws, ws.customer = RowAt(c, row), ws.project = <<>>, ws.task = <<>>, LinksOK(ls, ws)
  PROVE  WritesOK(ls, ws) /\ NewRowsFree(ws)
<1>1. CustomersOK(ls, ws)
  BY DEF CustomersOK, RowAt
<1>2. ProjectsOK(ls, ws) /\ TasksOK(ls, ws) /\ NewRowsFree(ws)
  BY NoRows DEF ProjectsOK, TasksOK, NewRowsFree
<1> QED
  BY <1>1, <1>2 DEF WritesOK

LEMMA SoundProjectWrite ==
  ASSUME NEW p \in Projects, NEW row \in ProjectRows, row.status # "absent",
         row.archived => row.status = "closed" /\ \A c \in Customers : ~OpenAt(c, p),
         NEW ls, <<"project", p>> \in ls
  PROVE  WritesOK(ls, ProjectWrite(p, row)) /\ NewRowsFree(ProjectWrite(p, row))
<1> PICK ws : ws = ProjectWrite(p, row)
  OBVIOUS
<1>1. ws.customer = <<>> /\ ws.project = RowAt(p, row) /\ ws.link = <<>> /\ ws.task = <<>>
  BY FieldsOfWrites
<1>2. ProjectsOK(ls, ws)
  BY <1>1 DEF ProjectsOK, RowAt
<1>3. CustomersOK(ls, ws) /\ LinksOK(ls, ws) /\ TasksOK(ls, ws) /\ NewRowsFree(ws)
  BY <1>1, NoRows DEF CustomersOK, LinksOK, TasksOK, NewRowsFree
<1> QED
  BY <1>2, <1>3 DEF WritesOK

LEMMA SoundTaskWrites ==
  ASSUME NEW rows, NEW ls, NEW ws, ws.customer = <<>>, ws.project = <<>>, ws.link = <<>>, ws.task = rows,
         \A t \in DOMAIN rows : TaskOK(ls, t, rows[t]),
         \A t, u \in DOMAIN rows : rows[t].from = rows[u].from /\ rows[t].from # None => t = u
  PROVE  WritesOK(ls, ws)
<1>1. TasksOK(ls, ws)
  BY NoRows DEF TasksOK
<1>2. CustomersOK(ls, ws) /\ ProjectsOK(ls, ws) /\ LinksOK(ls, ws)
  BY NoRows DEF CustomersOK, ProjectsOK, LinksOK
<1> QED
  BY <1>1, <1>2 DEF WritesOK

\* The rows of the link table after a request for the projects ps.
LEMMA ReplacedLinks ==
  ASSUME PortfolioInv, NEW c \in Customers, NEW ps \in SUBSET Projects, NEW ls,
         NEW ws, c \in DOMAIN ws.customer, ws.link = Replaced(c, ps),
         \A p \in Projects : link[<<c, p>>] # "absent" => <<"link", c, p>> \in ls,
         Releasable(c, ps)
  PROVE  LinksOK(ls, ws)
<1>1. \A p \in Projects : OpenAt(c, p) => link[<<c, p>>] = "active" /\ LinkInUse(c, p)
  BY NoneAssumption DEF PortfolioInv, TablesInv, RequestedWorkLinked, OpenAt, LinkInUse
<1>2. DOMAIN ws.link = {<<c, p>> : p \in {q \in Projects : q \in ps \/ link[<<c, q>>] # "absent"}}
      /\ \A x \in DOMAIN ws.link : ws.link[x] = IF x[2] \in ps THEN "active" ELSE "inactive"
  BY DEF Replaced
<1>3. ASSUME NEW d \in Customers, NEW p \in Projects, <<d, p>> \in DOMAIN ws.link
      PROVE  d = c /\ ws.link[<<d, p>>] = IF p \in ps THEN "active" ELSE "inactive"
  <2>1. PICK q \in Projects : <<d, p>> = <<c, q>>
    BY <1>2, <1>3
  <2>2. d = c /\ <<d, p>>[2] = p
    BY <2>1
  <2> QED
    BY <1>2, <1>3, <2>2
<1>4. DOMAIN ws.link \subseteq Customers \X Projects
  <2>1. \A p \in Projects : <<c, p>> \in Customers \X Projects
    OBVIOUS
  <2> QED
    BY <1>2, <2>1
<1>5. ASSUME NEW p \in Projects, p \notin ps
      PROVE  ~OpenAt(c, p)
  BY <1>1, <1>5 DEF Releasable
<1> QED
  BY <1>3, <1>4, <1>5 DEF LinksOK

LEMMA CreateCustomerSound ==
  ASSUME PortfolioInv, NEW w \in Workers, NEW c \in Customers, NEW status \in CustomerStatuses,
         NEW ps \in SUBSET Projects, CreateCustomer(w, c, status, ps)
  PROVE  \E ls, ws : SoundBegin(w, ls, ws)
<1> DEFINE row == [NoCustomer EXCEPT !.status = status]
           ls == CustomerLock(c) \cup ProjectLocks(ps)
           ws == [CustomerWrite(c, row) EXCEPT !.link = Replaced(c, ps)]
<1>1. ws.customer = RowAt(c, row) /\ ws.project = <<>> /\ ws.link = Replaced(c, ps) /\ ws.task = <<>>
  BY FieldsOfWrites
<1>2. row \in CustomerRows /\ row.status # "absent" /\ ~row.archived
  BY DEF CustomerRows, CustomerStatuses, NoCustomer
<1>3. \A p \in Projects : link[<<c, p>>] = "absent"
  BY DEF CreateCustomer, PortfolioInv, TablesInv, Unlinked
<1>4. <<"customer", c>> \in ls
  BY NoneAssumption DEF CustomerLock
<1>5. Begin(w, ls, ws)
  BY DEF CreateCustomer
<1> HIDE DEF ws, ls, row
<1>7. c \in DOMAIN ws.customer /\ Releasable(c, ps)
      /\ \A p \in Projects : link[<<c, p>>] # "absent" => <<"link", c, p>> \in ls
  BY <1>1, <1>3 DEF Releasable, RowAt
<1>6. LinksOK(ls, ws)
  BY <1>1, <1>7, ReplacedLinks
<1> QED
  BY <1>1, <1>2, <1>4, <1>5, <1>6, SoundCustomerWrite DEF SoundBegin

LEMMA UpdateCustomerSound ==
  ASSUME PortfolioInv, NEW w \in Workers, NEW c \in Customers, NEW status \in CustomerStatuses,
         NEW ps \in SUBSET Projects, UpdateCustomer(w, c, status, ps)
  PROVE  \E ls, ws : SoundBegin(w, ls, ws)
<1> DEFINE row == [customer[c] EXCEPT !.status = status]
           ls == CustomerLock(c) \cup IF ps = {} THEN {} ELSE ProjectLocks(ps) \cup LinksRead(c)
           replaced == IF ps = {} THEN <<>> ELSE Replaced(c, ps)
           ws == [CustomerWrite(c, row) EXCEPT !.link = replaced]
<1>1. ws.customer = RowAt(c, row) /\ ws.project = <<>> /\ ws.link = replaced /\ ws.task = <<>>
  BY FieldsOfWrites
<1>2. row \in CustomerRows /\ row.status # "absent" /\ ~row.archived
  <2>1. customer[c] \in CustomerRows /\ ~customer[c].archived
    BY DEF PortfolioInv, TablesInv, PortfolioTypeOK, UpdateCustomer, Live
  <2> QED
    BY <2>1 DEF CustomerRows, CustomerStatuses
<1>3. <<"customer", c>> \in ls
  BY NoneAssumption DEF CustomerLock
<1>4. ps # {} => \A p \in Projects : link[<<c, p>>] # "absent" => <<"link", c, p>> \in ls
  BY DEF LinksRead, LinkLocks
<1>5. Begin(w, ls, ws) /\ (ps # {} => Releasable(c, ps))
  BY DEF UpdateCustomer
<1>6. ws.link = IF ps = {} THEN <<>> ELSE Replaced(c, ps)
  BY <1>1
<1> HIDE DEF ws, ls, row, replaced
<1>7. LinksOK(ls, ws)
  <2>1. CASE ps = {}
    BY <1>6, <2>1, NoRows DEF LinksOK
  <2>2. CASE ps # {}
    <3>1. c \in DOMAIN ws.customer /\ ws.link = Replaced(c, ps)
      BY <1>1, <1>6, <2>2 DEF RowAt
    <3>2. Releasable(c, ps) /\ \A p \in Projects : link[<<c, p>>] # "absent" => <<"link", c, p>> \in ls
      BY <1>4, <1>5, <2>2
    <3> QED
      BY <3>1, <3>2, ReplacedLinks
  <2> QED
    BY <2>1, <2>2
<1> QED
  BY <1>1, <1>2, <1>3, <1>5, <1>7, SoundCustomerWrite DEF SoundBegin

LEMMA ChangeCustomerLifecycleSound ==
  ASSUME PortfolioInv, NEW w \in Workers, NEW c \in Customers, NEW archive \in BOOLEAN,
         ChangeCustomerLifecycle(w, c, archive)
  PROVE  \E ls, ws : SoundBegin(w, ls, ws)
<1> DEFINE row == [customer[c] EXCEPT !.archived = archive]
           ls == CustomerLock(c)
           ws == CustomerWrite(c, row)
<1>1. ws.customer = RowAt(c, row) /\ ws.project = <<>> /\ ws.link = <<>> /\ ws.task = <<>>
  BY FieldsOfWrites
<1>2. row \in CustomerRows /\ row.status = "inactive"
  <2>1. customer[c] \in CustomerRows /\ customer[c].status = "inactive"
    BY DEF PortfolioInv, TablesInv, PortfolioTypeOK, ChangeCustomerLifecycle
  <2> QED
    BY <2>1 DEF CustomerRows
<1>3. <<"customer", c>> \in ls
  BY NoneAssumption DEF CustomerLock
<1>4. Begin(w, ls, ws)
  BY DEF ChangeCustomerLifecycle
<1> HIDE DEF ws, ls, row
<1>5. LinksOK(ls, ws)
  BY <1>1, NoRows DEF LinksOK
<1> QED
  BY <1>1, <1>2, <1>3, <1>4, <1>5, SoundCustomerWrite DEF SoundBegin

LEMMA ProjectRequestsSound ==
  ASSUME PortfolioInv, NEW w \in Workers, NEW p \in Projects,
         NEW row \in ProjectRows, row.status # "absent",
         row.archived => row.status = "closed" /\ ~ProjectInUse(p),
         Begin(w, ProjectLocks({p}), ProjectWrite(p, row))
  PROVE  \E ls, ws : SoundBegin(w, ls, ws)
<1>1. <<"project", p>> \in ProjectLocks({p})
  BY NoneAssumption DEF ProjectLocks
<1>2. row.archived => \A c \in Customers : ~OpenAt(c, p)
  BY DEF ProjectInUse, OpenAt
<1> QED
  BY <1>1, <1>2, SoundProjectWrite DEF SoundBegin

NewTask(c, p, status, left) ==
  [NoTask EXCEPT !.status = status, !.customer = c, !.project = p, !.left = left]

\* A task that is created refers to a customer and a project that are locked.
LEMMA CreatedTaskOK ==
  ASSUME PortfolioInv, NEW c \in Customers \cup {None}, NEW p \in Projects \cup {None},
         NEW status \in TaskStatuses, NEW left \in 0..MaxLeft, NewIds # {}, ReferencesHold(c, p),
         NEW ls, ReferenceLocks(c, p) \subseteq ls
  PROVE  TaskOK(ls, NewId, NewTask(c, p, status, left))
<1> PICK row : row = NewTask(c, p, status, left)
  OBVIOUS
<1>1. NewId \in Tasks /\ task[NewId] = NoTask
  BY NewIdIsNew DEF NewIds
<1>2. row = [status |-> status, archived |-> FALSE, customer |-> c, project |-> p, left |-> left,
             visit |-> FALSE, from |-> None]
  BY DEF NewTask, NoTask
<1>3. row.status = status /\ ~row.archived /\ row.from = None /\ row.customer = c /\ row.project = p
  BY <1>2
<1>6. row \in TaskRows
  <2>1. status \in TaskStatuses \cup {"absent"} /\ FALSE \in BOOLEAN /\ None \in Tasks \cup {None}
    OBVIOUS
  <2> QED
    BY <1>2, <2>1 DEF TaskRows
<1>7. row.status # "absent"
  BY <1>3 DEF TaskStatuses
<1>4. Referred(ls, c, p)
  BY DEF Referred
<1>5. c # None /\ p # None => LinkedBy(ls, c, p)
  BY DEF LinkedBy, ReferencesHold, ReferenceLocks
<1> QED
  BY <1>1, <1>3, <1>4, <1>5, <1>6, <1>7 DEF TaskOK, NeedsLink

LEMMA CreateTaskSound ==
  ASSUME PortfolioInv, NEW w \in Workers, NEW c \in Customers \cup {None},
         NEW p \in Projects \cup {None}, NEW status \in TaskStatuses, NEW left \in 0..MaxLeft,
         NEW locks, CreateTaskInTransaction(w, c, p, status, left, locks)
  PROVE  \E ls, ws : SoundBegin(w, ls, ws) /\ locks \subseteq ls /\ NewId \in NewIds
                     /\ ws.task = RowAt(NewId, NewTask(c, p, status, left))
<1> DEFINE row == NewTask(c, p, status, left)
           ls == locks \cup ReferenceLocks(c, p)
           ws == TaskWrite(NewId, row)
<1>1. ws.customer = <<>> /\ ws.project = <<>> /\ ws.link = <<>> /\ ws.task = RowAt(NewId, row)
  BY FieldsOfWrites
<1>2. NewIds # {} /\ ReferencesHold(c, p) /\ Begin(w, ls, ws)
  BY DEF CreateTaskInTransaction, NewTask
<1>3. ReferenceLocks(c, p) \subseteq ls /\ locks \subseteq ls
  OBVIOUS
<1>4. row = NewTask(c, p, status, left)
  OBVIOUS
<1> HIDE DEF ws, ls, row
<1>5. TaskOK(ls, NewId, row)
  BY <1>2, <1>3, <1>4, CreatedTaskOK
<1>6. /\ \A t \in DOMAIN RowAt(NewId, row) : t = NewId
      /\ RowAt(NewId, row)[NewId] = row
  BY DEF RowAt
<1>7. WritesOK(ls, ws)
  BY <1>1, <1>5, <1>6, SoundTaskWrites
<1>8. NewId \in NewIds
  BY <1>2, NewIdIsNew
<1>9. NewRowsFree(ws)
  BY <1>1, <1>6, <1>8 DEF NewIds, NewRowsFree
<1> QED
  BY <1>1, <1>2, <1>3, <1>4, <1>7, <1>8, <1>9 DEF SoundBegin

Edited(t, c, p, status, left) ==
  [task[t] EXCEPT !.customer = c, !.project = p, !.status = status, !.left = left]

\* A task that is edited is locked; so are its references, as far as they matter.
LEMMA UpdatedTaskOK ==
  ASSUME PortfolioInv, NEW t \in Tasks, Live(task[t]), NEW c \in Customers \cup {None},
         NEW p \in Projects \cup {None}, NEW status \in TaskStatuses, NEW left \in 0..MaxLeft,
         NEW after, after = Edited(t, c, p, status, left),
         NEW reassign \in BOOLEAN, NEW ls, <<"task", t>> \in ls,
         IF RechecksReferences(t, after, reassign) THEN ReferencesHold(c, p) ELSE StillLinked(t, after),
         RechecksReferences(t, after, reassign) => ReferenceLocks(c, p) \subseteq ls,
         status = "open" => PairLocks(c, p) \subseteq ls
  PROVE  TaskOK(ls, t, after)
<1>1. task[t] \in TaskRows /\ task[t].status # "absent" /\ ~task[t].archived
  BY DEF PortfolioInv, TablesInv, PortfolioTypeOK, Live
<1>2. /\ after \in TaskRows /\ after.status = status /\ after.status # "absent"
      /\ after.customer = c /\ after.project = p /\ ~after.archived /\ after.from = task[t].from
  BY <1>1 DEF Edited, TaskRows, TaskStatuses
<1>3. task[t] # NoTask
  BY <1>1 DEF NoTask
<1>4. Arrives(t, after) => Referred(ls, c, p)
  BY <1>1, <1>2, <1>3 DEF Arrives, Referred, RechecksReferences
<1>5. NeedsLink(after) => LinkedBy(ls, c, p)
  BY <1>2 DEF NeedsLink, LinkedBy, ReferencesHold, StillLinked
<1> QED
  BY <1>2, <1>3, <1>4, <1>5 DEF TaskOK

LEMMA SuccessorOK ==
  ASSUME PortfolioInv, NEW t \in Tasks, NEW after \in TaskRows, ~after.archived, after.left > 0,
         ~Generated(t), NewIds # {}, NEW ls, <<"task", t>> \in ls, NEW row, row = Successor(t, after)
  PROVE  TaskOK(ls, NewId, row) /\ row.from = t
<1>1. NewId \in Tasks /\ task[NewId] = NoTask
  BY NewIdIsNew DEF NewIds
<1>2. t # None
  BY NoneAssumption
<1>3. after.left - 1 \in 0..MaxLeft
  BY TasksAssumption DEF TaskRows
<1>4. row \in TaskRows /\ row.status = "open" /\ row.from = t /\ ~row.archived
  BY <1>3 DEF Successor, TaskRows, TaskStatuses
<1> QED
  BY <1>1, <1>2, <1>4 DEF TaskOK, Arrives, NeedsLink

LEMMA UpdateTaskSound ==
  ASSUME PortfolioInv, NEW w \in Workers, NEW t \in Tasks, NEW c \in Customers \cup {None},
         NEW p \in Projects \cup {None}, NEW status \in TaskStatuses, NEW left \in 0..MaxLeft,
         NEW reassign \in BOOLEAN, NEW after,
         after = Edited(t, c, p, status, left),
         UpdateTask(w, t, after, reassign)
  PROVE  \E ls, ws : SoundBegin(w, ls, ws)
<1> DEFINE ls == TaskLock(t)
                 \cup IF RechecksReferences(t, after, reassign) THEN ReferenceLocks(c, p)
                      ELSE IF after.status = "open" THEN PairLocks(c, p)
                      ELSE IF Generates(t, after) THEN CustomerLock(c) \cup ProjectLocks({p})
                      ELSE {}
           two == [u \in {t, NewId} |-> IF u = t THEN after ELSE Successor(t, after)]
           rows == IF Generates(t, after) THEN two ELSE RowAt(t, after)
           ws == IF Generates(t, after) THEN [Nothing EXCEPT !.task = two] ELSE TaskWrite(t, after)
<1>1. task[t] \in TaskRows /\ task[t].status # "absent" /\ ~task[t].archived
  BY DEF PortfolioInv, TablesInv, PortfolioTypeOK, UpdateTask, Live
<1>2. /\ after \in TaskRows /\ after.status = status /\ after.customer = c /\ after.project = p
      /\ ~after.archived /\ after.from = task[t].from
  BY <1>1 DEF Edited, TaskRows, TaskStatuses
<1>3. /\ Live(task[t]) /\ Begin(w, ls, ws)
      /\ IF RechecksReferences(t, after, reassign) THEN ReferencesHold(c, p) ELSE StillLinked(t, after)
      /\ Generates(t, after) => NewIds # {}
  BY <1>2 DEF UpdateTask
<1>4. /\ <<"task", t>> \in ls
      /\ RechecksReferences(t, after, reassign) => ReferenceLocks(c, p) \subseteq ls
      /\ status = "open" => PairLocks(c, p) \subseteq ls
  BY <1>2 DEF TaskLock, ReferenceLocks
<1>5. ws.customer = <<>> /\ ws.project = <<>> /\ ws.link = <<>> /\ ws.task = rows
  BY FieldsOfWrites
<1>6. Generates(t, after) => rows = two
  OBVIOUS
<1>7. ~Generates(t, after) => DOMAIN rows = {t} /\ rows[t] = after
  BY DEF RowAt
<1>8. DOMAIN two = {t, NewId} /\ two[t] = after /\ (NewId # t => two[NewId] = Successor(t, after))
  OBVIOUS
<1> HIDE DEF ls, two, rows, ws
<1>9. TaskOK(ls, t, after)
  BY <1>3, <1>4, UpdatedTaskOK
<1>10. task[t] # NoTask
  BY <1>1 DEF NoTask
<1>11. ASSUME Generates(t, after)
       PROVE  WritesOK(ls, ws) /\ NewRowsFree(ws)
  <2>1. NewId \in NewIds /\ NewIds # {}
    BY <1>3, <1>11, NewIdIsNew
  <2>2. NewId # t
    BY <1>10, <2>1 DEF NewIds
  <2>3. PICK row : row = Successor(t, after)
    OBVIOUS
  <2>4. after.left > 0 /\ ~Generated(t)
    BY <1>11 DEF Generates
  <2>5. TaskOK(ls, NewId, row) /\ row.from = t
    BY <1>2, <1>4, <2>1, <2>3, <2>4, SuccessorOK
  <2>6. DOMAIN rows = {t, NewId} /\ rows[t] = after /\ rows[NewId] = row
    BY <1>6, <1>8, <1>11, <2>2, <2>3
  <2>7. after.from # t
    BY <1>2, <2>4 DEF Generated
  <2>8. \A u \in DOMAIN rows : TaskOK(ls, u, rows[u])
    BY <1>9, <2>5, <2>6
  <2>11. \A u, v \in DOMAIN rows : rows[u].from = rows[v].from /\ rows[u].from # None => u = v
    <3>1. rows[t].from # t /\ rows[NewId].from = t
      BY <2>5, <2>6, <2>7
    <3>2. \A u \in DOMAIN rows : u = t \/ u = NewId
      BY <2>6
    <3> QED
      BY <3>1, <3>2
  <2>9. WritesOK(ls, ws)
    BY <1>5, <2>8, <2>11, SoundTaskWrites
  <2>10. NewRowsFree(ws)
    BY <1>5, <1>10, <2>1, <2>6 DEF NewRowsFree, NewIds
  <2> QED
    BY <2>9, <2>10
<1>12. ASSUME ~Generates(t, after)
       PROVE  WritesOK(ls, ws) /\ NewRowsFree(ws)
  <2>1. /\ \A u \in DOMAIN rows : TaskOK(ls, u, rows[u])
        /\ \A u, v \in DOMAIN rows : rows[u].from = rows[v].from /\ rows[u].from # None => u = v
    BY <1>7, <1>9, <1>12
  <2>2. WritesOK(ls, ws)
    BY <1>5, <2>1, SoundTaskWrites
  <2>3. NewRowsFree(ws)
    BY <1>5, <1>7, <1>10, <1>12 DEF NewRowsFree
  <2> QED
    BY <2>2, <2>3
<1> QED
  BY <1>3, <1>11, <1>12 DEF SoundBegin

LEMMA ChangeTaskLifecycleSound ==
  ASSUME PortfolioInv, NEW w \in Workers, NEW t \in Tasks, NEW archive \in BOOLEAN,
         ChangeTaskLifecycle(w, t, archive)
  PROVE  \E ls, ws : SoundBegin(w, ls, ws)
<1> DEFINE c == task[t].customer
           p == task[t].project
           row == [task[t] EXCEPT !.archived = archive]
           ls == TaskLock(t) \cup IF archive THEN {} ELSE ReferenceLocks(c, p)
           ws == TaskWrite(t, row)
<1>1. task[t] \in TaskRows
  BY DEF PortfolioInv, TablesInv, PortfolioTypeOK
<1>2. /\ row \in TaskRows /\ row.status = task[t].status /\ row.archived = archive
      /\ row.customer = c /\ row.project = p /\ row.from = task[t].from
  BY <1>1 DEF TaskRows
<1>3. task[t].status # "open" /\ task[t].status # "absent" /\ (~archive => ReferencesHold(c, p))
  <2>1. CASE archive
    BY <2>1 DEF ChangeTaskLifecycle, Live, IsOpen
  <2>2. CASE ~archive
    <3>1. task[t].archived /\ ReferencesHold(c, p)
      BY <2>2 DEF ChangeTaskLifecycle
    <3>2. task[t].status # "open"
      BY <3>1 DEF PortfolioInv, TablesInv, PortfolioTypeOK, IsOpen
    <3>3. task[t].status # "absent"
      BY <3>1 DEF PortfolioInv, TablesInv, Present, NoTask
    <3> QED
      BY <3>1, <3>2, <3>3
  <2> QED
    BY <2>1, <2>2
<1>4. <<"task", t>> \in ls /\ (~archive => ReferenceLocks(c, p) \subseteq ls)
  BY DEF TaskLock
<1>5. task[t] # NoTask
  BY <1>3 DEF NoTask
<1>6. Begin(w, ls, ws)
  BY DEF ChangeTaskLifecycle
<1>7. ws.customer = <<>> /\ ws.project = <<>> /\ ws.link = <<>> /\ ws.task = RowAt(t, row)
  BY FieldsOfWrites
<1>8. DOMAIN RowAt(t, row) = {t} /\ RowAt(t, row)[t] = row
  BY DEF RowAt
<1>9. Arrives(t, row) => Referred(ls, c, p)
  BY <1>2, <1>3, <1>4, <1>5 DEF Arrives, Referred
<1> HIDE DEF ls, ws, row, c, p
<1>10. TaskOK(ls, t, row)
  BY <1>2, <1>3, <1>4, <1>5, <1>9 DEF TaskOK, NeedsLink
<1>11. WritesOK(ls, ws)
  BY <1>7, <1>8, <1>10, SoundTaskWrites
<1>12. NewRowsFree(ws)
  BY <1>5, <1>7, <1>8 DEF NewRowsFree
<1> QED
  BY <1>6, <1>11, <1>12 DEF SoundBegin

LEMMA RequestsSound ==
  ASSUME PortfolioInv, NEW w \in Workers, Request(w)
  PROVE  \E ls, ws : SoundBegin(w, ls, ws)
<1>1. CASE CustomersApi(w)
  <2>1. AskedCustomerStatuses \subseteq CustomerStatuses
    BY DEF AskedCustomerStatuses, CustomerStatuses
  <2> QED
    BY <1>1, <2>1, CreateCustomerSound DEF CustomersApi
<1>2. CASE CustomerApi(w)
  <2>1. AskedCustomerStatuses \subseteq CustomerStatuses
    BY DEF AskedCustomerStatuses, CustomerStatuses
  <2> QED
    BY <1>2, <2>1, UpdateCustomerSound DEF CustomerApi
<1>3. CASE CustomerLifecycleApi(w)
  BY <1>3, ChangeCustomerLifecycleSound DEF CustomerLifecycleApi
<1>4. \A p \in Projects : project[p] \in ProjectRows
  BY DEF PortfolioInv, TablesInv, PortfolioTypeOK
<1>5. CASE ProjectsApi(w)
  <2>1. PICK p \in Projects, status \in AskedProjectStatuses : CreateProject(w, p, status)
    BY <1>5 DEF ProjectsApi
  <2>2. PICK row : row = [NoProject EXCEPT !.status = status]
    OBVIOUS
  <2>3. row \in ProjectRows /\ row.status # "absent" /\ ~row.archived
    BY <2>2 DEF NoProject, AskedProjectStatuses, ProjectRows, ProjectStatuses
  <2>4. Begin(w, ProjectLocks({p}), ProjectWrite(p, row))
    BY <2>1, <2>2 DEF CreateProject
  <2> QED
    BY <2>3, <2>4, ProjectRequestsSound
<1>6. CASE ProjectApi(w)
  <2>1. PICK p \in Projects, status \in AskedProjectStatuses : UpdateProject(w, p, status)
    BY <1>6 DEF ProjectApi
  <2>2. PICK row : row = [project[p] EXCEPT !.status = status]
    OBVIOUS
  <2>3. ~project[p].archived /\ Begin(w, ProjectLocks({p}), ProjectWrite(p, row))
    BY <2>1, <2>2 DEF UpdateProject, Live
  <2>4. row \in ProjectRows /\ row.status # "absent" /\ ~row.archived
    BY <1>4, <2>2, <2>3 DEF AskedProjectStatuses, ProjectRows, ProjectStatuses
  <2> QED
    BY <2>3, <2>4, ProjectRequestsSound
<1>7. CASE ProjectLifecycleApi(w)
  <2>1. PICK p \in Projects, archive \in BOOLEAN : ChangeProjectLifecycle(w, p, archive)
    BY <1>7 DEF ProjectLifecycleApi
  <2>2. PICK row : row = [project[p] EXCEPT !.archived = archive]
    OBVIOUS
  <2>3. Begin(w, ProjectLocks({p}), ProjectWrite(p, row))
    BY <2>1, <2>2 DEF ChangeProjectLifecycle
  <2>4. project[p].status = "closed" /\ (archive => ~ProjectInUse(p))
    BY <2>1 DEF ChangeProjectLifecycle, PortfolioInv, TablesInv, PortfolioTypeOK
  <2>5. row \in ProjectRows /\ row.status = "closed" /\ row.archived = archive
    BY <1>4, <2>2, <2>4 DEF ProjectRows
  <2> QED
    BY <2>3, <2>4, <2>5, ProjectRequestsSound
<1>8. AskedTaskStatuses \subseteq TaskStatuses /\ Lefts \subseteq 0..MaxLeft
  <2>1. 0 \in 0..MaxLeft
    BY TasksAssumption
  <2> QED
    BY <2>1 DEF AskedTaskStatuses, TaskStatuses, Lefts
<1>9. \A parents \in Parents : parents[1] \in Customers \cup {None} /\ parents[2] \in Projects \cup {None}
  BY DEF Parents
<1>10. CASE TasksApi(w)
  <2>1. PICK parents \in Parents, status \in AskedTaskStatuses, left \in Lefts :
          CreateTask(w, parents[1], parents[2], status, left)
    BY <1>10 DEF TasksApi
  <2>2. PICK c, p : c = parents[1] /\ p = parents[2]
    OBVIOUS
  <2>3. CreateTaskInTransaction(w, c, p, status, left, {})
    BY <2>1, <2>2 DEF CreateTask
  <2> QED
    BY <1>8, <1>9, <2>2, <2>3, CreateTaskSound
<1>11. CASE TaskApi(w)
  <2>1. PICK t \in Tasks, parents \in Parents, status \in AskedTaskStatuses, left \in Lefts,
             reassign \in BOOLEAN :
          UpdateTask(w, t, [task[t] EXCEPT !.customer = parents[1], !.project = parents[2],
                                           !.status = status, !.left = left], reassign)
    BY <1>11 DEF TaskApi
  <2>2. PICK c, p : c = parents[1] /\ p = parents[2]
    OBVIOUS
  <2>3. PICK after : after = Edited(t, c, p, status, left)
    OBVIOUS
  <2>4. UpdateTask(w, t, after, reassign)
    BY <2>1, <2>2, <2>3 DEF Edited
  <2>5. c \in Customers \cup {None} /\ p \in Projects \cup {None}
        /\ status \in TaskStatuses /\ left \in 0..MaxLeft
    BY <1>8, <1>9, <2>2
  <2> QED
    BY <2>3, <2>4, <2>5, UpdateTaskSound
<1>12. CASE TaskLifecycleApi(w)
  BY <1>12, ChangeTaskLifecycleSound DEF TaskLifecycleApi
<1> QED
  BY <1>1, <1>2, <1>3, <1>5, <1>6, <1>7, <1>10, <1>11, <1>12 DEF Request

-----------------------------------------------------------------------------
(* Transfers: the inductive invariant.  Whoever is about to write the      *)
(* analysis goes by what it is, because nobody else can have it locked.    *)

AnalysisRows == [received : BOOLEAN, requested : BOOLEAN, approved : BOOLEAN,
                 mapping : Mappings \cup {NoMapping}]
LinksTyped(ls) ==
  /\ ls \subseteq [step : Steps, task : Tasks, mapping : Mappings]
  /\ \A l, m \in ls : l.step = m.step \/ l.task = m.task => l = m

\* What a transaction will write follows from the analysis as it is now.
Follows(a, ls) ==
  /\ a \in AnalysisRows /\ LinksTyped(ls)
  /\ analysis.approved \/ links # {} => a.mapping = analysis.mapping
  /\ analysis.approved => a.approved
  /\ analysis.requested => a.requested
  /\ links \subseteq ls
  /\ \A l \in ls : l.mapping = a.mapping

\* The tasks of links are there, or written together with them.
TasksMade(ls, ws) == \A l \in ls : task[l.task] # NoTask \/ l.task \in DOMAIN ws.task

PendingOf(w) ==
  pending[w].on => /\ tx[w].on /\ <<"analysis">> \in tx[w].held
                   /\ Follows(pending[w].analysis, pending[w].links)
                   /\ TasksMade(pending[w].links, tx[w].writes)

IntakeInv ==
  /\ analysis \in AnalysisRows /\ LinksTyped(links)
  /\ \A l \in links : task[l.task] # NoTask
  /\ pending = [w \in Workers |-> pending[w]] /\ \A w \in Workers : PendingOf(w)
  /\ OneMapping

\* An import that is not over has steps left.
ImportPlans == [phase : {"none", "map", "steps"}, mapping : Mappings \cup {NoMapping}, steps : SUBSET Steps]
PlanOf(p) == p \in ImportPlans /\ (p.phase = "none" \/ p.steps # {})
PlanInv == plan = [w \in Workers |-> plan[w]] /\ \A w \in Workers : PlanOf(plan[w])

TransferInv == PortfolioInv /\ IntakeInv /\ PlanInv

-----------------------------------------------------------------------------
(* What steps do to the rows, the transactions and the imports.            *)

LEMMA NothingSound ==
  ASSUME NEW w \in Workers, NEW ls, Begin(w, ls, Nothing)
  PROVE  SoundBegin(w, ls, Nothing)
<1>1. /\ DOMAIN Nothing.customer = {} /\ DOMAIN Nothing.project = {}
      /\ DOMAIN Nothing.link = {} /\ DOMAIN Nothing.task = {}
  BY DEF Nothing
<1> QED
  BY <1>1 DEF SoundBegin, WritesOK, CustomersOK, ProjectsOK, LinksOK, TasksOK, NewRowsFree

LEMMA MappingParts ==
  ASSUME NEW m \in Mappings \cup {NoMapping}, ValidMapping(m)
  PROVE  m \in Mappings /\ m[1] \in Customers /\ m[2] \in Projects
BY DEF ValidMapping, Mappings

LEMMA NextStepIsLeft ==
  ASSUME PlanInv, NEW w \in Workers, plan[w].phase = "steps"
  PROVE  NextStep(w) \in plan[w].steps /\ NextStep(w) \in Steps
<1>1. plan[w].steps # {} /\ plan[w].steps \subseteq Steps
  BY DEF PlanInv, PlanOf, ImportPlans
<1>2. plan[w].steps \in SUBSET Nat
  BY <1>1, StepsAssumption
<1> QED
  BY <1>1, <1>2, LeastNatural DEF NextStep

\* The task of a step is made like any other, under the lock of the analysis.
LEMMA ImportStepSound ==
  ASSUME TransferInv, NEW w \in Workers, ImportStep(w)
  PROVE  \E ls, ws : /\ SoundBegin(w, ls, ws) /\ <<"analysis">> \in ls
                     /\ NewId \in NewIds /\ NewId \in DOMAIN ws.task
<1> PICK m : m = plan[w].mapping
  OBVIOUS
<1>1. ValidMapping(m) /\ CreateTaskInTransaction(w, m[1], m[2], "open", 0, AnalysisLock \cup MappingLocks(m))
  BY DEF ImportStep
<1>2. m \in Mappings \cup {NoMapping}
  BY DEF TransferInv, PlanInv, PlanOf, ImportPlans
<1>3. PICK c, p, locks : c = m[1] /\ p = m[2] /\ locks = AnalysisLock \cup MappingLocks(m)
  OBVIOUS
<1>4. c \in Customers \cup {None} /\ p \in Projects \cup {None}
  BY <1>1, <1>2, <1>3, MappingParts
<1>5. PICK status \in TaskStatuses, left \in 0..MaxLeft : status = "open" /\ left = 0
  BY TasksAssumption DEF TaskStatuses
<1>6. CreateTaskInTransaction(w, c, p, status, left, locks) /\ PortfolioInv
  BY <1>1, <1>3, <1>5 DEF TransferInv
<1>7. PICK ls, ws : SoundBegin(w, ls, ws) /\ locks \subseteq ls /\ NewId \in NewIds
                    /\ ws.task = RowAt(NewId, NewTask(c, p, status, left))
  BY <1>4, <1>5, <1>6, CreateTaskSound
<1> QED
  BY <1>3, <1>7 DEF AnalysisLock, RowAt

LEMMA TransferStepSound ==
  ASSUME TransferInv, NEW w \in Workers, TransferStep(w)
  PROVE  PortfolioStep(w) \/ UNCHANGED <<tables, tx>>
<1>1. CASE Request(w)
  BY <1>1, RequestsSound DEF TransferInv, PortfolioStep
<1>2. ASSUME NEW automatic \in BOOLEAN, ReceiveTransfer(w, automatic)
      PROVE  PortfolioStep(w)
  BY <1>2, NothingSound DEF ReceiveTransfer, PortfolioStep
<1>3. ASSUME NEW m, ApproveAutomaticTransfer(w, m)
      PROVE  PortfolioStep(w)
  BY <1>3, NothingSound DEF ApproveAutomaticTransfer, PortfolioStep
<1>4. ASSUME NEW m, NEW steps, ImportCommand(w, m, steps)
      PROVE  UNCHANGED <<tables, tx>>
  BY <1>4 DEF ImportCommand, portfolioVars, tables
<1>5. CASE ImportMapping(w)
  BY <1>5, NothingSound DEF ImportMapping, PortfolioStep, portfolioVars, tables
<1>6. CASE ImportStep(w)
  BY <1>6, ImportStepSound DEF PortfolioStep
<1>7. CASE SkipStep(w)
  BY <1>7 DEF SkipStep, portfolioVars, tables
<1>8. CASE TransferCommit(w)
  BY <1>8 DEF TransferCommit, PortfolioStep
<1>9. CASE TransferFail(w) \/ Stop(w)
  BY <1>9 DEF TransferFail, Fail, Stop, PortfolioStep, RolledBack
<1>10. CASE IntegrationApi(w)
  BY <1>2, <1>3, <1>4, <1>10 DEF IntegrationApi
<1>11. CASE SyncApi(w)
  BY <1>2, <1>4, <1>11 DEF SyncApi, AdvanceAutomaticTransfer
<1> QED
  BY <1>1, <1>5, <1>6, <1>7, <1>8, <1>9, <1>10, <1>11 DEF TransferStep

\* Imports.
LEMMA PlanChanged ==
  ASSUME PlanInv, NEW w \in Workers, NEW p, PlanOf(p), plan' = [plan EXCEPT ![w] = p]
  PROVE  PlanInv'
BY DEF PlanInv

LEMMA PlanUnchanged == PlanInv /\ UNCHANGED plan => PlanInv'
BY DEF PlanInv

LEMMA NoPlanOK == PlanOf(NoPlan)
BY DEF PlanOf, NoPlan, ImportPlans

LEMMA AfterStep ==
  ASSUME PlanInv, NEW w \in Workers, plan[w].phase = "steps", plan' = After(w)
  PROVE  PlanInv'
<1> PICK p : p = plan[w]
  OBVIOUS
<1>1. PlanOf(p) /\ p.phase = "steps" /\ NextStep(w) \in p.steps
  BY NextStepIsLeft DEF PlanInv
<1>2. CASE Cardinality(p.steps) = 1
  BY <1>2, NoPlanOK, PlanChanged DEF After
<1>3. CASE Cardinality(p.steps) # 1
  <2>1. PICK q : q = [p EXCEPT !.steps = p.steps \ {NextStep(w)}]
    OBVIOUS
  <2>2. plan' = [plan EXCEPT ![w] = q]
    BY <1>3, <2>1 DEF After
  <2>3. p.steps # {NextStep(w)}
    BY <1>3, FS_Singleton
  <2>4. PlanOf(q)
    BY <1>1, <2>1, <2>3 DEF PlanOf, ImportPlans
  <2> QED
    BY <2>2, <2>4, PlanChanged
<1> QED
  BY <1>2, <1>3

LEMMA FirstOfSome ==
  ASSUME NEW S \in SUBSET Nat, S # {}
  PROVE  FirstOf(S, Batch) # {}
<1>1. PICK s \in S : \A u \in S : s <= u
  BY LeastNatural
<1>2. {u \in S : u < s} = {}
  <2>1. ASSUME NEW u \in S
        PROVE  ~(u < s)
    <3>1. s <= u /\ s \in Nat /\ u \in Nat
      BY <1>1
    <3> QED
      BY <3>1
  <2> QED
    BY <2>1
<1>3. Cardinality({u \in S : u < s}) = 0
  BY <1>2, FS_EmptySet
<1>4. s \in FirstOf(S, Batch)
  BY <1>1, <1>3, StepsAssumption DEF FirstOf
<1> QED
  BY <1>4

LEMMA ImportCommandPlan ==
  ASSUME PlanInv, NEW w \in Workers, NEW m \in Mappings \cup {NoMapping},
         NEW steps \in SUBSET Steps, steps # {}, ImportCommand(w, m, steps)
  PROVE  PlanInv'
<1>1. PICK p : p = [phase |-> "map", mapping |-> m, steps |-> steps]
  OBVIOUS
<1>2. PlanOf(p)
  BY <1>1 DEF PlanOf, ImportPlans
<1> QED
  BY <1>1, <1>2, PlanChanged DEF ImportCommand

LEMMA PlanInvStep ==
  ASSUME TransferInv, NEW w \in Workers, TransferStep(w)
  PROVE  PlanInv'
<1>1. PlanInv
  BY DEF TransferInv
<1>2. CASE IntegrationApi(w)
  <2>1. ASSUME NEW m \in Mappings, NEW steps \in (SUBSET Steps) \ {{}}, ImportCommand(w, m, steps)
        PROVE  PlanInv'
    BY <1>1, <2>1, ImportCommandPlan
  <2> QED
    BY <1>1, <1>2, <2>1, PlanUnchanged DEF IntegrationApi, ReceiveTransfer, ApproveAutomaticTransfer
<1>3. CASE SyncApi(w)
  <2>1. CASE ReceiveTransfer(w, TRUE)
    BY <1>1, <2>1, PlanUnchanged DEF ReceiveTransfer
  <2>2. CASE AdvanceAutomaticTransfer(w)
    <3>1. PICK m, steps : m = ResolvedMapping /\ steps = FirstOf(Steps \ Linked, Batch)
      OBVIOUS
    <3>2. Steps \ Linked # {} /\ ImportCommand(w, m, steps)
      BY <2>2, <3>1 DEF AdvanceAutomaticTransfer
    <3>3. m \in Mappings \cup {NoMapping}
      BY <3>1 DEF ResolvedMapping, TransferInv, IntakeInv, AnalysisRows
    <3>4. Steps \ Linked \in SUBSET Nat
      BY StepsAssumption
    <3>5. steps # {} /\ steps \in SUBSET Steps
      BY <3>1, <3>2, <3>4, FirstOfSome DEF FirstOf
    <3> QED
      BY <1>1, <3>2, <3>3, <3>5, ImportCommandPlan
  <2> QED
    BY <1>3, <2>1, <2>2 DEF SyncApi
<1>4. CASE ImportMapping(w)
  BY <1>1, <1>4, NoPlanOK, PlanChanged, PlanUnchanged DEF ImportMapping
<1>5. CASE ImportStep(w)
  BY <1>1, <1>5, PlanUnchanged DEF ImportStep
<1>6. CASE SkipStep(w)
  BY <1>1, <1>6, AfterStep DEF SkipStep
<1>7. ASSUME NEW committed \in BOOLEAN, EndOf(w, committed)
      PROVE  PlanInv'
  <2>1. CASE plan[w].phase = "steps"
    BY <1>1, <1>7, <2>1, AfterStep DEF EndOf
  <2>2. CASE plan[w].phase = "map" /\ committed
    <3>1. PICK p : p = [plan[w] EXCEPT !.phase = "steps"]
      OBVIOUS
    <3>2. plan' = [plan EXCEPT ![w] = p]
      BY <1>7, <2>2, <3>1 DEF EndOf
    <3>3. PlanOf(p)
      BY <1>1, <2>2, <3>1 DEF PlanInv, PlanOf, ImportPlans
    <3> QED
      BY <1>1, <3>2, <3>3, PlanChanged
  <2>3. CASE plan[w].phase # "steps" /\ ~(plan[w].phase = "map" /\ committed)
    BY <1>1, <1>7, <2>3, NoPlanOK, PlanChanged DEF EndOf
  <2> QED
    BY <2>1, <2>2, <2>3
<1>8. CASE TransferCommit(w) \/ TransferFail(w)
  BY <1>7, <1>8 DEF TransferCommit, TransferFail
<1>9. CASE Stop(w)
  BY <1>1, <1>9, NoPlanOK, PlanChanged DEF Stop
<1> QED
  BY <1>1, <1>2, <1>3, <1>4, <1>5, <1>6, <1>8, <1>9, PlanUnchanged DEF TransferStep

\* The steps, told apart by what they do to the analysis and to what is pending.
Begins(w) ==
  /\ \E ls, ws : Begin(w, ls, ws)
  /\ UNCHANGED <<intake, pending>>
Writes(w, a, ks) ==
  /\ \E ls, ws : <<"analysis">> \in ls /\ TasksMade(ks, ws) /\ Begin(w, ls, ws)
  /\ Write(w, a, ks)
  /\ UNCHANGED intake
RollsBack(w) ==
  /\ tx' = [tx EXCEPT ![w] = Idle]
  /\ pending' = [pending EXCEPT ![w] = NoChange]
  /\ UNCHANGED <<intake, task>>
Quiet == UNCHANGED <<tx, task, intake, pending>>

\* A command may map an analysis that has no mapping to keep.
LEMMA MapFollows ==
  ASSUME IntakeInv, NEW m \in Mappings, MayMap(m), NEW a \in AnalysisRows, a.mapping = m,
         a.requested = analysis.requested, analysis.approved => a.approved
  PROVE  Follows(a, links)
BY DEF IntakeInv, OneMapping, Follows, MayMap

LEMMA OldTasksMade == ASSUME IntakeInv, NEW ws PROVE TasksMade(links, ws)
BY DEF IntakeInv, TasksMade

LEMMA ReceiveEffect ==
  ASSUME TransferInv, NEW w \in Workers, NEW automatic \in BOOLEAN, ReceiveTransfer(w, automatic)
  PROVE  \E a, ks : Follows(a, ks) /\ Writes(w, a, ks)
<1> PICK a : a = [analysis EXCEPT !.received = TRUE, !.requested = analysis.requested \/ automatic]
  OBVIOUS
<1>1. Follows(a, links)
  <2>1. analysis \in AnalysisRows
    BY DEF TransferInv, IntakeInv
  <2>2. a \in AnalysisRows /\ a.mapping = analysis.mapping /\ a.approved = analysis.approved
        /\ a.requested = (analysis.requested \/ automatic)
    BY <2>1 DEF AnalysisRows
  <2> QED
    BY <2>1, <2>2 DEF TransferInv, IntakeInv, OneMapping, Follows
<1>2. Writes(w, a, links)
  BY OldTasksMade DEF TransferInv, ReceiveTransfer, Writes, AnalysisLock
<1> QED
  BY <1>1, <1>2

LEMMA MapEffect ==
  ASSUME TransferInv, NEW w \in Workers, NEW m \in Mappings, MayMap(m), UNCHANGED intake,
         Begin(w, AnalysisLock \cup MappingLocks(m), Nothing), NEW approved \in BOOLEAN,
         analysis.approved => approved,
         NEW a, a = [analysis EXCEPT !.mapping = m, !.approved = approved], Write(w, a, links)
  PROVE  \E b, ks : Follows(b, ks) /\ Writes(w, b, ks)
<1>1. Writes(w, a, links)
  BY OldTasksMade DEF TransferInv, Writes, AnalysisLock
<1>2. Follows(a, links)
  <2>1. analysis \in AnalysisRows
    BY DEF TransferInv, IntakeInv
  <2>2. a \in AnalysisRows /\ a.mapping = m /\ a.requested = analysis.requested /\ a.approved = approved
    BY <2>1 DEF AnalysisRows
  <2> QED
    BY <2>2, MapFollows DEF TransferInv
<1> QED
  BY <1>1, <1>2

LEMMA ImportStepEffect ==
  ASSUME TransferInv, NEW w \in Workers, ImportStep(w)
  PROVE  \E a, ks : Follows(a, ks) /\ Writes(w, a, ks)
<1> PICK s, t, m : s = NextStep(w) /\ t = NewId /\ m = plan[w].mapping
  OBVIOUS
<1> PICK l : l = [step |-> s, task |-> t, mapping |-> m]
  OBVIOUS
<1> PICK ks : ks = links \cup {l}
  OBVIOUS
<1>1. PICK ls, ws : SoundBegin(w, ls, ws) /\ <<"analysis">> \in ls /\ t \in NewIds /\ t \in DOMAIN ws.task
  BY ImportStepSound
<1>2. plan[w].phase = "steps" /\ analysis.mapping = m /\ s \notin Linked /\ ValidMapping(m)
      /\ Write(w, analysis, ks) /\ UNCHANGED intake
  BY DEF ImportStep, StillMapped
<1>3. s \in Steps /\ m \in Mappings
  BY <1>2, NextStepIsLeft, MappingParts DEF TransferInv, PlanInv, PlanOf, ImportPlans
<1>4. t \in Tasks /\ task[t] = NoTask
  BY <1>1 DEF NewIds
<1>5. \A k \in links : k.step # s /\ k.task # t
  BY <1>2, <1>4 DEF Linked, TransferInv, IntakeInv
<1>6. LinksTyped(ks)
  <2>1. LinksTyped(links)
    BY DEF TransferInv, IntakeInv
  <2>2. l \in [step : Steps, task : Tasks, mapping : Mappings]
    BY <1>3, <1>4
  <2>3. ks \subseteq [step : Steps, task : Tasks, mapping : Mappings]
    BY <2>1, <2>2 DEF LinksTyped
  <2>4. ASSUME NEW j \in ks, NEW k \in ks, j.step = k.step \/ j.task = k.task
        PROVE  j = k
    BY <1>5, <2>1, <2>4 DEF LinksTyped
  <2> QED
    BY <2>3, <2>4 DEF LinksTyped
<1>7. Follows(analysis, ks)
  BY <1>2, <1>6 DEF TransferInv, IntakeInv, Follows, OneMapping
<1>8. TasksMade(ks, ws)
  BY <1>1 DEF TransferInv, IntakeInv, TasksMade
<1>9. Writes(w, analysis, ks)
  BY <1>1, <1>2, <1>8 DEF Writes, SoundBegin
<1> QED
  BY <1>7, <1>9

LEMMA StepEffect ==
  ASSUME TransferInv, NEW w \in Workers, TransferStep(w)
  PROVE  \/ Quiet \/ Begins(w) \/ RollsBack(w) \/ TransferCommit(w)
         \/ \E a, ks : Follows(a, ks) /\ Writes(w, a, ks)
<1>1. CASE Request(w) /\ UNCHANGED <<intake, pending, plan>>
  BY <1>1, RequestsSound DEF TransferInv, SoundBegin, Begins
<1>2. ASSUME NEW m \in Mappings, ApproveAutomaticTransfer(w, m)
      PROVE  \E a, ks : Follows(a, ks) /\ Writes(w, a, ks)
  <2>1. PICK a : a = [analysis EXCEPT !.mapping = m, !.approved = TRUE]
    OBVIOUS
  <2>2. MayMap(m) /\ UNCHANGED intake /\ Begin(w, AnalysisLock \cup MappingLocks(m), Nothing)
        /\ Write(w, a, links)
    BY <1>2, <2>1 DEF ApproveAutomaticTransfer
  <2> QED
    BY <2>1, <2>2, MapEffect
<1>3. CASE ImportMapping(w)
  <2>1. PICK m : m = plan[w].mapping
    OBVIOUS
  <2>2. CASE ValidMapping(m) /\ MayMap(m)
    <3>1. m \in Mappings
      BY <2>1, <2>2, MappingParts DEF TransferInv, PlanInv, PlanOf, ImportPlans
    <3>2. PICK approved : approved = analysis.approved
      OBVIOUS
    <3>3. PICK a : a = [analysis EXCEPT !.mapping = m, !.approved = approved]
      OBVIOUS
    <3>4. analysis \in AnalysisRows
      BY DEF TransferInv, IntakeInv
    <3>5. a = [analysis EXCEPT !.mapping = m] /\ approved \in BOOLEAN
      BY <3>2, <3>3, <3>4 DEF AnalysisRows
    <3>6. UNCHANGED intake /\ Begin(w, AnalysisLock \cup MappingLocks(m), Nothing) /\ Write(w, a, links)
      BY <1>3, <2>1, <2>2, <3>5 DEF ImportMapping
    <3> QED
      BY <2>2, <3>1, <3>2, <3>3, <3>5, <3>6, MapEffect
  <2>3. CASE ~(ValidMapping(m) /\ MayMap(m))
    BY <1>3, <2>1, <2>3 DEF ImportMapping, Quiet, portfolioVars
  <2> QED
    BY <2>2, <2>3
<1>4. ASSUME NEW m, NEW steps, ImportCommand(w, m, steps)
      PROVE  Quiet
  BY <1>4 DEF ImportCommand, Quiet, portfolioVars
<1>5. CASE SkipStep(w)
  BY <1>5 DEF SkipStep, Quiet, portfolioVars
<1>6. CASE TransferFail(w) \/ Stop(w)
  BY <1>6 DEF TransferFail, Fail, EndOf, Stop, RollsBack, tables
<1>7. CASE IntegrationApi(w)
  BY <1>2, <1>4, <1>7, ReceiveEffect DEF IntegrationApi
<1>8. CASE SyncApi(w)
  BY <1>4, <1>8, ReceiveEffect DEF SyncApi, AdvanceAutomaticTransfer
<1> QED
  BY <1>1, <1>3, <1>5, <1>6, <1>7, <1>8, ImportStepEffect DEF TransferStep

-----------------------------------------------------------------------------
(* Every step preserves the invariant.                                     *)

LEMMA PortfolioFrame ==
  ASSUME PortfolioInv, UNCHANGED <<tables, tx>>
  PROVE  PortfolioInv'
<1>1. TablesInv'
  BY TablesFrame DEF PortfolioInv
<1>2. ASSUME NEW v \in Workers
      PROVE  WritesOK(tx[v].held, tx[v].writes)'
  <2> PICK ls, ws : ls = tx[v].held /\ ws = tx[v].writes
    OBVIOUS
  <2>1. WritesOK(ls, ws)
    BY DEF PortfolioInv, TxInv
  <2>2. WritesOK(ls, ws)'
    BY <2>1, WritesFrame
  <2> QED
    BY <2>2
<1> QED
  BY <1>1, <1>2 DEF PortfolioInv, TxInv, LocksApart, NewRowsApart

\* A transaction that begins had nothing pending.
LEMMA BeginsAlone ==
  ASSUME TransferInv, NEW w \in Workers, NEW ls, NEW ws, Begin(w, ls, ws)
  PROVE  /\ ~pending[w].on /\ tx'[w].on /\ tx'[w].held = ls /\ tx'[w].writes = ws
         /\ \A v \in Workers \ {w} : tx'[v] = tx[v]
         /\ task' = task
<1>1. /\ ~tx[w].on /\ task' = task
      /\ tx' = [tx EXCEPT ![w] = [on |-> TRUE, held |-> ls, writes |-> ws]]
  BY DEF Begin, tables
<1>2. ~pending[w].on
  BY <1>1 DEF TransferInv, IntakeInv, PendingOf
<1>3. tx = [v \in Workers |-> tx[v]]
  BY DEF TransferInv, PortfolioInv, TxInv
<1> QED
  BY <1>1, <1>2, <1>3

LEMMA PendingFrame ==
  ASSUME NEW v, PendingOf(v), UNCHANGED <<analysis, links>>, pending'[v] = pending[v], tx'[v] = tx[v],
         \A t \in Tasks : task[t] # NoTask \/ t \in DOMAIN tx[v].writes.task =>
           task'[t] # NoTask \/ t \in DOMAIN tx[v].writes.task
  PROVE  PendingOf(v)'
<1> PICK a, ks, ws : a = pending[v].analysis /\ ks = pending[v].links /\ ws = tx[v].writes
  OBVIOUS
<1>1. CASE pending[v].on
  <2>1. tx[v].on /\ <<"analysis">> \in tx[v].held /\ Follows(a, ks) /\ TasksMade(ks, ws)
    BY <1>1 DEF PendingOf
  <2>2. Follows(a, ks)'
    BY <2>1 DEF Follows
  <2>3. \A l \in ks : l.task \in Tasks
    BY <2>1 DEF Follows, LinksTyped
  <2>4. TasksMade(ks, ws)'
    BY <2>1, <2>3 DEF TasksMade
  <2> QED
    BY <2>1, <2>2, <2>4 DEF PendingOf
<1>2. CASE ~pending[v].on
  BY <1>2 DEF PendingOf
<1> QED
  BY <1>1, <1>2

\* Tasks are never deleted.
LEMMA TasksStayMade ==
  ASSUME PortfolioInv, NEW w \in Workers, Commit(w), NEW t \in Tasks,
         task[t] # NoTask \/ t \in DOMAIN tx[w].writes.task
  PROVE  task'[t] # NoTask
<1> PICK ws : ws = tx[w].writes
  OBVIOUS
<1>1. task'[t] = IF t \in DOMAIN ws.task THEN ws.task[t] ELSE task[t]
  BY AfterCommit
<1>2. t \in DOMAIN ws.task => ws.task[t].status # "absent"
  BY DEF PortfolioInv, TxInv, WritesOK, TasksOK, TaskOK
<1>3. NoTask.status = "absent"
  BY DEF NoTask
<1> QED
  BY <1>1, <1>2, <1>3

LEMMA IntakeInvStep ==
  ASSUME TransferInv, NEW w \in Workers, TransferStep(w)
  PROVE  IntakeInv'
<1>1. IntakeInv /\ tx = [v \in Workers |-> tx[v]]
  BY DEF TransferInv, PortfolioInv, TxInv
<1>2. ASSUME UNCHANGED <<analysis, links>>, pending' = [v \in Workers |-> pending'[v]],
             \A t \in Tasks : task[t] # NoTask => task'[t] # NoTask,
             \A v \in Workers : PendingOf(v)'
      PROVE  IntakeInv'
  BY <1>1, <1>2 DEF IntakeInv, LinksTyped, OneMapping
<1>3. CASE Quiet
  <2>1. \A v \in Workers : PendingOf(v)'
    BY <1>1, <1>3 DEF Quiet, intake, IntakeInv, PendingOf, Follows, TasksMade
  <2> QED
    BY <1>1, <1>2, <1>3, <2>1 DEF Quiet, intake, IntakeInv
<1>4. CASE Begins(w)
  <2> PICK ls, ws : Begin(w, ls, ws)
    BY <1>4 DEF Begins
  <2>1. UNCHANGED <<analysis, links, pending>>
    BY <1>4 DEF Begins, intake
  <2>2. /\ ~pending[w].on /\ task' = task
        /\ \A v \in Workers \ {w} : tx'[v] = tx[v]
    BY BeginsAlone
  <2>3. \A v \in Workers \ {w} : PendingOf(v)'
    BY <1>1, <2>1, <2>2, PendingFrame DEF IntakeInv
  <2>4. PendingOf(w)'
    BY <2>1, <2>2 DEF PendingOf
  <2> QED
    BY <1>1, <1>2, <2>1, <2>2, <2>3, <2>4 DEF IntakeInv
<1>5. ASSUME NEW a, NEW ks, Follows(a, ks), Writes(w, a, ks)
      PROVE  IntakeInv'
  <2> PICK ls, ws : <<"analysis">> \in ls /\ TasksMade(ks, ws) /\ Begin(w, ls, ws)
    BY <1>5 DEF Writes
  <2>1. /\ UNCHANGED <<analysis, links>>
        /\ pending' = [pending EXCEPT ![w] = [analysis |-> a, links |-> ks, on |-> TRUE]]
    BY <1>5 DEF Writes, Write, intake
  <2>2. /\ pending' = [v \in Workers |-> pending'[v]]
        /\ pending'[w].analysis = a /\ pending'[w].links = ks
        /\ \A v \in Workers \ {w} : pending'[v] = pending[v]
    BY <1>1, <2>1 DEF IntakeInv
  <2>3. /\ tx'[w].on /\ tx'[w].held = ls /\ tx'[w].writes = ws /\ task' = task
        /\ \A v \in Workers \ {w} : tx'[v] = tx[v]
    BY BeginsAlone
  <2>4. \A v \in Workers \ {w} : PendingOf(v)'
    BY <1>1, <2>1, <2>2, <2>3, PendingFrame DEF IntakeInv
  <2>5. Follows(a, ks)' /\ TasksMade(ks, ws)'
    BY <1>5, <2>1, <2>3 DEF Follows, TasksMade
  <2>6. PendingOf(w)'
    BY <2>2, <2>3, <2>5 DEF PendingOf
  <2> QED
    BY <1>2, <2>1, <2>2, <2>3, <2>4, <2>6
<1>6. ASSUME tx' = [tx EXCEPT ![w] = Idle], pending' = [pending EXCEPT ![w] = NoChange]
      PROVE  /\ pending' = [v \in Workers |-> pending'[v]] /\ ~pending'[w].on
             /\ \A v \in Workers \ {w} : tx'[v] = tx[v] /\ pending'[v] = pending[v]
  BY <1>1, <1>6 DEF IntakeInv, NoChange
<1>7. CASE RollsBack(w)
  <2>1. UNCHANGED <<analysis, links, task>> /\ tx' = [tx EXCEPT ![w] = Idle]
        /\ pending' = [pending EXCEPT ![w] = NoChange]
    BY <1>7 DEF RollsBack, intake
  <2>2. \A v \in Workers \ {w} : PendingOf(v)'
    BY <1>1, <1>6, <2>1, PendingFrame DEF IntakeInv
  <2>3. PendingOf(w)'
    BY <1>6, <2>1 DEF PendingOf
  <2> QED
    BY <1>2, <1>6, <2>1, <2>2, <2>3
<1>8. CASE TransferCommit(w)
  <2>1. /\ Commit(w) /\ tx' = [tx EXCEPT ![w] = Idle] /\ pending' = [pending EXCEPT ![w] = NoChange]
        /\ analysis' = IF pending[w].on THEN pending[w].analysis ELSE analysis
        /\ links' = IF pending[w].on THEN pending[w].links ELSE links
    BY <1>8 DEF TransferCommit, Commit, EndOf
  <2>2. \A t \in Tasks : task[t] # NoTask \/ t \in DOMAIN tx[w].writes.task => task'[t] # NoTask
    BY <2>1, TasksStayMade DEF TransferInv
  <2>3. PendingOf(w)'
    BY <1>6, <2>1 DEF PendingOf
  <2>4. CASE ~pending[w].on
    <3>1. \A v \in Workers \ {w} : PendingOf(v)'
      BY <1>1, <1>6, <2>1, <2>2, <2>4, PendingFrame DEF IntakeInv
    <3> QED
      BY <1>2, <1>6, <2>1, <2>2, <2>3, <2>4, <3>1
  <2>5. CASE pending[w].on
    <3> PICK a, ks, ws : a = pending[w].analysis /\ ks = pending[w].links /\ ws = tx[w].writes
      OBVIOUS
    <3>1. <<"analysis">> \in tx[w].held /\ Follows(a, ks) /\ TasksMade(ks, ws)
      BY <1>1, <2>5 DEF IntakeInv, PendingOf
    <3>2. analysis' = a /\ links' = ks
      BY <2>1, <2>5
    <3>3. \A v \in Workers \ {w} : ~pending'[v].on
      BY <1>1, <1>6, <2>1, <3>1 DEF TransferInv, PortfolioInv, TxInv, LocksApart, IntakeInv, PendingOf
    <3>4. \A v \in Workers : PendingOf(v)'
      BY <2>3, <3>3 DEF PendingOf
    <3>5. \A l \in ks : task'[l.task] # NoTask
      BY <2>2, <3>1 DEF TasksMade, Follows, LinksTyped
    <3>6. a \in AnalysisRows /\ LinksTyped(ks) /\ \A l \in ks : l.mapping = a.mapping
      BY <3>1 DEF Follows
    <3>7. AnalysisRows' = AnalysisRows
      BY DEF AnalysisRows
    <3>8. LinksTyped(links)' /\ OneMapping'
      BY <3>2, <3>6 DEF LinksTyped, OneMapping
    <3> QED
      BY <1>6, <2>1, <3>2, <3>4, <3>5, <3>6, <3>7, <3>8 DEF IntakeInv
  <2> QED
    BY <2>4, <2>5
<1> QED
  BY <1>3, <1>4, <1>5, <1>7, <1>8, StepEffect

LEMMA PortfolioStarts == Init => PortfolioInv
<1> SUFFICES ASSUME Init
             PROVE  PortfolioInv
  OBVIOUS
<1>1. /\ customer = [c \in Customers |-> NoCustomer] /\ project = [p \in Projects |-> NoProject]
      /\ link = [x \in Customers \X Projects |-> "absent"] /\ task = [t \in Tasks |-> NoTask]
      /\ tx = [w \in Workers |-> Idle]
  BY DEF Init
<1>2. NoCustomer \in CustomerRows /\ NoProject \in ProjectRows
  BY DEF NoCustomer, NoProject, CustomerRows, ProjectRows
<1>3. NoTask \in TaskRows
  <2>1. 0 \in 0..MaxLeft
    BY TasksAssumption
  <2> QED
    BY <2>1 DEF NoTask, TaskRows
<1>4. PortfolioTypeOK
  BY <1>1, <1>2, <1>3 DEF PortfolioTypeOK, NoCustomer, NoProject, NoTask
<1>5. TablesInv
  BY <1>1, <1>4 DEF TablesInv, Unlinked, Present, RequestedWorkLinked, IsOpen, NoTask
<1>6. Idle.held = {} /\ WritesOK(Idle.held, Idle.writes) /\ DOMAIN Idle.writes.task = {}
  <2>1. /\ DOMAIN Idle.writes.task = {} /\ DOMAIN Idle.writes.customer = {}
        /\ DOMAIN Idle.writes.project = {} /\ DOMAIN Idle.writes.link = {} /\ Idle.held = {}
    BY DEF Idle, Nothing
  <2> QED
    BY <2>1 DEF WritesOK, CustomersOK, ProjectsOK, LinksOK, TasksOK
<1> QED
  BY <1>1, <1>5, <1>6 DEF PortfolioInv, TxInv, LocksApart, NewRowsApart

LEMMA TransferInvHolds == TransferSpec => []TransferInv
<1>1. TransferInit => TransferInv
  <2> SUFFICES ASSUME TransferInit
               PROVE  TransferInv
    OBVIOUS
  <2>1. /\ analysis = NoAnalysis /\ links = {}
        /\ pending = [w \in Workers |-> NoChange] /\ plan = [w \in Workers |-> NoPlan]
    BY DEF TransferInit
  <2>7. PortfolioInv
    BY PortfolioStarts DEF TransferInit
  <2>8. IntakeInv
    BY <2>1 DEF IntakeInv, AnalysisRows, NoAnalysis, LinksTyped, PendingOf, NoChange, OneMapping
  <2>9. PlanInv
    BY <2>1, NoPlanOK DEF PlanInv
  <2> QED
    BY <2>7, <2>8, <2>9 DEF TransferInv
<1>2. TransferInv /\ [TransferNext]_transferVars => TransferInv'
  <2> SUFFICES ASSUME TransferInv, [TransferNext]_transferVars
               PROVE  TransferInv'
    OBVIOUS
  <2>1. CASE TransferNext
    <3> PICK w \in Workers : TransferStep(w)
      BY <2>1 DEF TransferNext
    <3>1. PortfolioInv'
      BY TransferStepSound, PortfolioStepKeeps, PortfolioFrame DEF TransferInv
    <3> QED
      BY <3>1, IntakeInvStep, PlanInvStep DEF TransferInv
  <2>2. CASE UNCHANGED transferVars
    <3>1. UNCHANGED <<tables, tx, task, analysis, links, pending, plan>>
      BY <2>2 DEF transferVars, portfolioVars, tables
    <3>2. PortfolioInv'
      BY <3>1, PortfolioFrame DEF TransferInv
    <3>3. \A v \in Workers : PendingOf(v)'
      BY <3>1 DEF TransferInv, IntakeInv, PendingOf, Follows, TasksMade
    <3>4. IntakeInv'
      BY <3>1, <3>3 DEF TransferInv, IntakeInv, LinksTyped, OneMapping
    <3> QED
      BY <3>1, <3>2, <3>4, PlanUnchanged DEF TransferInv
  <2> QED
    BY <2>1, <2>2
<1> QED
  BY <1>1, <1>2, PTL DEF TransferSpec

-----------------------------------------------------------------------------
(* The theorems.                                                           *)

\* The rows of customers, projects, tasks and transfers are of their types, an open task
\* that a request made has an active link to a project that is not archived, and an
\* analysis and its tasks are of one mapping, for any requests, transfers and failures.
THEOREM PortfolioSoundHolds == TransferSpec => []PortfolioSound
<1>1. TransferInv => PortfolioSound
  BY DEF TransferInv, PortfolioInv, TablesInv, IntakeInv, AnalysisRows, LinksTyped, PortfolioSound, TypeOK
<1> QED
  BY <1>1, TransferInvHolds, PTL

\* Whenever a task that a request made is created, restored or moved, its customer and
\* its project are in use, and linked, at the moment this takes effect
\* (assertTaskReferences, assertAvailableParents, and the rows they lock).
THEOREM AttachedToLivingHolds == TransferSpec => AttachedToLiving
<1> DEFINE A == \A t \in Tasks :
                  /\ task'[t].from = None
                  /\ \/ task[t] = NoTask /\ task'[t] # NoTask
                     \/ task[t].archived /\ ~task'[t].archived
                     \/ task[t] # NoTask /\ <<task[t].customer, task[t].project>> #
                                            <<task'[t].customer, task'[t].project>>
                  => Attached(t)'
<1>1. TransferInv /\ [TransferNext]_transferVars => [A]_portfolioVars
  <2> SUFFICES ASSUME TransferInv, [TransferNext]_transferVars, NEW t \in Tasks,
                      task'[t].from = None, task'[t] # task[t],
                      \/ task[t] = NoTask /\ task'[t] # NoTask
                      \/ task[t].archived /\ ~task'[t].archived
                      \/ task[t] # NoTask /\ <<task[t].customer, task[t].project>> #
                                             <<task'[t].customer, task'[t].project>>
               PROVE  Attached(t)'
    OBVIOUS
  <2>1. PICK w \in Workers : TransferStep(w)
    BY DEF TransferNext, transferVars, portfolioVars
  <2>2. Commit(w)
    BY <2>1, TransferStepSound DEF PortfolioStep, SoundBegin, Begin, RolledBack, tables
  <2>3. PICK ws, held : ws = tx[w].writes /\ held = tx[w].held
    OBVIOUS
  <2>4. WritesOK(held, ws) /\ PortfolioInv
    BY <2>3 DEF TransferInv, PortfolioInv, TxInv
  <2>5. /\ \A c \in Customers : customer'[c] = IF c \in DOMAIN ws.customer THEN ws.customer[c] ELSE customer[c]
        /\ \A p \in Projects : project'[p] = IF p \in DOMAIN ws.project THEN ws.project[p] ELSE project[p]
        /\ \A x \in Customers \X Projects : link'[x] = IF x \in DOMAIN ws.link THEN ws.link[x] ELSE link[x]
        /\ \A u \in Tasks : task'[u] = IF u \in DOMAIN ws.task THEN ws.task[u] ELSE task[u]
    BY <2>2, <2>3, <2>4, AfterCommit
  <2>6. t \in DOMAIN ws.task /\ task'[t] = ws.task[t]
    BY <2>5
  <2>7. TaskOK(held, t, ws.task[t]) /\ DOMAIN ws.customer = {} /\ DOMAIN ws.project = {} /\ DOMAIN ws.link = {}
    BY <2>4, <2>6 DEF WritesOK, TasksOK
  <2>8. PICK c, p : c = task'[t].customer /\ p = task'[t].project
    OBVIOUS
  <2>9. Arrives(t, ws.task[t])
    BY <2>6 DEF Arrives
  <2>10. ReferencesHold(c, p) /\ c \in Customers \cup {None} /\ p \in Projects \cup {None}
    BY <2>6, <2>7, <2>8, <2>9 DEF TaskOK, Referred, TaskRows
  <2>11. /\ c # None => customer'[c] = customer[c]
         /\ p # None => project'[p] = project[p]
         /\ c # None /\ p # None => link'[<<c, p>>] = link[<<c, p>>]
    BY <2>5, <2>7, <2>10
  <2>12. ReferencesHold(c, p)'
    BY <2>10, <2>11 DEF ReferencesHold, ActiveLink, OpenProject, Live
  <2> QED
    BY <2>8, <2>12 DEF Attached
<1> QED
  BY <1>1, TransferInvHolds, PTL DEF TransferSpec, AttachedToLiving

\* All tasks of an analysis were made for one customer and one project, those it is
\* mapped to (saveAnalysisMapping, createTaskForStep).
THEOREM OneMappingHolds == TransferSpec => []OneMapping
<1>1. TransferInv => OneMapping
  BY DEF TransferInv, IntakeInv
<1> QED
  BY <1>1, TransferInvHolds, PTL

\* Once it is approved or has a task, an analysis keeps its mapping; no approval and
\* no link is ever lost, however deliveries, approvals and imports overlap.
THEOREM MappingKeptHolds == TransferSpec => MappingKept
<1> DEFINE Kept == /\ analysis.approved \/ links # {} => analysis'.mapping = analysis.mapping
                   /\ analysis.approved => analysis'.approved
                   /\ analysis.requested => analysis'.requested
                   /\ links \subseteq links'
<1>1. TransferInv /\ [TransferNext]_transferVars => [Kept]_transferVars
  <2> SUFFICES ASSUME TransferInv, NEW w \in Workers, TransferStep(w)
               PROVE  Kept
    BY DEF TransferNext
  <2>1. CASE UNCHANGED intake
    BY <2>1 DEF intake
  <2>2. CASE TransferCommit(w)
    <3>1. CASE pending[w].on
      BY <2>2, <3>1 DEF TransferCommit, TransferInv, IntakeInv, PendingOf, Follows
    <3>2. CASE ~pending[w].on
      BY <2>2, <3>2 DEF TransferCommit
    <3> QED
      BY <3>1, <3>2
  <2> QED
    BY <2>1, <2>2, StepEffect DEF Quiet, Begins, RollsBack, Writes
<1> QED
  BY <1>1, TransferInvHolds, PTL DEF TransferSpec, MappingKept

-----------------------------------------------------------------------------
(* Contracts: the inductive invariant.  Every writer of a contract, its    *)
(* visits and its bills holds the lock of the contract, and whoever opens  *)
(* a contract that of the customer, or of the link and the project.        *)

ContractRows == [status : {"draft", "active", "closed"}, archived : BOOLEAN,
                 customer : Customers, project : Projects, from : Days, to : Days]
VisitRows == [status : {"absent", "planned", "makeup", "completed", "cancelled"},
              contract : ContractIds \cup {None}, day : Days \cup {0}, delivered : Days \cup {0}]
BillRows == [status : {"absent", "outstanding", "settled", "voided"},
             customer : Customers \cup {None}, project : Projects \cup {None}]
NoBills(k) == \A m \in Months : bill[<<k, m>>] = NoBill

\* What is known of the writes ch to these tables by a transaction with the locks ls
\* and the writes ws to the tables of Portfolio.
ContractOK(ls, k, row) ==
  /\ k \in ContractIds /\ row \in ContractRows /\ row.from <= row.to
  /\ <<"contract", k>> \in ls /\ <<"customer", row.customer>> \in ls
  /\ contract[k] # NoContract => row.customer = contract[k].customer
  /\ row.archived => row.status = "closed" /\ \A v \in VisitsOf(k) : ~Editable(v)
  /\ PeriodFree(row, {k}) /\ StartFree(row, {k}) /\ VisitsInside(k, row)
  /\ NoBills(k) \/ row.project = contract[k].project
  /\ row.status # "closed" =>
       LinkedBy(ls, row.customer, row.project) \/ (Unclosed(k) /\ row.project = contract[k].project)

ContractsOK(ls, ws, ch) ==
  /\ \A k \in DOMAIN ch.contract : ContractOK(ls, k, ch.contract[k])
  /\ \A k, l \in DOMAIN ch.contract : k = l
  /\ DOMAIN ch.contract # {} => /\ DOMAIN ch.visit = {} /\ DOMAIN ch.bill = {} /\ DOMAIN ch.item = {}
                                /\ DOMAIN ws.link = {} /\ DOMAIN ws.project = {} /\ DOMAIN ws.task = {}

Unclaimed(ws) ==
  /\ \A c \in Customers, p \in Projects :
       <<c, p>> \in DOMAIN ws.link /\ ws.link[<<c, p>>] # "active" => ~Claimed(c, p)
  /\ \A c \in Customers : \A p \in DOMAIN ws.project : ws.project[p].archived => ~Claimed(c, p)

\* vs: the visits that the transaction writes.
VisitOK(ls, vs, v, row) ==
  /\ v \in VisitIds /\ row \in VisitRows
  /\ visit[v] # NoVisit => <<"contract", visit[v].contract>> \in ls
  /\ visit[v].status \in {"completed", "cancelled"} => row = visit[v]
  /\ row.status = "absent" => row = NoVisit
  /\ row # NoVisit =>
       /\ row.contract \in ContractIds /\ <<"contract", row.contract>> \in ls
       /\ contract[row.contract].status = "active"
       /\ row.day \in contract[row.contract].from..contract[row.contract].to
       /\ (row.status = "completed") = (row.delivered # 0)
       /\ visit[v] # NoVisit => row.contract = visit[v].contract
       /\ \A u \in VisitsOf(row.contract) \ vs : visit[u].day # row.day

VisitsOK(ls, ch) ==
  /\ \A v \in DOMAIN ch.visit : VisitOK(ls, DOMAIN ch.visit, v, ch.visit[v])
  /\ \A u, v \in DOMAIN ch.visit :
       u # v /\ ch.visit[u] # NoVisit /\ ch.visit[u].contract = ch.visit[v].contract =>
         ch.visit[u].day # ch.visit[v].day

BillOK(ls, b, row) ==
  /\ b \in Bills /\ <<"bill", b>> \in ls /\ row \in BillRows /\ row.status # "absent"
  /\ bill[b] # NoBill => row.customer = bill[b].customer /\ row.project = bill[b].project
  /\ bill[b] = NoBill => \A k \in ContractIds, m \in Months : b = <<k, m>> =>
       /\ <<"contract", k>> \in ls /\ contract[k].status = "active"
       /\ row.customer = contract[k].customer /\ row.project = contract[k].project

BillsOK(ls, ch) == \A b \in DOMAIN ch.bill : BillOK(ls, b, ch.bill[b])

\* A new task of a visit comes with the visit; what else is written to tasks leaves
\* those of visits as they are.
ItemsOK(ls, ws, ch) ==
  /\ \A t \in DOMAIN ch.item :
       LET v == ch.item[t] IN
       /\ t \in DOMAIN ws.task /\ task[t] = NoTask
       /\ v \in DOMAIN ch.visit /\ ch.visit[v].status = "completed"
       /\ ws.task[t].visit /\ ws.task[t].status = "done"
       /\ ws.task[t].customer = contract[ch.visit[v].contract].customer
  /\ \A t \in DOMAIN ws.task : t \notin DOMAIN ch.item =>
       /\ ws.task[t].visit = task[t].visit
       /\ task[t].visit => ws.task[t].status = task[t].status /\ ws.task[t].customer = task[t].customer

OwnOK(ls, ws, ch) == /\ ContractsOK(ls, ws, ch) /\ Unclaimed(ws) /\ VisitsOK(ls, ch)
                     /\ BillsOK(ls, ch) /\ ItemsOK(ls, ws, ch)

\* What the tables say.
ContractsShaped ==
  /\ contract = [k \in ContractIds |-> contract[k]]
  /\ visit \in [VisitIds -> VisitRows] /\ bill \in [Bills -> BillRows]
  /\ item \in [Tasks -> VisitIds \cup {None}]
  /\ \A k \in ContractIds : contract[k] # NoContract =>
       /\ contract[k] \in ContractRows /\ contract[k].from <= contract[k].to
       /\ contract[k].archived => contract[k].status = "closed"
       /\ StartFree(contract[k], {k})
VisitsOwned == \A v \in VisitIds : visit[v] # NoVisit =>
  /\ visit[v].status # "absent"
  /\ visit[v].contract \in ContractIds /\ contract[visit[v].contract] # NoContract
Billed == \A k \in ContractIds : NoBills(k) \/ contract[k] # NoContract

OwnTables == /\ ContractsShaped /\ VisitsOwned /\ Billed /\ UnclosedContractsSound /\ VisitsFit
             /\ WorkDelivered /\ BilledAsContracted

VisitsApart == \A v, w \in Workers :
  v # w => DOMAIN ownWrites[v].visit \cap DOMAIN ownWrites[w].visit = {}
OwnTx == /\ ownWrites = [w \in Workers |-> ownWrites[w]] /\ VisitsApart
         /\ \A w \in Workers : ~tx[w].on => ownWrites[w] = NoOwnWrites
         /\ \A w \in Workers : OwnOK(tx[w].held, tx[w].writes, ownWrites[w])

ContractsInv == PortfolioInv /\ OwnTables /\ OwnTx

-----------------------------------------------------------------------------
(* Contracts: what a commit leaves as it is.                               *)

LEMMA AfterOwnCommit ==
  ASSUME ContractsInv, NEW v \in Workers, ContractsCommit(v), NEW ch, ch = ownWrites[v]
  PROVE  /\ \A k \in ContractIds : contract'[k] = IF k \in DOMAIN ch.contract THEN ch.contract[k] ELSE contract[k]
         /\ \A u \in VisitIds : visit'[u] = IF u \in DOMAIN ch.visit THEN ch.visit[u] ELSE visit[u]
         /\ \A b \in Bills : bill'[b] = IF b \in DOMAIN ch.bill THEN ch.bill[b] ELSE bill[b]
         /\ \A t \in Tasks : item'[t] = IF t \in DOMAIN ch.item THEN ch.item[t] ELSE item[t]
         /\ Commit(v)
<1>1. ContractsShaped
  BY DEF ContractsInv, OwnTables
<1>2. DOMAIN contract = ContractIds /\ DOMAIN visit = VisitIds /\ DOMAIN bill = Bills /\ DOMAIN item = Tasks
  BY <1>1 DEF ContractsShaped
<1> QED
  BY <1>2 DEF ContractsCommit, Written

\* Nobody else changes a contract, or what belongs to it, that somebody has locked,
\* nor gives a customer contracts that somebody has locked.
LEMMA OwnLockedStay ==
  ASSUME ContractsInv, NEW v \in Workers, ContractsCommit(v), NEW ls, ls \cap tx[v].held = {}
  PROVE  /\ \A k \in ContractIds : <<"contract", k>> \in ls =>
              /\ contract'[k] = contract[k]
              /\ VisitsOf(k)' = VisitsOf(k) /\ \A u \in VisitsOf(k) : visit'[u] = visit[u]
              /\ NoBills(k)' = NoBills(k)
         /\ \A b \in Bills : <<"bill", b>> \in ls => bill'[b] = bill[b]
         /\ \A k \in ContractIds, c \in Customers : <<"customer", c>> \in ls =>
              contract'[k] = contract[k] \/ (contract'[k].customer # c)
<1> PICK ch, ws, held : ch = ownWrites[v] /\ ws = tx[v].writes /\ held = tx[v].held
  OBVIOUS
<1>1. OwnOK(held, ws, ch) /\ ls \cap held = {}
  BY DEF ContractsInv, OwnTx
<1>2. /\ \A k \in ContractIds : contract'[k] = IF k \in DOMAIN ch.contract THEN ch.contract[k] ELSE contract[k]
      /\ \A u \in VisitIds : visit'[u] = IF u \in DOMAIN ch.visit THEN ch.visit[u] ELSE visit[u]
      /\ \A b \in Bills : bill'[b] = IF b \in DOMAIN ch.bill THEN ch.bill[b] ELSE bill[b]
  BY AfterOwnCommit
<1>3. ASSUME NEW k \in ContractIds, <<"contract", k>> \in ls
      PROVE  contract'[k] = contract[k]
  BY <1>1, <1>2, <1>3 DEF OwnOK, ContractsOK, ContractOK
<1>4. ASSUME NEW k \in ContractIds, <<"contract", k>> \in ls, NEW u \in VisitIds,
             visit[u].contract = k \/ visit'[u].contract = k
      PROVE  visit'[u] = visit[u]
  <2> SUFFICES ASSUME u \in DOMAIN ch.visit
               PROVE  FALSE
    BY <1>2
  <2>1. VisitOK(held, DOMAIN ch.visit, u, ch.visit[u]) /\ visit'[u] = ch.visit[u]
    BY <1>1, <1>2 DEF OwnOK, VisitsOK
  <2>2. NoVisit.contract = None /\ k # None
    BY IdsAssumption DEF NoVisit
  <2> QED
    BY <1>1, <1>4, <2>1, <2>2 DEF VisitOK
<1>5. ASSUME NEW k \in ContractIds, <<"contract", k>> \in ls
      PROVE  VisitsOf(k)' = VisitsOf(k) /\ \A u \in VisitsOf(k) : visit'[u] = visit[u]
  BY <1>4, <1>5 DEF VisitsOf
<1>6. ASSUME NEW k \in ContractIds, <<"contract", k>> \in ls, NEW m \in Months
      PROVE  (bill'[<<k, m>>] = NoBill) = (bill[<<k, m>>] = NoBill)
  <2>1. <<k, m>> \in Bills
    BY DEF Bills
  <2>2. CASE <<k, m>> \notin DOMAIN ch.bill
    BY <1>2, <2>1, <2>2
  <2>3. CASE <<k, m>> \in DOMAIN ch.bill
    <3>1. BillOK(held, <<k, m>>, ch.bill[<<k, m>>])
      BY <1>1, <2>3 DEF OwnOK, BillsOK
    <3>2. bill[<<k, m>>] # NoBill
      BY <1>1, <1>6, <3>1 DEF BillOK
    <3>3. bill'[<<k, m>>].status # "absent"
      BY <1>2, <2>1, <2>3, <3>1 DEF BillOK
    <3> QED
      BY <3>2, <3>3 DEF NoBill
  <2> QED
    BY <2>2, <2>3
<1>7. ASSUME NEW k \in ContractIds, <<"contract", k>> \in ls
      PROVE  NoBills(k)' = NoBills(k)
  BY <1>6, <1>7 DEF NoBills
<1>8. \A b \in Bills : <<"bill", b>> \in ls => bill'[b] = bill[b]
  BY <1>1, <1>2 DEF OwnOK, BillsOK, BillOK
<1>9. ASSUME NEW k \in ContractIds, NEW c \in Customers, <<"customer", c>> \in ls
      PROVE  contract'[k] = contract[k] \/ contract'[k].customer # c
  <2> SUFFICES ASSUME k \in DOMAIN ch.contract
               PROVE  contract'[k].customer # c
    BY <1>2
  <2>1. ContractOK(held, k, ch.contract[k]) /\ contract'[k] = ch.contract[k]
    BY <1>1, <1>2 DEF OwnOK, ContractsOK
  <2>2. <<"customer", contract'[k].customer>> \in held
    BY <2>1 DEF ContractOK
  <2>3. \A x : x \in ls => x \notin held
    BY <1>1
  <2> QED
    BY <1>9, <2>2, <2>3
<1> QED
  BY <1>3, <1>5, <1>7, <1>8, <1>9

LEMMA ContractStays ==
  ASSUME ContractsInv, NEW v \in Workers, ContractsCommit(v), NEW ls, ls \cap tx[v].held = {},
         NEW k, NEW row, ContractOK(ls, k, row)
  PROVE  ContractOK(ls, k, row)'
<1>1. /\ k \in ContractIds /\ row \in ContractRows /\ row.from <= row.to
      /\ <<"contract", k>> \in ls /\ <<"customer", row.customer>> \in ls
      /\ contract[k] # NoContract => row.customer = contract[k].customer
      /\ row.archived => row.status = "closed" /\ \A u \in VisitsOf(k) : ~Editable(u)
      /\ PeriodFree(row, {k}) /\ StartFree(row, {k}) /\ VisitsInside(k, row)
      /\ NoBills(k) \/ row.project = contract[k].project
      /\ row.status # "closed" =>
           LinkedBy(ls, row.customer, row.project) \/ (Unclosed(k) /\ row.project = contract[k].project)
  BY DEF ContractOK
<1>2. row.customer \in Customers /\ row.project \in Projects
  BY <1>1 DEF ContractRows
<1>3. /\ contract'[k] = contract[k] /\ VisitsOf(k)' = VisitsOf(k)
      /\ \A u \in VisitsOf(k) : visit'[u] = visit[u]
      /\ NoBills(k)' = NoBills(k)
  BY <1>1, OwnLockedStay
<1>4. \A l \in ContractIds : contract'[l] = contract[l] \/ contract'[l].customer # row.customer
  BY <1>1, <1>2, OwnLockedStay
<1>5. PeriodFree(row, {k})'
  BY <1>1, <1>4 DEF PeriodFree, Overlap, Unclosed
<1>6. StartFree(row, {k})'
  BY <1>1, <1>4 DEF StartFree
<1>7. VisitsInside(k, row)'
  BY <1>1, <1>3 DEF VisitsInside
<1>8. row.archived => \A u \in VisitsOf(k)' : ~Editable(u)'
  BY <1>1, <1>3 DEF Editable
<1>9. LinkedBy(ls, row.customer, row.project) => LinkedBy(ls, row.customer, row.project)'
  BY <1>2, AfterOwnCommit, LinkedStays DEF ContractsInv
<1>10. Unclosed(k)' = Unclosed(k)
  BY <1>3 DEF Unclosed
<1> QED
  BY <1>1, <1>3, <1>5, <1>6, <1>7, <1>8, <1>9, <1>10 DEF ContractOK

\* Nobody claims a link or a project that is about to go.
LEMMA UnclaimedStays ==
  ASSUME ContractsInv, NEW v \in Workers, ContractsCommit(v), NEW ls, ls \cap tx[v].held = {},
         NEW ws, WritesOK(ls, ws), Unclaimed(ws)
  PROVE  Unclaimed(ws)'
<1> PICK ch, vs, held : ch = ownWrites[v] /\ vs = tx[v].writes /\ held = tx[v].held
  OBVIOUS
<1>1. OwnOK(held, vs, ch) /\ ls \cap held = {}
  BY DEF ContractsInv, OwnTx
<1>2. \A k \in ContractIds : contract'[k] = IF k \in DOMAIN ch.contract THEN ch.contract[k] ELSE contract[k]
  BY AfterOwnCommit
<1>3. ASSUME NEW c \in Customers, NEW p \in Projects, Claimed(c, p)', ~Claimed(c, p)
      PROVE  <<"customer", c>> \in held /\ <<"project", p>> \in held
  <2> PICK k \in ContractIds : Unclosed(k)' /\ contract'[k].customer = c /\ contract'[k].project = p
    BY <1>3 DEF Claimed
  <2>1. k \in DOMAIN ch.contract /\ contract'[k] = ch.contract[k]
    BY <1>2, <1>3 DEF Claimed, Unclosed
  <2>2. ContractOK(held, k, ch.contract[k]) /\ ch.contract[k].status # "closed"
    BY <1>1, <2>1 DEF OwnOK, ContractsOK, Unclosed
  <2>3. Unclosed(k) => contract[k] # NoContract
    BY DEF Unclosed, NoContract
  <2>4. ~(Unclosed(k) /\ p = contract[k].project)
    BY <1>3, <2>1, <2>2, <2>3 DEF ContractOK, Claimed
  <2>5. LinkedBy(held, c, p)
    BY <2>1, <2>2, <2>4 DEF ContractOK
  <2>6. <<"project", p>> \in held
    BY <2>5, NoneAssumption DEF LinkedBy, PairLocks, ProjectLocks
  <2> QED
    BY <2>1, <2>2, <2>6 DEF ContractOK
<1>4. ASSUME NEW c \in Customers, NEW p \in Projects, <<c, p>> \in DOMAIN ws.link, ws.link[<<c, p>>] # "active"
      PROVE  ~Claimed(c, p)'
  <2>1. <<"customer", c>> \in ls
    BY <1>4 DEF WritesOK, LinksOK, CustomersOK
  <2>2. ~Claimed(c, p)
    BY <1>4 DEF Unclaimed
  <2> QED
    BY <1>1, <1>3, <2>1, <2>2
<1>5. ASSUME NEW c \in Customers, NEW p \in DOMAIN ws.project, ws.project[p].archived
      PROVE  ~Claimed(c, p)'
  <2>1. p \in Projects /\ <<"project", p>> \in ls
    BY DEF WritesOK, ProjectsOK
  <2>2. ~Claimed(c, p)
    BY <1>5 DEF Unclaimed
  <2> QED
    BY <1>1, <1>3, <2>1, <2>2
<1> QED
  BY <1>4, <1>5 DEF Unclaimed

LEMMA VisitStays ==
  ASSUME ContractsInv, NEW v \in Workers, ContractsCommit(v), NEW ls, ls \cap tx[v].held = {},
         NEW vs, NEW u, NEW row, u \notin DOMAIN ownWrites[v].visit, VisitOK(ls, vs, u, row)
  PROVE  VisitOK(ls, vs, u, row)'
<1>1. /\ u \in VisitIds /\ row \in VisitRows
      /\ visit[u] # NoVisit => <<"contract", visit[u].contract>> \in ls
      /\ visit[u].status \in {"completed", "cancelled"} => row = visit[u]
      /\ row.status = "absent" => row = NoVisit
  BY DEF VisitOK
<1>2. visit'[u] = visit[u]
  BY <1>1, AfterOwnCommit
<1>3. ASSUME row # NoVisit
      PROVE  /\ row.contract \in ContractIds /\ <<"contract", row.contract>> \in ls
             /\ contract'[row.contract] = contract[row.contract]
             /\ VisitsOf(row.contract)' = VisitsOf(row.contract)
             /\ \A x \in VisitsOf(row.contract) : visit'[x] = visit[x]
  <2>1. row.contract \in ContractIds /\ <<"contract", row.contract>> \in ls
    BY <1>3 DEF VisitOK
  <2> QED
    BY <2>1, OwnLockedStay
<1>4. row # NoVisit =>
        /\ row.contract \in ContractIds /\ <<"contract", row.contract>> \in ls
        /\ contract[row.contract].status = "active"
        /\ row.day \in contract[row.contract].from..contract[row.contract].to
        /\ (row.status = "completed") = (row.delivered # 0)
        /\ visit[u] # NoVisit => row.contract = visit[u].contract
        /\ \A x \in VisitsOf(row.contract) \ vs : visit[x].day # row.day
  BY DEF VisitOK
<1>5. row # NoVisit =>
        /\ contract'[row.contract].status = "active"
        /\ row.day \in contract'[row.contract].from..contract'[row.contract].to
        /\ \A x \in VisitsOf(row.contract)' \ vs : visit'[x].day # row.day
  BY <1>3, <1>4
<1> QED
  BY <1>1, <1>2, <1>4, <1>5 DEF VisitOK

LEMMA BillStays ==
  ASSUME ContractsInv, NEW v \in Workers, ContractsCommit(v), NEW ls, ls \cap tx[v].held = {},
         NEW b, NEW row, BillOK(ls, b, row)
  PROVE  BillOK(ls, b, row)'
<1>1. bill'[b] = bill[b]
  BY OwnLockedStay DEF BillOK
<1>2. ASSUME NEW k \in ContractIds, <<"contract", k>> \in ls
      PROVE  contract'[k] = contract[k]
  BY <1>2, OwnLockedStay
<1> QED
  BY <1>1, <1>2 DEF BillOK

LEMMA OwnStay ==
  ASSUME ContractsInv, NEW v \in Workers, ContractsCommit(v), NEW ls, ls \cap tx[v].held = {},
         NEW ws, WritesOK(ls, ws), \A t \in DOMAIN ws.task : t \notin DOMAIN tx[v].writes.task,
         NEW ch, OwnOK(ls, ws, ch), \A u \in DOMAIN ch.visit : u \notin DOMAIN ownWrites[v].visit
  PROVE  OwnOK(ls, ws, ch)'
<1>1. ContractsOK(ls, ws, ch)'
  BY ContractStays DEF OwnOK, ContractsOK
<1>2. Unclaimed(ws)'
  BY UnclaimedStays DEF OwnOK
<1>3. VisitsOK(ls, ch)'
  <2>1. \A u \in DOMAIN ch.visit : VisitOK(ls, DOMAIN ch.visit, u, ch.visit[u])'
    BY VisitStays DEF OwnOK, VisitsOK
  <2> QED
    BY <2>1 DEF OwnOK, VisitsOK
<1>4. BillsOK(ls, ch)'
  BY BillStays DEF OwnOK, BillsOK
<1>5. ASSUME NEW t \in DOMAIN ws.task
      PROVE  task'[t] = task[t]
  <2>1. t \in Tasks /\ t \notin DOMAIN tx[v].writes.task
    BY DEF WritesOK, TasksOK, TaskOK
  <2>2. Commit(v) /\ PortfolioInv
    BY DEF ContractsCommit, ContractsInv
  <2> QED
    BY <2>1, <2>2, AfterCommit
<1>6. ASSUME NEW t \in DOMAIN ch.item
      PROVE  contract'[ch.visit[ch.item[t]].contract] = contract[ch.visit[ch.item[t]].contract]
  <2>1. PICK u : u = ch.item[t]
    OBVIOUS
  <2>2. u \in DOMAIN ch.visit /\ ch.visit[u].status = "completed"
    BY <2>1 DEF OwnOK, ItemsOK
  <2>3. VisitOK(ls, DOMAIN ch.visit, u, ch.visit[u]) /\ ch.visit[u] # NoVisit
    BY <2>2 DEF OwnOK, VisitsOK, NoVisit
  <2>4. ch.visit[u].contract \in ContractIds /\ <<"contract", ch.visit[u].contract>> \in ls
    BY <2>3 DEF VisitOK
  <2> QED
    BY <2>1, <2>4, OwnLockedStay
<1>7. ItemsOK(ls, ws, ch)'
  BY <1>5, <1>6 DEF OwnOK, ItemsOK
<1> QED
  BY <1>1, <1>2, <1>3, <1>4, <1>7 DEF OwnOK

-----------------------------------------------------------------------------
(* Contracts: the tables after a commit.                                   *)

\* What a commit does to the contracts, their visits and their bills, one by one.
LEMMA OwnCommitParts ==
  ASSUME ContractsInv, NEW w \in Workers, ContractsCommit(w), NEW ch, ch = ownWrites[w]
  PROVE  /\ \A k, l \in DOMAIN ch.contract : k = l
         /\ DOMAIN ch.visit # {} \/ DOMAIN ch.bill # {} \/ DOMAIN ch.item # {} =>
              \A k \in ContractIds : contract'[k] = contract[k]
         /\ \A k \in ContractIds : contract[k] # NoContract =>
              contract'[k] # NoContract /\ contract'[k].customer = contract[k].customer
         /\ \A v \in VisitIds : visit[v].status \in {"completed", "cancelled"} => visit'[v] = visit[v]
<1>1. OwnOK(tx[w].held, tx[w].writes, ch)
  BY DEF ContractsInv, OwnTx
<1>2. /\ \A k \in ContractIds : contract'[k] = IF k \in DOMAIN ch.contract THEN ch.contract[k] ELSE contract[k]
      /\ \A u \in VisitIds : visit'[u] = IF u \in DOMAIN ch.visit THEN ch.visit[u] ELSE visit[u]
  BY AfterOwnCommit
<1>3. \A k, l \in DOMAIN ch.contract : k = l
  BY <1>1 DEF OwnOK, ContractsOK
<1>4. ASSUME DOMAIN ch.visit # {} \/ DOMAIN ch.bill # {} \/ DOMAIN ch.item # {}
      PROVE  \A k \in ContractIds : contract'[k] = contract[k]
  BY <1>1, <1>2, <1>4 DEF OwnOK, ContractsOK
<1>5. ASSUME NEW k \in ContractIds, contract[k] # NoContract
      PROVE  contract'[k] # NoContract /\ contract'[k].customer = contract[k].customer
  <2> SUFFICES ASSUME k \in DOMAIN ch.contract
               PROVE  contract'[k] # NoContract /\ contract'[k].customer = contract[k].customer
    BY <1>2, <1>5
  <2>1. ContractOK(tx[w].held, k, ch.contract[k]) /\ contract'[k] = ch.contract[k]
    BY <1>1, <1>2 DEF OwnOK, ContractsOK
  <2>2. contract'[k].status # "absent"
    BY <2>1 DEF ContractOK, ContractRows
  <2> QED
    BY <1>5, <2>1, <2>2 DEF ContractOK, NoContract
<1>6. ASSUME NEW v \in VisitIds, visit[v].status \in {"completed", "cancelled"}
      PROVE  visit'[v] = visit[v]
  <2>1. v \in DOMAIN ch.visit => VisitOK(tx[w].held, DOMAIN ch.visit, v, ch.visit[v])
    BY <1>1 DEF OwnOK, VisitsOK
  <2> QED
    BY <1>2, <1>6, <2>1 DEF VisitOK
<1> QED
  BY <1>3, <1>4, <1>5, <1>6

LEMMA CommitShapes ==
  ASSUME ContractsInv, NEW w \in Workers, ContractsCommit(w)
  PROVE  ContractsShaped'
<1> PICK ch, held, ws : ch = ownWrites[w] /\ held = tx[w].held /\ ws = tx[w].writes
  OBVIOUS
<1>1. OwnOK(held, ws, ch) /\ ContractsShaped
  BY DEF ContractsInv, OwnTx, OwnTables
<1>2. /\ contract' = Written(contract, ch.contract) /\ visit' = Written(visit, ch.visit)
      /\ bill' = Written(bill, ch.bill) /\ item' = Written(item, ch.item)
  BY DEF ContractsCommit
<1>3. \A k \in ContractIds : contract'[k] = IF k \in DOMAIN ch.contract THEN ch.contract[k] ELSE contract[k]
  BY AfterOwnCommit
<1>4. contract' = [k \in ContractIds |-> contract'[k]]
  <2>1. DOMAIN contract = ContractIds
    BY <1>1 DEF ContractsShaped
  <2> QED
    BY <1>2, <2>1 DEF Written
<1>5. visit' \in [VisitIds -> VisitRows]
  <2>1. \A v \in DOMAIN ch.visit : ch.visit[v] \in VisitRows
    BY <1>1 DEF OwnOK, VisitsOK, VisitOK
  <2> QED
    BY <1>1, <1>2, <2>1 DEF ContractsShaped, Written
<1>6. bill' \in [Bills -> BillRows]
  <2>1. \A b \in DOMAIN ch.bill : ch.bill[b] \in BillRows
    BY <1>1 DEF OwnOK, BillsOK, BillOK
  <2> QED
    BY <1>1, <1>2, <2>1 DEF ContractsShaped, Written
<1>7. item' \in [Tasks -> VisitIds \cup {None}]
  <2>1. \A t \in DOMAIN ch.item : ch.item[t] \in VisitIds
    BY <1>1 DEF OwnOK, ItemsOK, VisitsOK, VisitOK
  <2> QED
    BY <1>1, <1>2, <2>1 DEF ContractsShaped, Written
<1>8. ASSUME NEW k \in ContractIds, contract'[k] # NoContract
      PROVE  /\ contract'[k] \in ContractRows /\ contract'[k].from <= contract'[k].to
             /\ contract'[k].archived => contract'[k].status = "closed"
             /\ StartFree(contract[k], {k})'
  <2>1. CASE k \in DOMAIN ch.contract
    <3>1. ContractOK(held, k, ch.contract[k]) /\ contract'[k] = ch.contract[k]
      BY <1>1, <1>3, <2>1 DEF OwnOK, ContractsOK
    <3>2. \A l \in ContractIds \ {k} : contract'[l] = contract[l]
      BY <1>1, <1>3, <2>1 DEF OwnOK, ContractsOK
    <3> QED
      BY <3>1, <3>2 DEF ContractOK, StartFree
  <2>2. CASE k \notin DOMAIN ch.contract
    <3>1. contract'[k] = contract[k] /\ contract[k] # NoContract
      BY <1>3, <1>8, <2>2
    <3>2. ASSUME NEW l \in ContractIds \ {k}, l \in DOMAIN ch.contract
          PROVE  contract'[l] = ch.contract[l] /\ StartFree(ch.contract[l], {l})
      BY <1>1, <1>3, <3>2 DEF OwnOK, ContractsOK, ContractOK
    <3>3. ASSUME NEW l \in ContractIds \ {k}, contract'[l] # NoContract,
                 contract'[l].customer = contract[k].customer,
                 contract'[l].project = contract[k].project, contract'[l].from = contract[k].from
          PROVE  FALSE
      <4>1. CASE l \in DOMAIN ch.contract
        BY <3>1, <3>2, <3>3, <4>1 DEF StartFree
      <4>2. CASE l \notin DOMAIN ch.contract
        BY <1>1, <1>3, <3>1, <3>3, <4>2 DEF ContractsShaped, StartFree
      <4> QED
        BY <4>1, <4>2
    <3>4. StartFree(contract[k], {k})'
      BY <3>1, <3>3 DEF StartFree
    <3> QED
      BY <1>1, <3>1, <3>4 DEF ContractsShaped
  <2> QED
    BY <2>1, <2>2
<1> QED
  BY <1>4, <1>5, <1>6, <1>7, <1>8 DEF ContractsShaped

LEMMA CommitOwned ==
  ASSUME ContractsInv, NEW w \in Workers, ContractsCommit(w)
  PROVE  VisitsOwned' /\ Billed' /\ BilledAsContracted'
<1> PICK ch, held, ws : ch = ownWrites[w] /\ held = tx[w].held /\ ws = tx[w].writes
  OBVIOUS
<1>1. OwnOK(held, ws, ch) /\ VisitsOwned /\ Billed /\ BilledAsContracted
  BY DEF ContractsInv, OwnTx, OwnTables
<1>2. /\ \A k \in ContractIds : contract'[k] = IF k \in DOMAIN ch.contract THEN ch.contract[k] ELSE contract[k]
      /\ \A u \in VisitIds : visit'[u] = IF u \in DOMAIN ch.visit THEN ch.visit[u] ELSE visit[u]
      /\ \A b \in Bills : bill'[b] = IF b \in DOMAIN ch.bill THEN ch.bill[b] ELSE bill[b]
  BY AfterOwnCommit
<1>3. /\ DOMAIN ch.visit # {} \/ DOMAIN ch.bill # {} \/ DOMAIN ch.item # {} =>
           \A k \in ContractIds : contract'[k] = contract[k]
      /\ \A k \in ContractIds : contract[k] # NoContract =>
           contract'[k] # NoContract /\ contract'[k].customer = contract[k].customer
  BY OwnCommitParts
<1>4. ASSUME NEW v \in VisitIds, visit'[v] # NoVisit
      PROVE  /\ visit'[v].status # "absent"
             /\ visit'[v].contract \in ContractIds /\ contract'[visit'[v].contract] # NoContract
  <2>1. CASE v \in DOMAIN ch.visit
    <3>1. VisitOK(held, DOMAIN ch.visit, v, ch.visit[v]) /\ visit'[v] = ch.visit[v]
      BY <1>1, <1>2, <2>1 DEF OwnOK, VisitsOK
    <3>2. \A k \in ContractIds : contract'[k] = contract[k]
      BY <1>3, <2>1
    <3>3. NoContract.status # "active"
      BY DEF NoContract
    <3> QED
      BY <1>4, <3>1, <3>2, <3>3 DEF VisitOK
  <2>2. CASE v \notin DOMAIN ch.visit
    BY <1>1, <1>2, <1>3, <1>4, <2>2 DEF VisitsOwned
  <2> QED
    BY <2>1, <2>2
<1>5. ASSUME NEW k \in ContractIds, NEW m \in Months, bill'[<<k, m>>] # NoBill
      PROVE  /\ contract'[k] # NoContract
             /\ bill'[<<k, m>>].customer = contract'[k].customer
             /\ bill'[<<k, m>>].project = contract'[k].project
  <2> PICK b \in Bills : b = <<k, m>>
    BY DEF Bills
  <2>1. ASSUME bill[b] # NoBill
        PROVE  /\ contract[k] # NoContract /\ bill[b].customer = contract[k].customer
               /\ bill[b].project = contract[k].project
    <3>1. b \in BillsOf(k)
      BY DEF BillsOf
    <3> QED
      BY <1>1, <2>1, <3>1 DEF Billed, NoBills, BilledAsContracted
  <2>2. CASE b \in DOMAIN ch.bill
    <3>1. BillOK(held, b, ch.bill[b]) /\ bill'[b] = ch.bill[b]
      BY <1>1, <1>2, <2>2 DEF OwnOK, BillsOK
    <3>2. contract'[k] = contract[k]
      BY <1>3, <2>2
    <3>3. NoContract.status # "active"
      BY DEF NoContract
    <3> QED
      BY <2>1, <3>1, <3>2, <3>3 DEF BillOK
  <2>3. CASE b \notin DOMAIN ch.bill
    <3>1. bill'[b] = bill[b] /\ bill[b] # NoBill
      BY <1>2, <1>5, <2>3
    <3>2. contract'[k] # NoContract /\ contract'[k].customer = contract[k].customer
      BY <1>3, <2>1, <3>1
    <3>3. contract'[k].project = contract[k].project
      <4> SUFFICES ASSUME k \in DOMAIN ch.contract
                   PROVE  contract'[k].project = contract[k].project
        BY <1>2
      <4>1. ContractOK(held, k, ch.contract[k]) /\ contract'[k] = ch.contract[k]
        BY <1>1, <1>2 DEF OwnOK, ContractsOK
      <4>2. ~NoBills(k)
        BY <3>1 DEF NoBills
      <4> QED
        BY <4>1, <4>2 DEF ContractOK
    <3> QED
      BY <2>1, <3>1, <3>2, <3>3
  <2> QED
    BY <2>2, <2>3
<1>6. VisitsOwned'
  BY <1>4 DEF VisitsOwned
<1>7. Billed'
  BY <1>5 DEF Billed, NoBills
<1>8. BilledAsContracted'
  BY <1>5 DEF BilledAsContracted, BillsOf
<1> QED
  BY <1>6, <1>7, <1>8

LEMMA CommitUnclosed ==
  ASSUME ContractsInv, NEW w \in Workers, ContractsCommit(w)
  PROVE  UnclosedContractsSound'
<1> PICK ch, held, ws : ch = ownWrites[w] /\ held = tx[w].held /\ ws = tx[w].writes
  OBVIOUS
<1>1. OwnOK(held, ws, ch) /\ UnclosedContractsSound /\ ContractsShaped
  BY DEF ContractsInv, OwnTx, OwnTables
<1>2. \A k \in ContractIds : contract'[k] = IF k \in DOMAIN ch.contract THEN ch.contract[k] ELSE contract[k]
  BY AfterOwnCommit
<1>3. PortfolioInv /\ Commit(w)
  BY DEF ContractsInv, ContractsCommit
<1>4. /\ \A p \in Projects : project'[p] = IF p \in DOMAIN ws.project THEN ws.project[p] ELSE project[p]
      /\ \A x \in Customers \X Projects : link'[x] = IF x \in DOMAIN ws.link THEN ws.link[x] ELSE link[x]
  BY <1>3, AfterCommit
<1>5. SUFFICES ASSUME NEW k \in ContractIds, Unclosed(k)'
      PROVE  /\ PeriodFree(contract[k], {k})'
             /\ link'[<<contract'[k].customer, contract'[k].project>>] = "active"
             /\ ~project'[contract'[k].project].archived
  BY DEF UnclosedContractsSound
<1> PICK row : row = contract'[k]
  OBVIOUS
<1>6. row # NoContract /\ row \in ContractRows /\ row.status # "closed"
  <2>1. row.status \in {"draft", "active"}
    BY <1>5 DEF Unclosed
  <2>2. row # NoContract
    BY <2>1 DEF NoContract
  <2>3. contract'[k] # NoContract => contract'[k] \in ContractRows
    BY CommitShapes DEF ContractsShaped
  <2> QED
    BY <2>1, <2>2, <2>3
<1>7. row.customer \in Customers /\ row.project \in Projects
  BY <1>6 DEF ContractRows
<1>8. Unclosed(k) /\ contract[k].customer = row.customer /\ contract[k].project = row.project =>
        /\ link[<<row.customer, row.project>>] = "active" /\ ~project[row.project].archived
        /\ Claimed(row.customer, row.project)
  BY <1>1 DEF UnclosedContractsSound, Claimed
<1>9. CASE k \in DOMAIN ch.contract
  <2>1. ContractOK(held, k, row)
    BY <1>1, <1>2, <1>9 DEF OwnOK, ContractsOK
  <2>2. \A l \in ContractIds \ {k} : contract'[l] = contract[l]
    BY <1>1, <1>2, <1>9 DEF OwnOK, ContractsOK
  <2>3. PeriodFree(row, {k})'
    BY <2>1, <2>2 DEF ContractOK, PeriodFree, Overlap, Unclosed
  <2>4. link' [<<row.customer, row.project>>] = link[<<row.customer, row.project>>]
        /\ project'[row.project] = project[row.project]
    BY <1>1, <1>4, <1>7, <1>9 DEF OwnOK, ContractsOK
  <2>5. link[<<row.customer, row.project>>] = "active" /\ ~project[row.project].archived
    <3>1. CASE LinkedBy(held, row.customer, row.project)
      BY <3>1 DEF LinkedBy, ActiveLink, Live
    <3>2. CASE Unclosed(k) /\ row.project = contract[k].project
      <4>1. contract[k] # NoContract
        BY <3>2 DEF Unclosed, NoContract
      <4> QED
        BY <1>8, <2>1, <3>2, <4>1 DEF ContractOK
    <3> QED
      BY <1>6, <2>1, <3>1, <3>2 DEF ContractOK
  <2> QED
    BY <2>3, <2>4, <2>5
<1>10. CASE k \notin DOMAIN ch.contract
  <2>1. row = contract[k] /\ Unclosed(k)
    BY <1>2, <1>5, <1>10 DEF Unclosed
  <2>2. ASSUME NEW l \in ContractIds \ {k}, Unclosed(l)', Overlap(contract'[l], row)
        PROVE  FALSE
    <3>1. CASE l \in DOMAIN ch.contract
      <4>1. PeriodFree(contract'[l], {l}) /\ contract'[l].status # "closed"
        BY <1>1, <1>2, <2>2, <3>1 DEF OwnOK, ContractsOK, ContractOK, Unclosed
      <4>2. Overlap(row, contract'[l])
        BY <2>2 DEF Overlap
      <4> QED
        BY <2>1, <4>1, <4>2 DEF PeriodFree
    <3>2. CASE l \notin DOMAIN ch.contract
      <4>1. contract'[l] = contract[l] /\ Unclosed(l)
        BY <1>2, <2>2, <3>2 DEF Unclosed
      <4>2. PeriodFree(row, {k})
        BY <1>1, <2>1 DEF UnclosedContractsSound
      <4> QED
        BY <1>6, <2>2, <4>1, <4>2 DEF PeriodFree
    <3> QED
      BY <3>1, <3>2
  <2>3. PeriodFree(contract[k], {k})'
    BY <2>2 DEF PeriodFree
  <2>4. Claimed(row.customer, row.project)
    BY <1>8, <2>1
  <2>5. link'[<<row.customer, row.project>>] = "active"
    BY <1>1, <1>4, <1>7, <1>8, <2>1, <2>4 DEF OwnOK, Unclaimed
  <2>6. ~project'[row.project].archived
    <3>1. CASE row.project \in DOMAIN ws.project
      BY <1>1, <1>4, <1>7, <2>4, <3>1 DEF OwnOK, Unclaimed
    <3>2. CASE row.project \notin DOMAIN ws.project
      BY <1>4, <1>7, <1>8, <2>1, <3>2
    <3> QED
      BY <3>1, <3>2
  <2> QED
    BY <2>3, <2>5, <2>6
<1> QED
  BY <1>9, <1>10

LEMMA CommitVisitsFit ==
  ASSUME ContractsInv, NEW w \in Workers, ContractsCommit(w)
  PROVE  VisitsFit'
<1> PICK ch, held, ws : ch = ownWrites[w] /\ held = tx[w].held /\ ws = tx[w].writes
  OBVIOUS
<1>1. OwnOK(held, ws, ch) /\ VisitsFit /\ VisitsOwned /\ ContractsShaped
  BY DEF ContractsInv, OwnTx, OwnTables
<1>2. /\ \A k \in ContractIds : contract'[k] = IF k \in DOMAIN ch.contract THEN ch.contract[k] ELSE contract[k]
      /\ \A u \in VisitIds : visit'[u] = IF u \in DOMAIN ch.visit THEN ch.visit[u] ELSE visit[u]
  BY AfterOwnCommit
<1>3. DOMAIN ch.visit # {} \/ DOMAIN ch.bill # {} \/ DOMAIN ch.item # {} =>
        \A k \in ContractIds : contract'[k] = contract[k]
  BY OwnCommitParts
<1>4. ASSUME NEW v \in VisitIds, visit'[v] # NoVisit, NEW k, k = contract'[visit'[v].contract]
      PROVE  /\ visit'[v].day \in k.from..k.to
             /\ k.archived => ~Editable(v)'
             /\ (visit'[v].status = "completed") = (visit'[v].delivered # 0)
  <2>1. CASE v \in DOMAIN ch.visit
    <3>1. VisitOK(held, DOMAIN ch.visit, v, ch.visit[v]) /\ visit'[v] = ch.visit[v]
      BY <1>1, <1>2, <2>1 DEF OwnOK, VisitsOK
    <3>2. \A l \in ContractIds : contract'[l] = contract[l]
      BY <1>3, <2>1
    <3>3. k = contract[visit'[v].contract] /\ k.status = "active" /\ visit'[v].contract \in ContractIds
      BY <1>4, <3>1, <3>2 DEF VisitOK
    <3>4. k # NoContract
      BY <3>3 DEF NoContract
    <3>5. ~k.archived
      BY <1>1, <3>3, <3>4 DEF ContractsShaped
    <3> QED
      BY <1>4, <3>1, <3>3, <3>5 DEF VisitOK
  <2>2. CASE v \notin DOMAIN ch.visit
    <3> PICK l : l = visit[v].contract
      OBVIOUS
    <3>1. visit'[v] = visit[v] /\ visit[v] # NoVisit /\ l \in ContractIds /\ k = contract'[l]
          /\ Editable(v)' = Editable(v)
      BY <1>1, <1>2, <1>4, <2>2 DEF VisitsOwned, Editable
    <3>2. CASE l \in DOMAIN ch.contract
      <4>1. ContractOK(held, l, k) /\ v \in VisitsOf(l)
        BY <1>1, <1>2, <3>1, <3>2 DEF OwnOK, ContractsOK, VisitsOf
      <4> QED
        BY <1>1, <3>1, <4>1 DEF ContractOK, VisitsInside, VisitsFit
    <3>3. CASE l \notin DOMAIN ch.contract
      BY <1>1, <1>2, <3>1, <3>3 DEF VisitsFit
    <3> QED
      BY <3>2, <3>3
  <2> QED
    BY <2>1, <2>2
<1>5. ASSUME NEW u \in VisitIds, NEW v \in VisitIds, u # v, visit'[u] # NoVisit,
             visit'[u].contract = visit'[v].contract
      PROVE  visit'[u].day # visit'[v].day
  <2>1. visit'[u].contract # None
    <3>1. VisitsOwned'
      BY CommitOwned
    <3> QED
      BY <1>5, <3>1, IdsAssumption DEF VisitsOwned
  <2>2. visit'[v] # NoVisit
    BY <1>5, <2>1 DEF NoVisit
  <2>3. ASSUME NEW x \in VisitIds, NEW y \in VisitIds, x \in DOMAIN ch.visit, y \notin DOMAIN ch.visit,
               visit'[x] # NoVisit, visit'[x].contract = visit'[y].contract
        PROVE  visit'[x].day # visit'[y].day
    <3>1. VisitOK(held, DOMAIN ch.visit, x, ch.visit[x]) /\ visit'[x] = ch.visit[x] /\ visit'[y] = visit[y]
      BY <1>1, <1>2, <2>3 DEF OwnOK, VisitsOK
    <3>2. y \in VisitsOf(visit'[x].contract) \ DOMAIN ch.visit
      BY <2>3, <3>1 DEF VisitsOf
    <3> QED
      BY <2>3, <3>1, <3>2 DEF VisitOK
  <2>4. CASE u \in DOMAIN ch.visit /\ v \in DOMAIN ch.visit
    BY <1>1, <1>2, <1>5, <2>4 DEF OwnOK, VisitsOK
  <2>5. CASE u \notin DOMAIN ch.visit /\ v \notin DOMAIN ch.visit
    BY <1>1, <1>2, <1>5, <2>5 DEF VisitsFit
  <2>6. CASE u \in DOMAIN ch.visit /\ v \notin DOMAIN ch.visit
    BY <1>5, <2>3, <2>6
  <2>7. CASE u \notin DOMAIN ch.visit /\ v \in DOMAIN ch.visit
    BY <1>5, <2>2, <2>3, <2>7
  <2> QED
    BY <2>4, <2>5, <2>6, <2>7
<1> QED
  BY <1>4, <1>5 DEF VisitsFit

LEMMA CommitDelivered ==
  ASSUME ContractsInv, NEW w \in Workers, ContractsCommit(w)
  PROVE  WorkDelivered'
<1> PICK ch, held, ws : ch = ownWrites[w] /\ held = tx[w].held /\ ws = tx[w].writes
  OBVIOUS
<1>1. OwnOK(held, ws, ch) /\ WorkDelivered /\ VisitsOwned /\ ContractsShaped
  BY DEF ContractsInv, OwnTx, OwnTables
<1>2. /\ \A u \in VisitIds : visit'[u] = IF u \in DOMAIN ch.visit THEN ch.visit[u] ELSE visit[u]
      /\ \A t \in Tasks : item'[t] = IF t \in DOMAIN ch.item THEN ch.item[t] ELSE item[t]
  BY AfterOwnCommit
<1>3. PortfolioInv /\ Commit(w)
  BY DEF ContractsInv, ContractsCommit
<1>4. \A t \in Tasks : task'[t] = IF t \in DOMAIN ws.task THEN ws.task[t] ELSE task[t]
  BY <1>3, AfterCommit
<1>5. SUFFICES ASSUME NEW t \in Tasks
      PROVE  /\ task'[t].visit = (item'[t] # None)
             /\ item'[t] # None =>
                  /\ task'[t].status = "done"
                  /\ visit'[item'[t]].status = "completed"
                  /\ task'[t].customer = contract'[visit'[item'[t]].contract].customer
  BY DEF WorkDelivered
<1>6. CASE t \in DOMAIN ch.item
  <2> PICK v : v = ch.item[t]
    OBVIOUS
  <2>1. /\ t \in DOMAIN ws.task /\ v \in DOMAIN ch.visit /\ ch.visit[v].status = "completed"
        /\ ws.task[t].visit /\ ws.task[t].status = "done"
        /\ ws.task[t].customer = contract[ch.visit[v].contract].customer
    BY <1>1, <1>6 DEF OwnOK, ItemsOK
  <2>2. VisitOK(held, DOMAIN ch.visit, v, ch.visit[v])
    BY <1>1, <2>1 DEF OwnOK, VisitsOK
  <2>3. v \in VisitIds /\ v # None /\ visit'[v] = ch.visit[v] /\ ch.visit[v].contract \in ContractIds
    <3>1. ch.visit[v] # NoVisit
      BY <2>1 DEF NoVisit
    <3> QED
      BY <1>2, <2>1, <2>2, <3>1, IdsAssumption DEF VisitOK
  <2>4. contract'[ch.visit[v].contract] = contract[ch.visit[v].contract]
    BY <1>6, <2>3, OwnCommitParts
  <2>5. ws.task[t].visit = TRUE
    <3>1. TaskOK(held, t, ws.task[t])
      BY <1>3, <2>1 DEF PortfolioInv, TxInv, WritesOK, TasksOK
    <3>2. ws.task[t].visit \in BOOLEAN
      BY <3>1 DEF TaskOK, TaskRows
    <3> QED
      BY <2>1, <3>2
  <2>6. task'[t] = ws.task[t] /\ item'[t] = v
    BY <1>2, <1>4, <1>6, <2>1
  <2>7. (item'[t] # None) = TRUE
    BY <2>3, <2>6
  <2> QED
    BY <2>1, <2>3, <2>4, <2>5, <2>6, <2>7
<1>7. CASE t \notin DOMAIN ch.item
  <2>1. item'[t] = item[t]
    BY <1>2, <1>7
  <2>2. /\ task'[t].visit = task[t].visit
        /\ task[t].visit => task'[t].status = task[t].status /\ task'[t].customer = task[t].customer
    BY <1>1, <1>4, <1>7 DEF OwnOK, ItemsOK
  <2>3. ASSUME item[t] # None
        PROVE  /\ task'[t].status = "done" /\ visit'[item[t]].status = "completed"
               /\ task'[t].customer = contract'[visit'[item[t]].contract].customer
    <3> PICK v \in VisitIds : v = item[t]
      BY <1>1, <2>3 DEF ContractsShaped
    <3>1. /\ task[t].visit = TRUE /\ task[t].status = "done" /\ visit[v].status = "completed"
          /\ task[t].customer = contract[visit[v].contract].customer
      BY <1>1, <2>3 DEF WorkDelivered
    <3>2. visit'[v] = visit[v] /\ visit[v] # NoVisit
      BY <3>1, OwnCommitParts DEF NoVisit
    <3>3. visit[v].contract \in ContractIds /\ contract[visit[v].contract] # NoContract
      BY <1>1, <3>2 DEF VisitsOwned
    <3>4. contract'[visit[v].contract].customer = contract[visit[v].contract].customer
      BY <3>3, OwnCommitParts
    <3> QED
      BY <2>2, <3>1, <3>2, <3>4
  <2> QED
    BY <1>1, <2>1, <2>2, <2>3 DEF WorkDelivered
<1> QED
  BY <1>6, <1>7

LEMMA CommitOwnTables ==
  ASSUME ContractsInv, NEW w \in Workers, ContractsCommit(w)
  PROVE  OwnTables'
BY CommitShapes, CommitOwned, CommitUnclosed, CommitVisitsFit, CommitDelivered DEF OwnTables

-----------------------------------------------------------------------------
(* Contracts: the steps.                                                   *)

\* A transaction begins that will write ch to these tables and ws to Portfolio's.
NewVisitsFree(ch) == \A v \in DOMAIN ch.visit : visit[v] = NoVisit => v \in FreeVisits
OwnBegin(w, ls, ws, ch) == /\ SoundBegin(w, ls, ws) /\ WriteOwn(w, ch)
                           /\ OwnOK(ls, ws, ch) /\ NewVisitsFree(ch)

LEMMA OwnFrame ==
  ASSUME UNCHANGED <<tables, own>>, NEW ls, NEW ws, NEW ch, OwnOK(ls, ws, ch)
  PROVE  OwnOK(ls, ws, ch)'
<1>1. /\ link' = link /\ project' = project /\ task' = task
      /\ contract' = contract /\ visit' = visit /\ bill' = bill
  BY DEF tables, own
<1>2. \A c, p : LinkedBy(ls, c, p)' = LinkedBy(ls, c, p)
  BY <1>1 DEF LinkedBy, ActiveLink, OpenProject, Live, PairLocks, ProjectLocks
<1>3. \A k : VisitsOf(k)' = VisitsOf(k) /\ Unclosed(k)' = Unclosed(k) /\ NoBills(k)' = NoBills(k)
  BY <1>1 DEF VisitsOf, Unclosed, NoBills
<1>4. /\ \A c, p : Claimed(c, p)' = Claimed(c, p)
      /\ \A v : Editable(v)' = Editable(v)
      /\ \A row, ks : PeriodFree(row, ks)' = PeriodFree(row, ks) /\ StartFree(row, ks)' = StartFree(row, ks)
      /\ \A k, row : VisitsInside(k, row)' = VisitsInside(k, row)
  BY <1>1 DEF Claimed, Unclosed, Editable, PeriodFree, StartFree, VisitsInside, VisitsOf
<1>5. ContractsOK(ls, ws, ch)'
  BY <1>1, <1>2, <1>3, <1>4 DEF OwnOK, ContractsOK, ContractOK
<1>6. Unclaimed(ws)' /\ BillsOK(ls, ch)' /\ ItemsOK(ls, ws, ch)'
  BY <1>1, <1>4 DEF OwnOK, Unclaimed, BillsOK, BillOK, ItemsOK
<1>7. VisitsOK(ls, ch)'
  BY <1>1, <1>3 DEF OwnOK, VisitsOK, VisitOK
<1> QED
  BY <1>5, <1>6, <1>7 DEF OwnOK

LEMMA OwnTablesFrame ==
  ASSUME UNCHANGED <<tables, own>>, OwnTables
  PROVE  OwnTables'
<1>1. /\ link' = link /\ project' = project /\ task' = task
      /\ contract' = contract /\ visit' = visit /\ bill' = bill /\ item' = item
  BY DEF tables, own
<1>2. ContractsShaped' /\ VisitsOwned' /\ Billed' /\ BilledAsContracted'
  BY <1>1 DEF OwnTables, ContractsShaped, StartFree, VisitsOwned, Billed, NoBills, BilledAsContracted, BillsOf
<1>3. UnclosedContractsSound' /\ VisitsFit' /\ WorkDelivered'
  BY <1>1 DEF OwnTables, UnclosedContractsSound, Unclosed, PeriodFree, VisitsFit, Editable, WorkDelivered
<1> QED
  BY <1>2, <1>3 DEF OwnTables

LEMMA NoOwnWritesOK ==
  ASSUME NEW ls, NEW ws, DOMAIN ws.task = {}, DOMAIN ws.link = {}, DOMAIN ws.project = {}
  PROVE  OwnOK(ls, ws, NoOwnWrites)
<1> PICK ch : ch = NoOwnWrites
  OBVIOUS
<1>1. DOMAIN ch.contract = {} /\ DOMAIN ch.visit = {} /\ DOMAIN ch.bill = {} /\ DOMAIN ch.item = {}
  BY DEF NoOwnWrites
<1>2. OwnOK(ls, ws, ch)
  BY <1>1 DEF OwnOK, ContractsOK, Unclaimed, VisitsOK, BillsOK, ItemsOK
<1> QED
  BY <1>2

\* A transaction that is over has nothing left to write.
LEMMA OwnEnd ==
  ASSUME ContractsInv, NEW w \in Workers, tx' = [tx EXCEPT ![w] = Idle],
         ownWrites' = [ownWrites EXCEPT ![w] = NoOwnWrites],
         \A v \in Workers \ {w} : \E ls, ws, ch :
           ls = tx[v].held /\ ws = tx[v].writes /\ ch = ownWrites[v] /\ OwnOK(ls, ws, ch)'
  PROVE  OwnTx'
<1>1. tx'[w] = Idle /\ \A v \in Workers \ {w} : tx'[v] = tx[v]
  BY EndKeepsApart DEF ContractsInv
<1>2. /\ ownWrites' = [v \in Workers |-> ownWrites'[v]] /\ ownWrites'[w] = NoOwnWrites
      /\ \A v \in Workers \ {w} : ownWrites'[v] = ownWrites[v]
  BY DEF ContractsInv, OwnTx
<1>3. DOMAIN NoOwnWrites.visit = {}
  BY DEF NoOwnWrites
<1>4. VisitsApart'
  BY <1>2, <1>3 DEF ContractsInv, OwnTx, VisitsApart
<1>5. \A v \in Workers : ~tx'[v].on => ownWrites'[v] = NoOwnWrites
  BY <1>1, <1>2 DEF ContractsInv, OwnTx
<1>6. ASSUME NEW v \in Workers \ {w}
      PROVE  OwnOK(tx[v].held, tx[v].writes, ownWrites[v])'
  <2> PICK ls, ws, ch : ls = tx[v].held /\ ws = tx[v].writes /\ ch = ownWrites[v] /\ OwnOK(ls, ws, ch)'
    OBVIOUS
  <2>1. ls = tx'[v].held /\ ws = tx'[v].writes /\ ch = ownWrites'[v]
    BY <1>1, <1>2
  <2> QED
    BY <2>1
<1>7. OwnOK(tx[w].held, tx[w].writes, ownWrites[w])'
  <2> PICK ls, ws, ch : ls = Idle.held /\ ws = Idle.writes /\ ch = NoOwnWrites
    OBVIOUS
  <2>1. ls = tx'[w].held /\ ws = tx'[w].writes /\ ch = ownWrites'[w]
    BY <1>1, <1>2
  <2>2. DOMAIN ws.task = {} /\ DOMAIN ws.link = {} /\ DOMAIN ws.project = {}
    BY DEF Idle, Nothing
  <2>3. DOMAIN ch.contract = {} /\ DOMAIN ch.visit = {} /\ DOMAIN ch.bill = {} /\ DOMAIN ch.item = {}
    BY DEF NoOwnWrites
  <2>4. OwnOK(ls, ws, ch)'
    BY <2>2, <2>3 DEF OwnOK, ContractsOK, Unclaimed, VisitsOK, BillsOK, ItemsOK
  <2> QED
    BY <2>1, <2>4
<1> QED
  BY <1>2, <1>4, <1>5, <1>6, <1>7 DEF OwnTx

LEMMA OwnBeginKeeps ==
  ASSUME ContractsInv, NEW w \in Workers, NEW ls, NEW ws, NEW ch, OwnBegin(w, ls, ws, ch)
  PROVE  ContractsInv'
<1>1. /\ \A v \in Workers : tx[v].held \cap ls = {}
      /\ tx' = [tx EXCEPT ![w] = [on |-> TRUE, held |-> ls, writes |-> ws]]
      /\ ownWrites' = [ownWrites EXCEPT ![w] = ch]
      /\ UNCHANGED <<tables, own>> /\ OwnOK(ls, ws, ch) /\ NewVisitsFree(ch)
      /\ SoundBegin(w, ls, ws)
  BY DEF OwnBegin, SoundBegin, Begin, WriteOwn
<1>2. /\ tx'[w].on /\ tx'[w].held = ls /\ tx'[w].writes = ws
      /\ \A v \in Workers \ {w} : tx'[v] = tx[v]
  BY <1>1 DEF ContractsInv, PortfolioInv, TxInv
<1>3. /\ ownWrites' = [v \in Workers |-> ownWrites'[v]] /\ ownWrites'[w] = ch
      /\ \A v \in Workers \ {w} : ownWrites'[v] = ownWrites[v]
  BY <1>1 DEF ContractsInv, OwnTx
<1>4. PortfolioInv' /\ OwnTables'
  BY <1>1, BeginKeeps, OwnTablesFrame DEF ContractsInv
<1>5. ASSUME NEW v \in Workers \ {w}, NEW u \in DOMAIN ch.visit
      PROVE  u \notin DOMAIN ownWrites[v].visit
  <2>1. VisitOK(ls, DOMAIN ch.visit, u, ch.visit[u])
    BY <1>1 DEF OwnOK, VisitsOK
  <2>2. CASE visit[u] = NoVisit
    BY <1>1, <2>2 DEF NewVisitsFree, FreeVisits
  <2>3. CASE visit[u] # NoVisit
    <3>1. u \in DOMAIN ownWrites[v].visit =>
            VisitOK(tx[v].held, DOMAIN ownWrites[v].visit, u, ownWrites[v].visit[u])
      BY DEF ContractsInv, OwnTx, OwnOK, VisitsOK
    <3> QED
      BY <1>1, <2>1, <2>3, <3>1 DEF VisitOK
  <2> QED
    BY <2>2, <2>3
<1>6. VisitsApart'
  BY <1>3, <1>5 DEF ContractsInv, OwnTx, VisitsApart
<1>7. \A v \in Workers : ~tx'[v].on => ownWrites'[v] = NoOwnWrites
  BY <1>2, <1>3 DEF ContractsInv, OwnTx
<1>8. ASSUME NEW v \in Workers
      PROVE  OwnOK(tx[v].held, tx[v].writes, ownWrites[v])'
  <2> PICK ks, vs, c : ks = tx'[v].held /\ vs = tx'[v].writes /\ c = ownWrites'[v]
    OBVIOUS
  <2>1. OwnOK(ks, vs, c)
    BY <1>1, <1>2, <1>3 DEF ContractsInv, OwnTx
  <2>2. OwnOK(ks, vs, c)'
    BY <1>1, <2>1, OwnFrame
  <2> QED
    BY <2>2
<1> QED
  BY <1>3, <1>4, <1>6, <1>7, <1>8 DEF ContractsInv, OwnTx

LEMMA OwnCommitKeeps ==
  ASSUME ContractsInv, NEW w \in Workers, ContractsCommit(w)
  PROVE  ContractsInv'
<1>1. Commit(w) /\ PortfolioInv /\ ownWrites' = [ownWrites EXCEPT ![w] = NoOwnWrites]
  BY DEF ContractsCommit, ContractsInv
<1>2. PortfolioInv'
  BY <1>1, PortfolioStepKeeps DEF PortfolioStep
<1>3. ASSUME NEW v \in Workers \ {w}
      PROVE  \E ls, ws, ch : ls = tx[v].held /\ ws = tx[v].writes /\ ch = ownWrites[v] /\ OwnOK(ls, ws, ch)'
  <2> PICK ls, ws, ch : ls = tx[v].held /\ ws = tx[v].writes /\ ch = ownWrites[v]
    OBVIOUS
  <2>1. ls \cap tx[w].held = {} /\ \A t \in DOMAIN ws.task : t \notin DOMAIN tx[w].writes.task
    BY <1>1 DEF PortfolioInv, TxInv, LocksApart, NewRowsApart
  <2>2. WritesOK(ls, ws)
    BY <1>1 DEF PortfolioInv, TxInv
  <2>3. OwnOK(ls, ws, ch) /\ \A u \in DOMAIN ch.visit : u \notin DOMAIN ownWrites[w].visit
    BY DEF ContractsInv, OwnTx, VisitsApart
  <2>4. OwnOK(ls, ws, ch)'
    BY <2>1, <2>2, <2>3, OwnStay
  <2> QED
    BY <2>4
<1>4. OwnTx'
  BY <1>1, <1>3, OwnEnd DEF Commit
<1> QED
  BY <1>2, <1>4, CommitOwnTables DEF ContractsInv

LEMMA OwnFailKeeps ==
  ASSUME ContractsInv, NEW w \in Workers, ContractsFail(w)
  PROVE  ContractsInv'
<1>1. /\ tx' = [tx EXCEPT ![w] = Idle] /\ UNCHANGED <<tables, own>> /\ PortfolioInv
      /\ ownWrites' = [ownWrites EXCEPT ![w] = NoOwnWrites]
  BY DEF ContractsFail, Fail, WriteOwn, ContractsInv
<1>2. PortfolioInv'
  BY <1>1, PortfolioStepKeeps DEF PortfolioStep, RolledBack
<1>3. ASSUME NEW v \in Workers \ {w}
      PROVE  \E ls, ws, ch : ls = tx[v].held /\ ws = tx[v].writes /\ ch = ownWrites[v] /\ OwnOK(ls, ws, ch)'
  <2> PICK ls, ws, ch : ls = tx[v].held /\ ws = tx[v].writes /\ ch = ownWrites[v]
    OBVIOUS
  <2>1. OwnOK(ls, ws, ch)
    BY DEF ContractsInv, OwnTx
  <2>2. OwnOK(ls, ws, ch)'
    BY <1>1, <2>1, OwnFrame
  <2> QED
    BY <2>2
<1>4. OwnTx'
  BY <1>1, <1>3, OwnEnd
<1> QED
  BY <1>1, <1>2, <1>4, OwnTablesFrame DEF ContractsInv

-----------------------------------------------------------------------------
(* Contracts: what each request has made sure of when it has its locks.    *)

LEMMA FieldsOfOwnWrites ==
  /\ \A k, row : LET ch == [NoOwnWrites EXCEPT !.contract = RowAt(k, row)] IN
       ch.contract = RowAt(k, row) /\ ch.visit = <<>> /\ ch.bill = <<>> /\ ch.item = <<>>
  /\ \A b, row : LET ch == [NoOwnWrites EXCEPT !.bill = RowAt(b, row)] IN
       ch.contract = <<>> /\ ch.visit = <<>> /\ ch.bill = RowAt(b, row) /\ ch.item = <<>>
  /\ \A rows : LET ch == [NoOwnWrites EXCEPT !.visit = rows] IN
       ch.contract = <<>> /\ ch.visit = rows /\ ch.bill = <<>> /\ ch.item = <<>>
  /\ \A rows, items : LET ch == [NoOwnWrites EXCEPT !.visit = rows, !.item = items] IN
       ch.contract = <<>> /\ ch.visit = rows /\ ch.bill = <<>> /\ ch.item = items
BY DEF NoOwnWrites

LEMMA ContractWriteSound ==
  ASSUME ContractsInv, NEW w \in Workers, NEW k, NEW row, NEW ls, ContractOK(ls, k, row),
         Begin(w, ls, Nothing), WriteOwn(w, [NoOwnWrites EXCEPT !.contract = RowAt(k, row)])
  PROVE  \E ks, ws, ch : OwnBegin(w, ks, ws, ch)
<1> PICK ch : ch = [NoOwnWrites EXCEPT !.contract = RowAt(k, row)]
  OBVIOUS
<1>1. ch.contract = RowAt(k, row) /\ ch.visit = <<>> /\ ch.bill = <<>> /\ ch.item = <<>>
  BY FieldsOfOwnWrites
<1>2. DOMAIN ch.contract = {k} /\ ch.contract[k] = row
  BY <1>1 DEF RowAt
<1>3. DOMAIN ch.visit = {} /\ DOMAIN ch.bill = {} /\ DOMAIN ch.item = {}
  BY <1>1
<1>4. DOMAIN Nothing.link = {} /\ DOMAIN Nothing.project = {} /\ DOMAIN Nothing.task = {}
  BY DEF Nothing
<1>5. ContractsOK(ls, Nothing, ch)
  BY <1>2, <1>3, <1>4 DEF ContractsOK
<1>6. OwnOK(ls, Nothing, ch)
  BY <1>3, <1>4, <1>5 DEF OwnOK, Unclaimed, VisitsOK, BillsOK, ItemsOK
<1>7. NewVisitsFree(ch)
  BY <1>3 DEF NewVisitsFree
<1>8. SoundBegin(w, ls, Nothing)
  BY NothingSound
<1> QED
  BY <1>6, <1>7, <1>8 DEF OwnBegin

LEMMA BillWriteSound ==
  ASSUME ContractsInv, NEW w \in Workers, NEW b, NEW row, NEW ls, BillOK(ls, b, row),
         Begin(w, ls, Nothing), WriteOwn(w, [NoOwnWrites EXCEPT !.bill = RowAt(b, row)])
  PROVE  \E ks, ws, ch : OwnBegin(w, ks, ws, ch)
<1> PICK ch : ch = [NoOwnWrites EXCEPT !.bill = RowAt(b, row)]
  OBVIOUS
<1>1. ch.contract = <<>> /\ ch.visit = <<>> /\ ch.bill = RowAt(b, row) /\ ch.item = <<>>
  BY FieldsOfOwnWrites
<1>2. DOMAIN ch.bill = {b} /\ ch.bill[b] = row
  BY <1>1 DEF RowAt
<1>3. DOMAIN ch.visit = {} /\ DOMAIN ch.contract = {} /\ DOMAIN ch.item = {}
  BY <1>1
<1>4. DOMAIN Nothing.link = {} /\ DOMAIN Nothing.project = {} /\ DOMAIN Nothing.task = {}
  BY DEF Nothing
<1>5. BillsOK(ls, ch)
  BY <1>2 DEF BillsOK
<1>6. OwnOK(ls, Nothing, ch)
  BY <1>3, <1>4, <1>5 DEF OwnOK, ContractsOK, Unclaimed, VisitsOK, ItemsOK
<1>7. NewVisitsFree(ch)
  BY <1>3 DEF NewVisitsFree
<1>8. SoundBegin(w, ls, Nothing)
  BY NothingSound
<1> QED
  BY <1>6, <1>7, <1>8 DEF OwnBegin

\* A visit belongs to a contract that is there.
LEMMA VisitFacts ==
  ASSUME ContractsInv, NEW k \in ContractIds, NEW v \in VisitsOf(k)
  PROVE  /\ v \in VisitIds /\ visit[v] # NoVisit /\ visit[v].contract = k /\ visit[v] \in VisitRows
         /\ visit[v].status # "absent" /\ contract[k] # NoContract
         /\ visit[v].day \in contract[k].from..contract[k].to
         /\ (visit[v].status = "completed") = (visit[v].delivered # 0)
         /\ contract[k].archived => ~Editable(v)
<1>1. v \in VisitIds /\ visit[v].contract = k /\ k # None
  BY IdsAssumption DEF VisitsOf
<1>2. visit[v] # NoVisit
  BY <1>1 DEF NoVisit
<1>3. visit[v] \in VisitRows
  BY <1>1 DEF ContractsInv, OwnTables, ContractsShaped
<1>4. visit[v].status # "absent" /\ contract[k] # NoContract
  BY <1>1, <1>2 DEF ContractsInv, OwnTables, VisitsOwned
<1>5. /\ visit[v].day \in contract[k].from..contract[k].to
      /\ contract[k].archived => ~Editable(v)
      /\ (visit[v].status = "completed") = (visit[v].delivered # 0)
  BY <1>1, <1>2 DEF ContractsInv, OwnTables, VisitsFit
<1> QED
  BY <1>1, <1>2, <1>3, <1>4, <1>5

LEMMA CreateContractSound ==
  ASSUME ContractsInv, NEW w \in Workers, NEW k \in ContractIds, NEW terms \in Terms,
         CreateCustomerContract(w, k, terms)
  PROVE  \E ls, ws, ch : OwnBegin(w, ls, ws, ch)
<1> PICK c, p, ls : c = terms.customer /\ p = terms.project /\ ls = TermsLock(k, c) \cup PairLocks(c, p)
  OBVIOUS
<1>1. /\ contract[k] = NoContract /\ terms.from <= terms.to /\ ActiveLink(c, p)
      /\ PeriodFree(terms, {}) /\ StartFree(terms, {})
      /\ Begin(w, ls, Nothing) /\ WriteOwn(w, [NoOwnWrites EXCEPT !.contract = RowAt(k, terms)])
  BY DEF CreateCustomerContract
<1>2. terms \in ContractRows /\ ~terms.archived /\ c \in Customers /\ p \in Projects
  BY DEF Terms, ContractRows
<1>3. <<"contract", k>> \in ls /\ <<"customer", c>> \in ls /\ PairLocks(c, p) \subseteq ls
  BY <1>2, NoneAssumption DEF TermsLock, CustomerLock, ContractLock
<1>4. PeriodFree(terms, {k}) /\ StartFree(terms, {k})
  BY <1>1 DEF PeriodFree, StartFree
<1>5. VisitsInside(k, terms)
  BY <1>1, VisitFacts DEF VisitsInside
<1>6. NoBills(k)
  BY <1>1 DEF ContractsInv, OwnTables, Billed
<1>7. LinkedBy(ls, c, p)
  BY <1>1, <1>3 DEF LinkedBy
<1>8. ContractOK(ls, k, terms)
  BY <1>1, <1>2, <1>3, <1>4, <1>5, <1>6, <1>7 DEF ContractOK
<1> QED
  BY <1>1, <1>8, ContractWriteSound

LEMMA UpdateContractSound ==
  ASSUME ContractsInv, NEW w \in Workers, NEW k \in ContractIds, NEW terms \in Terms,
         UpdateCustomerContract(w, k, terms)
  PROVE  \E ls, ws, ch : OwnBegin(w, ls, ws, ch)
<1> DEFINE c == terms.customer
           p == terms.project
           moved == p # contract[k].project
           reopened == contract[k].status = "closed" /\ terms.status # "closed"
           ls == TermsLock(k, c) \cup IF moved \/ reopened THEN PairLocks(c, p) ELSE {}
<1>1. /\ Live(contract[k]) /\ c = contract[k].customer /\ terms.from <= terms.to
      /\ moved \/ reopened => ActiveLink(c, p)
      /\ moved => \A b \in BillsOf(k) : bill[b] = NoBill
      /\ PeriodFree(terms, {k}) /\ StartFree(terms, {k}) /\ VisitsInside(k, terms)
      /\ Begin(w, ls, Nothing) /\ WriteOwn(w, [NoOwnWrites EXCEPT !.contract = RowAt(k, terms)])
  BY DEF UpdateCustomerContract
<1>2. terms \in ContractRows /\ ~terms.archived /\ c \in Customers /\ p \in Projects
  BY DEF Terms, ContractRows
<1>3. /\ <<"contract", k>> \in ls /\ <<"customer", c>> \in ls
      /\ moved \/ reopened => PairLocks(c, p) \subseteq ls
  BY <1>2, NoneAssumption DEF TermsLock, CustomerLock, ContractLock
<1> HIDE DEF ls
<1>4. contract[k] \in ContractRows
  <2>1. contract[k] # NoContract
    BY <1>1 DEF Live, NoContract
  <2>2. contract[k] # NoContract => contract[k] \in ContractRows
    BY DEF ContractsInv, OwnTables, ContractsShaped
  <2> QED
    BY <2>1, <2>2
<1>5. NoBills(k) \/ p = contract[k].project
  BY <1>1 DEF NoBills, BillsOf
<1>6. terms.status # "closed" => LinkedBy(ls, c, p) \/ (Unclosed(k) /\ p = contract[k].project)
  <2>1. CASE moved \/ reopened
    BY <1>1, <1>3, <2>1 DEF LinkedBy
  <2>2. CASE ~(moved \/ reopened)
    BY <1>4, <2>2 DEF Unclosed, ContractRows
  <2> QED
    BY <2>1, <2>2
<1>7. ContractOK(ls, k, terms)
  BY <1>1, <1>2, <1>3, <1>5, <1>6 DEF ContractOK
<1> QED
  BY <1>1, <1>7, ContractWriteSound

LEMMA ChangeContractSound ==
  ASSUME ContractsInv, NEW w \in Workers, NEW k \in ContractIds, NEW archive \in BOOLEAN,
         ChangeContractLifecycle(w, k, archive)
  PROVE  \E ls, ws, ch : OwnBegin(w, ls, ws, ch)
<1> PICK row : row = contract[k]
  OBVIOUS
<1> PICK after : after = [row EXCEPT !.archived = archive]
  OBVIOUS
<1> PICK ls : ls = TermsLock(k, row.customer) \cup IF archive THEN {} ELSE ProjectLocks({row.project})
  OBVIOUS
<1>1. /\ IF archive THEN Live(row) /\ row.status = "closed" /\ ~ContractInUse(k) ELSE row.archived
      /\ Begin(w, ls, Nothing) /\ WriteOwn(w, [NoOwnWrites EXCEPT !.contract = RowAt(k, after)])
  BY DEF ChangeContractLifecycle
<1>2. row # NoContract
  BY <1>1 DEF NoContract, Live
<1>3. row \in ContractRows /\ row.from <= row.to /\ row.status = "closed" /\ StartFree(row, {k})
  <2>1. contract[k] # NoContract =>
          /\ contract[k] \in ContractRows /\ contract[k].from <= contract[k].to
          /\ contract[k].archived => contract[k].status = "closed"
          /\ StartFree(contract[k], {k})
    BY DEF ContractsInv, OwnTables, ContractsShaped
  <2> QED
    BY <1>1, <1>2, <2>1
<1>4. /\ after \in ContractRows /\ after.status = "closed" /\ after.archived = archive
      /\ after.customer = row.customer /\ after.project = row.project
      /\ after.from = row.from /\ after.to = row.to
  BY <1>3 DEF ContractRows
<1>5. <<"contract", k>> \in ls /\ <<"customer", row.customer>> \in ls
  BY <1>3, NoneAssumption DEF TermsLock, CustomerLock, ContractLock, ContractRows
<1>6. StartFree(after, {k}) /\ PeriodFree(after, {k})
  BY <1>3, <1>4 DEF StartFree, PeriodFree
<1>7. VisitsInside(k, after)
  BY <1>4, VisitFacts DEF VisitsInside
<1>8. archive => \A v \in VisitsOf(k) : ~Editable(v)
  BY <1>1 DEF ContractInUse
<1>9. ContractOK(ls, k, after)
  BY <1>2, <1>3, <1>4, <1>5, <1>6, <1>7, <1>8 DEF ContractOK
<1> QED
  BY <1>1, <1>9, ContractWriteSound

LEMMA GenerateSound ==
  ASSUME ContractsInv, NEW w \in Workers, NEW k \in ContractIds, NEW m \in Months,
         GenerateContractMonthReceivable(w, k, m)
  PROVE  \E ls, ws, ch : OwnBegin(w, ls, ws, ch)
<1> PICK b : b = <<k, m>>
  OBVIOUS
<1> PICK row : row = [status |-> "outstanding", customer |-> contract[k].customer, project |-> contract[k].project]
  OBVIOUS
<1> PICK ls : ls = BillingLocks(k) \cup BillLock(b)
  OBVIOUS
<1>1. /\ contract[k].status = "active" /\ bill[b] = NoBill
      /\ Begin(w, ls, Nothing) /\ WriteOwn(w, [NoOwnWrites EXCEPT !.bill = RowAt(b, row)])
  BY DEF GenerateContractMonthReceivable
<1>2. contract[k] \in ContractRows
  <2>1. contract[k] # NoContract
    BY <1>1 DEF NoContract
  <2> QED
    BY <2>1 DEF ContractsInv, OwnTables, ContractsShaped
<1>3. <<"contract", k>> \in ls /\ <<"bill", b>> \in ls /\ b \in Bills
  BY DEF BillingLocks, ContractLock, BillLock, Bills
<1>4. row \in BillRows /\ row.status # "absent"
  BY <1>2 DEF BillRows, ContractRows
<1>5. BillOK(ls, b, row)
  BY <1>1, <1>3, <1>4 DEF BillOK
<1> QED
  BY <1>1, <1>5, BillWriteSound

LEMMA OpeningBalanceSound ==
  ASSUME ContractsInv, NEW w \in Workers, NEW b \in OpeningKeys, NEW c \in Customers,
         NEW p \in Projects, CreateOpeningBalance(w, b, c, p)
  PROVE  \E ls, ws, ch : OwnBegin(w, ls, ws, ch)
<1> PICK row : row = [status |-> "outstanding", customer |-> c, project |-> p]
  OBVIOUS
<1> PICK ls : ls = CustomerLock(c) \cup PairLocks(c, p) \cup BillLock(b)
  OBVIOUS
<1>1. /\ bill[b] = NoBill
      /\ Begin(w, ls, Nothing) /\ WriteOwn(w, [NoOwnWrites EXCEPT !.bill = RowAt(b, row)])
  BY DEF CreateOpeningBalance
<1>2. <<"bill", b>> \in ls /\ b \in Bills
  BY DEF BillLock, Bills
<1>3. row \in BillRows /\ row.status # "absent"
  BY DEF BillRows
<1>4. \A k \in ContractIds, m \in Months : b # <<k, m>>
  BY IdsAssumption
<1>5. BillOK(ls, b, row)
  BY <1>1, <1>2, <1>3, <1>4 DEF BillOK
<1> QED
  BY <1>1, <1>5, BillWriteSound

LEMMA ChangeBillSound ==
  ASSUME ContractsInv, NEW w \in Workers, NEW b \in Bills, NEW before \in {"outstanding", "settled"},
         NEW after \in {"outstanding", "settled", "voided"}, ChangeBill(w, b, before, after)
  PROVE  \E ls, ws, ch : OwnBegin(w, ls, ws, ch)
<1> PICK row : row = [bill[b] EXCEPT !.status = after]
  OBVIOUS
<1> PICK ls : ls = BillLock(b)
  OBVIOUS
<1>1. /\ bill[b].status = before
      /\ Begin(w, ls, Nothing) /\ WriteOwn(w, [NoOwnWrites EXCEPT !.bill = RowAt(b, row)])
  BY DEF ChangeBill
<1>2. bill[b] \in BillRows /\ bill[b] # NoBill
  BY <1>1 DEF ContractsInv, OwnTables, ContractsShaped, NoBill
<1>3. /\ row \in BillRows /\ row.status = after
      /\ row.customer = bill[b].customer /\ row.project = bill[b].project
  BY <1>2 DEF BillRows
<1>4. <<"bill", b>> \in ls /\ after # "absent"
  BY DEF BillLock
<1>5. BillOK(ls, b, row)
  BY <1>2, <1>3, <1>4 DEF BillOK
<1> QED
  BY <1>1, <1>5, BillWriteSound

PlannedVisit(k, d) == [NoVisit EXCEPT !.status = "planned", !.contract = k, !.day = d]
MovedVisit(row, d) == [row EXCEPT !.day = d]

LEMMA PlannedFields ==
  ASSUME NEW k \in ContractIds, NEW d \in Days, NEW row, row = PlannedVisit(k, d)
  PROVE  /\ row.status = "planned" /\ row.contract = k /\ row.day = d /\ row.delivered = 0
         /\ row \in VisitRows
<1>1. row = [status |-> "planned", contract |-> k, day |-> d, delivered |-> 0]
  BY DEF PlannedVisit, NoVisit
<1>2. d \in Days \cup {0} /\ k \in ContractIds \cup {None} /\ 0 \in Days \cup {0}
  OBVIOUS
<1> QED
  BY <1>1, <1>2 DEF VisitRows

LEMMA MovedFields ==
  ASSUME NEW old \in VisitRows, NEW d \in Days, NEW row, row = MovedVisit(old, d)
  PROVE  /\ row.status = old.status /\ row.contract = old.contract /\ row.day = d
         /\ row.delivered = old.delivered /\ row \in VisitRows
         /\ d = old.day => row = old
BY DEF MovedVisit, VisitRows

\* The plan of a month: the visits of other months are on other days, those that stay
\* on days that were not asked for, and the days asked for are one for each visit.
LEMMA ReplacePlanSound ==
  ASSUME ContractsInv, NEW w \in Workers, NEW k \in ContractIds, NEW m,
         NEW vs \in SUBSET MonthsVisits(k, m), NEW kept \in [vs -> DaysOf(m)],
         NEW added \in SUBSET DaysOf(m), ReplaceMonthlyVisitPlan(w, k, m, kept, added)
  PROVE  \E ls, ws, ch : OwnBegin(w, ls, ws, ch)
<1>1. PICK existing, fresh, stay, asked :
      /\ existing = MonthsVisits(k, m) /\ fresh = FirstFree(Cardinality(added))
      /\ stay = Preserved(k, m, kept) /\ asked = added \cup {kept[v] : v \in DOMAIN kept}
  OBVIOUS
<1>2. PICK days \in Increasing(fresh, added) :
        LET after == [v \in existing \cup fresh |->
                        IF v \in fresh THEN PlannedVisit(k, days[v])
                        ELSE IF v \in stay THEN visit[v]
                        ELSE IF v \in DOMAIN kept THEN MovedVisit(visit[v], kept[v])
                        ELSE NoVisit] IN
        /\ contract[k].status = "active"
        /\ \A d \in asked : Month(d) = m /\ d \in contract[k].from..contract[k].to
        /\ \A v \in DOMAIN kept : kept[v] \notin added
        /\ \A u, v \in DOMAIN kept : kept[u] = kept[v] => u = v
        /\ \A v \in DOMAIN kept : Editable(v) \/ kept[v] = visit[v].day
        /\ {visit[v].day : v \in stay} \cap asked = {}
        /\ Begin(w, PlanLocks(k, existing), Nothing)
        /\ WriteOwn(w, [NoOwnWrites EXCEPT !.visit = after])
  BY <1>1 DEF ReplaceMonthlyVisitPlan, PlannedVisit, MovedVisit
<1>3. PICK after : after = [v \in existing \cup fresh |->
                              IF v \in fresh THEN PlannedVisit(k, days[v])
                              ELSE IF v \in stay THEN visit[v]
                              ELSE IF v \in DOMAIN kept THEN MovedVisit(visit[v], kept[v])
                              ELSE NoVisit]
  OBVIOUS
<1>4. PICK ls, ch : ls = PlanLocks(k, existing) /\ ch = [NoOwnWrites EXCEPT !.visit = after]
  OBVIOUS
<1>5. contract[k].status = "active" /\ Begin(w, ls, Nothing) /\ WriteOwn(w, ch)
  BY <1>2, <1>3, <1>4
\* The days asked for.
<1>6. \A d \in asked : Month(d) = m /\ d \in contract[k].from..contract[k].to
  BY <1>2
<1>7. (\A v \in vs : kept[v] \in asked) /\ \A v \in fresh : days[v] \in asked
  BY <1>1, <1>2 DEF Increasing
<1>8. \A u, v \in vs : u # v => kept[u] # kept[v]
  BY <1>2
<1>9. \A u \in fresh, v \in vs : days[u] # kept[v]
  BY <1>2 DEF Increasing
<1>10. \A d \in asked, v \in stay : visit[v].day # d
  BY <1>2
\* The visits.
<1>11. \A v \in fresh : v \in FreeVisits /\ v \in VisitIds /\ visit[v] = NoVisit
  BY <1>1 DEF FirstFree, FreeVisits
<1>12. ASSUME NEW u \in fresh, NEW v \in fresh, u # v
       PROVE  days[u] # days[v]
  <2>1. u \in Nat /\ v \in Nat
    BY <1>11, DaysAssumption
  <2>2. days[u] \in Nat /\ days[v] \in Nat
    BY <1>2, DaysAssumption DEF Increasing, DaysOf
  <2>3. CASE u < v
    BY <1>2, <2>2, <2>3 DEF Increasing
  <2>4. CASE v < u
    BY <1>2, <2>2, <2>4 DEF Increasing
  <2> QED
    BY <1>12, <2>1, <2>3, <2>4
<1>13. /\ \A v \in existing : v \in VisitsOf(k) /\ Month(visit[v].day) = m
       /\ \A v \in VisitsOf(k) : v \in existing \/ Month(visit[v].day) # m
  BY <1>1 DEF MonthsVisits
<1>14. \A v \in VisitsOf(k) : /\ v \in VisitIds /\ visit[v] # NoVisit /\ visit[v].contract = k
                              /\ visit[v] \in VisitRows /\ visit[v].status # "absent"
                              /\ visit[v].day \in contract[k].from..contract[k].to
                              /\ (visit[v].status = "completed") = (visit[v].delivered # 0)
  BY VisitFacts
<1>15. \A v \in existing : v \in stay \/ v \in vs \/ visit[v].status = "planned"
  BY <1>1 DEF Preserved
<1>16. vs \subseteq existing /\ stay \subseteq existing /\ stay \cap vs = {}
  BY <1>1 DEF Preserved
<1>17. existing \cap fresh = {}
  BY <1>11, <1>13, <1>14
\* Their rows, one kind at a time.
<1>18. ASSUME NEW v \in fresh
       PROVE  /\ after[v].status = "planned" /\ after[v].contract = k /\ after[v].day = days[v]
              /\ after[v].delivered = 0 /\ after[v] \in VisitRows
  <2>1. after[v] = PlannedVisit(k, days[v]) /\ days[v] \in Days
    BY <1>2, <1>3 DEF Increasing, DaysOf
  <2> QED
    BY <2>1, PlannedFields
<1>19. \A v \in stay : after[v] = visit[v]
  BY <1>3, <1>16, <1>17
<1>20. ASSUME NEW v \in vs
       PROVE  /\ after[v].status = visit[v].status /\ after[v].contract = k /\ after[v].day = kept[v]
              /\ after[v].delivered = visit[v].delivered /\ after[v] \in VisitRows
              /\ ~Editable(v) => after[v] = visit[v]
  <2>1. after[v] = MovedVisit(visit[v], kept[v]) /\ kept[v] \in Days
    BY <1>3, <1>16, <1>17 DEF DaysOf
  <2>2. visit[v] \in VisitRows /\ visit[v].contract = k
    BY <1>13, <1>14, <1>16
  <2>3. Editable(v) \/ kept[v] = visit[v].day
    BY <1>2
  <2> QED
    BY <2>1, <2>2, <2>3, MovedFields
<1>21. /\ DOMAIN after = existing \cup fresh
       /\ \A v \in DOMAIN after : v \in fresh \/ v \in stay \/ v \in vs \/ after[v] = NoVisit
  BY <1>3
<1>22. ASSUME NEW v \in DOMAIN after, after[v] # NoVisit
       PROVE  /\ after[v].contract = k /\ after[v].day \in contract[k].from..contract[k].to
              /\ (after[v].status = "completed") = (after[v].delivered # 0)
              /\ Month(after[v].day) = m /\ after[v].status # "absent" /\ after[v] \in VisitRows
  <2>1. CASE v \in fresh
    BY <1>6, <1>7, <1>18, <2>1
  <2>2. CASE v \in stay
    BY <1>13, <1>14, <1>16, <1>19, <2>2
  <2>3. CASE v \in vs
    <3>1. Month(kept[v]) = m /\ kept[v] \in contract[k].from..contract[k].to
      BY <1>6, <1>7, <2>3
    <3>2. v \in VisitsOf(k)
      BY <1>13, <1>16, <2>3
    <3> QED
      BY <1>14, <1>20, <2>3, <3>1, <3>2
  <2> QED
    BY <1>21, <1>22, <2>1, <2>2, <2>3
<1>23. ASSUME NEW v \in DOMAIN after
       PROVE  VisitOK(ls, DOMAIN after, v, after[v])
  <2>1. v \in VisitIds /\ (visit[v] # NoVisit => visit[v].contract = k)
    BY <1>11, <1>13, <1>14, <1>21
  <2>2. visit[v].status \in {"completed", "cancelled"} => after[v] = visit[v]
    <3>1. CASE v \in fresh
      BY <1>11, <3>1 DEF NoVisit
    <3>2. CASE v \in stay
      BY <1>19, <3>2
    <3>3. CASE v \in vs
      BY <1>20, <3>3 DEF Editable
    <3>4. CASE v \in existing /\ v \notin stay /\ v \notin vs
      BY <1>15, <3>4
    <3> QED
      BY <1>21, <3>1, <3>2, <3>3, <3>4
  <2>3. NoVisit \in VisitRows /\ NoVisit.status = "absent"
    BY DEF NoVisit, VisitRows
  <2>4. ASSUME after[v] # NoVisit, NEW u \in VisitsOf(k) \ DOMAIN after
        PROVE  visit[u].day # after[v].day
    BY <1>13, <1>21, <1>22, <2>4
  <2>5. <<"contract", k>> \in ls
    BY <1>4 DEF PlanLocks, ContractLock
  <2> QED
    BY <1>5, <1>22, <2>1, <2>2, <2>3, <2>4, <2>5 DEF VisitOK
<1>24. ASSUME NEW u \in DOMAIN after, NEW v \in DOMAIN after, u # v,
              \/ u \in fresh /\ v \in fresh \cup stay \cup vs
              \/ u \in vs /\ v \in stay \cup vs
              \/ u \in stay /\ v \in stay
       PROVE  after[u].day # after[v].day
  <2>1. CASE u \in fresh /\ v \in fresh
    BY <1>12, <1>18, <1>24, <2>1
  <2>2. CASE u \in fresh /\ v \in stay
    BY <1>7, <1>10, <1>18, <1>19, <2>2
  <2>3. CASE u \in fresh /\ v \in vs
    BY <1>9, <1>18, <1>20, <2>3
  <2>4. CASE u \in vs /\ v \in stay
    BY <1>7, <1>10, <1>19, <1>20, <2>4
  <2>5. CASE u \in vs /\ v \in vs
    BY <1>8, <1>20, <1>24, <2>5
  <2>6. CASE u \in stay /\ v \in stay
    <3>1. u \in VisitsOf(k) /\ v \in VisitsOf(k)
      BY <1>13, <1>16, <2>6
    <3>2. visit[u].day # visit[v].day
      BY <1>14, <1>24, <3>1 DEF ContractsInv, OwnTables, VisitsFit
    <3> QED
      BY <1>19, <2>6, <3>2
  <2> QED
    BY <1>24, <2>1, <2>2, <2>3, <2>4, <2>5, <2>6
<1>25. ASSUME NEW u \in DOMAIN after, NEW v \in DOMAIN after, u # v, after[u] # NoVisit,
              after[u].contract = after[v].contract
       PROVE  after[u].day # after[v].day
  <2>1. after[v] # NoVisit
    <3>1. after[v].contract = k /\ k # None
      BY <1>22, <1>25, IdsAssumption
    <3> QED
      BY <3>1 DEF NoVisit
  <2>2. (u \in fresh \/ u \in stay \/ u \in vs) /\ (v \in fresh \/ v \in stay \/ v \in vs)
    BY <1>21, <1>25, <2>1
  <2> QED
    BY <1>24, <1>25, <2>2
\* The transaction.
<1>26. ch.visit = after /\ DOMAIN ch.contract = {} /\ DOMAIN ch.bill = {} /\ DOMAIN ch.item = {}
  BY <1>4, FieldsOfOwnWrites
<1>27. DOMAIN Nothing.link = {} /\ DOMAIN Nothing.project = {} /\ DOMAIN Nothing.task = {}
  BY DEF Nothing
<1>28. VisitsOK(ls, ch)
  BY <1>23, <1>25, <1>26 DEF VisitsOK
<1>29. OwnOK(ls, Nothing, ch)
  BY <1>26, <1>27, <1>28 DEF OwnOK, ContractsOK, Unclaimed, BillsOK, ItemsOK
<1>30. NewVisitsFree(ch)
  BY <1>11, <1>13, <1>14, <1>21, <1>26 DEF NewVisitsFree
<1>31. SoundBegin(w, ls, Nothing)
  BY <1>5, NothingSound
<1> QED
  BY <1>5, <1>29, <1>30, <1>31 DEF OwnBegin

UpdatedStatuses == {"planned", "makeup", "completed", "cancelled"}
UpdatedVisit(row, status, delivered) == [row EXCEPT !.status = status, !.delivered = delivered]
WorkItem(c, p) == [NoTask EXCEPT !.status = "done", !.customer = c, !.project = p, !.visit = TRUE]

LEMMA UpdatedVisitFields ==
  ASSUME NEW old \in VisitRows, NEW status \in UpdatedStatuses,
         NEW delivered \in Days \cup {0}, NEW row, row = UpdatedVisit(old, status, delivered)
  PROVE  /\ row.status = status /\ row.contract = old.contract /\ row.day = old.day
         /\ row.delivered = delivered /\ row \in VisitRows
         /\ status = old.status /\ delivered = old.delivered => row = old
BY DEF UpdatedVisit, UpdatedStatuses, VisitRows

\* The task of a work item.
LEMMA WorkItemOK ==
  ASSUME PortfolioInv, NEW c \in Customers, NEW p \in Projects, ReferencesHold(c, p),
         NEW t \in NewIds, NEW ls, ReferenceLocks(c, p) \subseteq ls, NEW row, row = WorkItem(c, p)
  PROVE  /\ TaskOK(ls, t, row) /\ row.from = None
         /\ row.visit /\ row.status = "done" /\ row.customer = c
<1>1. row = [status |-> "done", archived |-> FALSE, customer |-> c, project |-> p, left |-> 0,
             visit |-> TRUE, from |-> None]
  BY DEF WorkItem, NoTask
<1>2. row \in TaskRows
  <2>1. /\ "done" \in TaskStatuses \cup {"absent"} /\ FALSE \in BOOLEAN /\ TRUE \in BOOLEAN
        /\ None \in Tasks \cup {None} /\ c \in Customers \cup {None} /\ p \in Projects \cup {None}
    BY DEF TaskStatuses
  <2>2. 0 \in 0..MaxLeft
    BY TasksAssumption
  <2> QED
    BY <1>1, <2>1, <2>2 DEF TaskRows
<1>3. /\ row.status = "done" /\ row.archived = FALSE /\ row.from = None /\ row.visit = TRUE
      /\ row.customer = c /\ row.project = p
  BY <1>1
<1>4. t \in Tasks /\ task[t] = NoTask
  BY DEF NewIds
<1>5. Referred(ls, c, p)
  BY DEF Referred
<1>6. TaskOK(ls, t, row)
  BY <1>2, <1>3, <1>4, <1>5 DEF TaskOK, NeedsLink
<1> QED
  BY <1>3, <1>6

LEMMA UpdateVisitSound ==
  ASSUME ContractsInv, NEW w \in Workers, NEW v \in VisitIds,
         NEW status \in UpdatedStatuses,
         NEW delivered \in Days \cup {0}, NEW named \in SUBSET Tasks, NEW unnamed \in BOOLEAN,
         UpdateMonthlyVisitWithWorkItems(w, v, status, delivered, named, unnamed)
  PROVE  \E ls, ws, ch : OwnBegin(w, ls, ws, ch)
<1>1. PICK k, c, p, created :
        /\ k = visit[v].contract /\ c = contract[k].customer /\ p = contract[k].project
        /\ created = {t \in named : item[t] # v} \cup IF unnamed THEN {NewId} ELSE {}
  OBVIOUS
<1>2. PICK ls : ls = PlanLocks(k, {v}) \cup (UNION {TaskLock(t) : t \in created})
                     \cup IF created # {} THEN ReferenceLocks(c, p) ELSE {}
  OBVIOUS
<1>31. PICK row, items : row = UpdatedVisit(visit[v], status, delivered) /\ items = [t \in created |-> v]
  OBVIOUS
<1>32. PICK ws, ch : /\ ws = [Nothing EXCEPT !.task = [t \in created |-> WorkItem(c, p)]]
                     /\ ch = [NoOwnWrites EXCEPT !.visit = RowAt(v, row), !.item = items]
  OBVIOUS
<1>3. /\ Resolution(v, status, delivered, ~unnamed)
      /\ contract[k].status = "active"
      /\ named # {} \/ unnamed => status = "completed"
      /\ {t \in named : item[t] # v} \subseteq NewIds
      /\ unnamed => NewIds # {}
      /\ created # {} => ReferencesHold(c, p)
      /\ Begin(w, ls, ws) /\ WriteOwn(w, ch)
  BY <1>1, <1>2, <1>31, <1>32 DEF UpdateMonthlyVisitWithWorkItems, WorkItem, UpdatedVisit
<1>4. /\ visit[v].status \notin {"absent", "cancelled"}
      /\ visit[v].status = "completed" => status = "completed" /\ delivered = visit[v].delivered
      /\ (status = "completed") = (delivered # 0)
  BY <1>3 DEF Resolution
<1>5. visit[v] # NoVisit /\ k \in ContractIds /\ v \in VisitsOf(k)
  <2>1. visit[v] # NoVisit
    BY <1>4 DEF NoVisit
  <2> QED
    BY <1>1, <2>1 DEF ContractsInv, OwnTables, VisitsOwned, VisitsOf
<1>6. /\ visit[v] \in VisitRows /\ visit[v].contract = k /\ contract[k] # NoContract
      /\ visit[v].day \in contract[k].from..contract[k].to
  BY <1>5, VisitFacts
<1>7. c \in Customers /\ p \in Projects
  <2>1. contract[k] \in ContractRows
    BY <1>5, <1>6 DEF ContractsInv, OwnTables, ContractsShaped
  <2> QED
    BY <1>1, <2>1 DEF ContractRows
<1>8. created \subseteq NewIds /\ (created # {} => status = "completed" /\ ReferenceLocks(c, p) \subseteq ls)
  <2>1. unnamed => NewId \in NewIds
    BY <1>3, NewIdIsNew
  <2>2. created \subseteq NewIds
    BY <1>1, <1>3, <2>1
  <2>3. created # {} => named # {} \/ unnamed
    BY <1>1
  <2>4. created # {} => ReferenceLocks(c, p) \subseteq ls
    BY <1>2
  <2> QED
    BY <1>3, <2>2, <2>3, <2>4
<1>9. <<"contract", k>> \in ls
  BY <1>2 DEF PlanLocks, ContractLock
<1>10. /\ row.status = status /\ row.contract = k /\ row.day = visit[v].day
       /\ row.delivered = delivered /\ row \in VisitRows
       /\ status = visit[v].status /\ delivered = visit[v].delivered => row = visit[v]
  <2>1. PICK old \in VisitRows : old = visit[v]
    BY <1>6
  <2>2. row = UpdatedVisit(old, status, delivered)
    BY <1>31, <2>1
  <2>3. /\ row.status = status /\ row.contract = old.contract /\ row.day = old.day
        /\ row.delivered = delivered /\ row \in VisitRows
        /\ status = old.status /\ delivered = old.delivered => row = old
    BY <2>2, UpdatedVisitFields
  <2> QED
    BY <1>6, <2>1, <2>3
\* The new tasks.
<1>11. /\ ws.customer = <<>> /\ ws.project = <<>> /\ ws.link = <<>>
       /\ ws.task = [t \in created |-> WorkItem(c, p)]
  BY <1>32, FieldsOfWrites
<1>12. DOMAIN ws.task = created /\ \A t \in created : ws.task[t] = WorkItem(c, p)
  BY <1>11
<1>13. ASSUME NEW t \in created
       PROVE  /\ TaskOK(ls, t, ws.task[t]) /\ ws.task[t].from = None /\ task[t] = NoTask
              /\ ws.task[t].visit /\ ws.task[t].status = "done" /\ ws.task[t].customer = c
  <2>1. t \in NewIds /\ ReferencesHold(c, p) /\ ReferenceLocks(c, p) \subseteq ls
    BY <1>3, <1>8
  <2>2. PICK task1 : task1 = WorkItem(c, p)
    OBVIOUS
  <2>3. /\ TaskOK(ls, t, task1) /\ task1.from = None
        /\ task1.visit /\ task1.status = "done" /\ task1.customer = c
    <3>1. PortfolioInv
      BY DEF ContractsInv
    <3> QED
      BY <1>7, <2>1, <2>2, <3>1, WorkItemOK
  <2>4. ws.task[t] = task1 /\ task[t] = NoTask
    BY <1>12, <2>1, <2>2 DEF NewIds
  <2> QED
    BY <2>3, <2>4
<1>14. SoundBegin(w, ls, ws)
  <2>1. /\ \A t \in DOMAIN ws.task : TaskOK(ls, t, ws.task[t])
        /\ \A t, u \in DOMAIN ws.task :
             ws.task[t].from = ws.task[u].from /\ ws.task[t].from # None => t = u
    BY <1>12, <1>13
  <2>2. WritesOK(ls, ws)
    BY <1>11, <2>1, SoundTaskWrites
  <2>3. NewRowsFree(ws)
    BY <1>8, <1>12 DEF NewRowsFree, NewIds
  <2> QED
    BY <1>3, <2>2, <2>3 DEF SoundBegin
\* The visit and its items.
<1>15. ch.contract = <<>> /\ ch.visit = RowAt(v, row) /\ ch.bill = <<>> /\ ch.item = items
  BY <1>32, FieldsOfOwnWrites
<1>16. /\ DOMAIN ch.visit = {v} /\ ch.visit[v] = row
       /\ DOMAIN ch.item = created /\ \A t \in created : ch.item[t] = v
       /\ DOMAIN ch.contract = {} /\ DOMAIN ch.bill = {} /\ DOMAIN ws.link = {} /\ DOMAIN ws.project = {}
  BY <1>31, <1>11, <1>15 DEF RowAt
<1>17. ASSUME NEW u \in VisitsOf(k) \ {v}
       PROVE  visit[u].day # row.day
  <2>1. u \in VisitIds /\ visit[u].contract = visit[v].contract
    BY <1>6 DEF VisitsOf
  <2> QED
    BY <1>5, <1>10, <1>17, <2>1 DEF ContractsInv, OwnTables, VisitsFit
<1>18. VisitOK(ls, {v}, v, row)
  <2>1. visit[v].status \in {"completed", "cancelled"} => row = visit[v]
    BY <1>4, <1>10
  <2>2. row.status # "absent"
    BY <1>10 DEF UpdatedStatuses
  <2>3. (row.status = "completed") = (row.delivered # 0)
    BY <1>4, <1>10
  <2>4. row.day \in contract[k].from..contract[k].to
    BY <1>6, <1>10
  <2> QED
    BY <1>3, <1>5, <1>6, <1>9, <1>10, <1>17, <2>1, <2>2, <2>3, <2>4 DEF VisitOK
<1>19. VisitsOK(ls, ch)
  BY <1>16, <1>18 DEF VisitsOK
<1>20. ItemsOK(ls, ws, ch)
  <2>1. ASSUME NEW t \in created
        PROVE  /\ t \in DOMAIN ws.task /\ task[t] = NoTask
               /\ ch.item[t] \in DOMAIN ch.visit /\ ch.visit[ch.item[t]].status = "completed"
               /\ ws.task[t].visit /\ ws.task[t].status = "done"
               /\ ws.task[t].customer = contract[ch.visit[ch.item[t]].contract].customer
    <3>1. ch.item[t] = v /\ ch.visit[v] = row /\ v \in DOMAIN ch.visit
      BY <1>16
    <3>2. row.status = "completed" /\ contract[row.contract].customer = c
      BY <1>1, <1>8, <1>10
    <3> QED
      BY <1>12, <1>13, <3>1, <3>2
  <2> QED
    BY <1>12, <1>16, <2>1 DEF ItemsOK
<1>21. OwnOK(ls, ws, ch)
  BY <1>16, <1>19, <1>20 DEF OwnOK, ContractsOK, Unclaimed, BillsOK
<1>22. NewVisitsFree(ch)
  BY <1>5, <1>16 DEF NewVisitsFree
<1> QED
  BY <1>3, <1>14, <1>21, <1>22 DEF OwnBegin

\* No request of Portfolio makes or edits the task of a visit.
VisitTaskKept(t, row) ==
  /\ row.visit = task[t].visit
  /\ task[t].visit => row.status = task[t].status /\ row.customer = task[t].customer
VisitTasksKept(ws) == \A t \in DOMAIN ws.task : VisitTaskKept(t, ws.task[t])

LEMMA RequestFields ==
  ASSUME PortfolioInv, NEW w \in Workers, NEW ls, NEW ws, Begin(w, ls, ws)
  PROVE  tx'[w].writes = ws
BY DEF Begin, PortfolioInv, TxInv

LEMMA PartiesKeepVisitTasks ==
  ASSUME PortfolioInv, NEW w \in Workers,
         \/ CustomersApi(w) \/ CustomerApi(w) \/ CustomerLifecycleApi(w)
         \/ ProjectsApi(w) \/ ProjectApi(w) \/ ProjectLifecycleApi(w)
  PROVE  \E ls, ws : Begin(w, ls, ws) /\ VisitTasksKept(ws)
<1>1. ASSUME NEW ls, NEW ws, Begin(w, ls, ws), ws.task = <<>>
      PROVE  \E ks, vs : Begin(w, ks, vs) /\ VisitTasksKept(vs)
  <2>1. VisitTasksKept(ws)
    BY <1>1, NoRows DEF VisitTasksKept
  <2> QED
    BY <1>1, <2>1
<1>2. CASE CustomersApi(w)
  <2>1. PICK c \in Customers, status \in AskedCustomerStatuses, ps \in (SUBSET Projects) \ {{}} :
          CreateCustomer(w, c, status, ps)
    BY <1>2 DEF CustomersApi
  <2>2. PICK row : row = [NoCustomer EXCEPT !.status = status]
    OBVIOUS
  <2>3. PICK ws : ws = [CustomerWrite(c, row) EXCEPT !.link = Replaced(c, ps)]
    OBVIOUS
  <2>4. Begin(w, CustomerLock(c) \cup ProjectLocks(ps), ws)
    BY <2>1, <2>2, <2>3 DEF CreateCustomer
  <2>5. ws.task = <<>>
    BY <2>3, FieldsOfWrites
  <2> QED
    BY <1>1, <2>4, <2>5
<1>3. CASE CustomerApi(w)
  <2>1. PICK c \in Customers, ps \in SUBSET Projects, status \in AskedCustomerStatuses :
          UpdateCustomer(w, c, status, ps)
    BY <1>3 DEF CustomerApi
  <2>2. PICK row, rows, ls :
          /\ row = [customer[c] EXCEPT !.status = status]
          /\ rows = IF ps = {} THEN <<>> ELSE Replaced(c, ps)
          /\ ls = CustomerLock(c) \cup IF ps = {} THEN {} ELSE ProjectLocks(ps) \cup LinksRead(c)
    OBVIOUS
  <2>3. PICK ws : ws = [CustomerWrite(c, row) EXCEPT !.link = rows]
    OBVIOUS
  <2>4. Begin(w, ls, ws)
    BY <2>1, <2>2, <2>3 DEF UpdateCustomer
  <2>5. ws.task = <<>>
    BY <2>3, FieldsOfWrites
  <2> QED
    BY <1>1, <2>4, <2>5
<1>4. CASE CustomerLifecycleApi(w)
  <2>1. PICK c \in Customers, archive \in BOOLEAN : ChangeCustomerLifecycle(w, c, archive)
    BY <1>4 DEF CustomerLifecycleApi
  <2>2. PICK row : row = [customer[c] EXCEPT !.archived = archive]
    OBVIOUS
  <2>3. PICK ws : ws = CustomerWrite(c, row)
    OBVIOUS
  <2>4. Begin(w, CustomerLock(c), ws)
    BY <2>1, <2>2, <2>3 DEF ChangeCustomerLifecycle
  <2>5. ws.task = <<>>
    BY <2>3, FieldsOfWrites
  <2> QED
    BY <1>1, <2>4, <2>5
<1>5. ASSUME NEW p, NEW row, Begin(w, ProjectLocks({p}), ProjectWrite(p, row))
      PROVE  \E ks, vs : Begin(w, ks, vs) /\ VisitTasksKept(vs)
  <2>1. PICK ws : ws = ProjectWrite(p, row)
    OBVIOUS
  <2>2. ws.task = <<>>
    BY <2>1, FieldsOfWrites
  <2> QED
    BY <1>1, <1>5, <2>1, <2>2
<1>6. CASE ProjectsApi(w)
  BY <1>5, <1>6 DEF ProjectsApi, CreateProject
<1>7. CASE ProjectApi(w)
  BY <1>5, <1>7 DEF ProjectApi, UpdateProject
<1>8. CASE ProjectLifecycleApi(w)
  BY <1>5, <1>8 DEF ProjectLifecycleApi, ChangeProjectLifecycle
<1> QED
  BY <1>2, <1>3, <1>4, <1>6, <1>7, <1>8

LEMMA NewTaskKeepsVisitTasks ==
  ASSUME PortfolioInv, NEW w \in Workers, TasksApi(w)
  PROVE  \E ls, ws : Begin(w, ls, ws) /\ VisitTasksKept(ws)
<1>1. PICK parents \in Parents, status \in AskedTaskStatuses, left \in Lefts :
        CreateTaskInTransaction(w, parents[1], parents[2], status, left, {})
  BY DEF TasksApi, CreateTask
<1>2. PICK c, p, row : /\ c = parents[1] /\ p = parents[2] /\ row = NewTask(c, p, status, left)
  OBVIOUS
<1>3. PICK ws : ws = TaskWrite(NewId, row)
  OBVIOUS
<1>4. NewIds # {} /\ Begin(w, {} \cup ReferenceLocks(c, p), ws)
  BY <1>1, <1>2, <1>3 DEF CreateTaskInTransaction, NewTask
<1>5. ws.task = RowAt(NewId, row)
  BY <1>3, FieldsOfWrites
<1>6. DOMAIN ws.task = {NewId} /\ ws.task[NewId] = row
  BY <1>5 DEF RowAt
<1>7. task[NewId] = NoTask
  BY <1>4, NewIdIsNew DEF NewIds
<1>8. row.visit = FALSE /\ NoTask.visit = FALSE
  BY <1>2 DEF NewTask, NoTask
<1>9. VisitTasksKept(ws)
  BY <1>6, <1>7, <1>8 DEF VisitTasksKept, VisitTaskKept
<1> QED
  BY <1>4, <1>9

LEMMA EditedTaskKeepsVisitTasks ==
  ASSUME PortfolioInv, NEW w \in Workers, TaskApi(w)
  PROVE  \E ls, ws : Begin(w, ls, ws) /\ VisitTasksKept(ws)
<1>1. PICK t, parents, status, left, reassign, after :
        /\ t \in Tasks /\ parents \in Parents /\ status \in AskedTaskStatuses /\ left \in Lefts
        /\ reassign \in BOOLEAN
        /\ after = Edited(t, parents[1], parents[2], status, left)
        /\ UpdateTask(w, t, after, reassign)
  BY DEF TaskApi, Edited
<1>2. task[t] \in TaskRows /\ task[t] # NoTask
  BY <1>1 DEF PortfolioInv, TablesInv, PortfolioTypeOK, UpdateTask, Live, NoTask
<1>3. after.visit = task[t].visit
  BY <1>1, <1>2 DEF Edited, TaskRows
<1>4. task[t].visit => after = task[t]
  BY <1>1 DEF UpdateTask, VisitFieldsKept
<1>5. VisitTaskKept(t, after)
  BY <1>3, <1>4 DEF VisitTaskKept
<1>6. CASE Generates(t, after)
  <2>1. PICK two : two = [u \in {t, NewId} |-> IF u = t THEN after ELSE Successor(t, after)]
    OBVIOUS
  <2>2. PICK ws : ws = [Nothing EXCEPT !.task = two]
    OBVIOUS
  <2>3. NewIds # {} /\ \E ls : Begin(w, ls, ws)
    BY <1>1, <1>6, <2>1, <2>2 DEF UpdateTask
  <2>4. task[NewId] = NoTask /\ NewId # t
    BY <1>2, <2>3, NewIdIsNew DEF NewIds
  <2>5. task[t].visit = FALSE
    <3>1. task[t].visit \in BOOLEAN
      BY <1>2 DEF TaskRows
    <3>2. ~task[t].visit
      BY <1>4, <1>6 DEF Generates
    <3> QED
      BY <3>1, <3>2
  <2>6. PICK row : row = Successor(t, after)
    OBVIOUS
  <2>7. row.visit = after.visit /\ NoTask.visit = FALSE
    <3>1. after \in TaskRows => row.visit = after.visit
      BY <2>6 DEF Successor, TaskRows
    <3>2. DOMAIN after = DOMAIN task[t]
      BY <1>1 DEF Edited
    <3>3. DOMAIN task[t] = {"status", "archived", "customer", "project", "left", "visit", "from"}
      BY <1>2 DEF TaskRows
    <3>4. row.visit = after.visit
      BY <2>6, <3>2, <3>3 DEF Successor
    <3> QED
      BY <3>4 DEF NoTask
  <2>8. ws.task = two
    BY <2>2, FieldsOfWrites
  <2>9. DOMAIN ws.task = {t, NewId} /\ ws.task[t] = after /\ ws.task[NewId] = row
    BY <2>1, <2>4, <2>6, <2>8
  <2>10. VisitTaskKept(NewId, row)
    BY <1>3, <2>4, <2>5, <2>7 DEF VisitTaskKept
  <2>11. VisitTasksKept(ws)
    BY <1>5, <2>9, <2>10 DEF VisitTasksKept
  <2> QED
    BY <2>3, <2>11
<1>7. CASE ~Generates(t, after)
  <2>1. PICK ws : ws = TaskWrite(t, after)
    OBVIOUS
  <2>2. \E ls : Begin(w, ls, ws)
    BY <1>1, <1>7, <2>1 DEF UpdateTask
  <2>3. ws.task = RowAt(t, after)
    BY <2>1, FieldsOfWrites
  <2>4. VisitTasksKept(ws)
    BY <1>5, <2>3 DEF VisitTasksKept, RowAt
  <2> QED
    BY <2>2, <2>4
<1> QED
  BY <1>6, <1>7

LEMMA ArchivedTaskKeepsVisitTasks ==
  ASSUME PortfolioInv, NEW w \in Workers, TaskLifecycleApi(w)
  PROVE  \E ls, ws : Begin(w, ls, ws) /\ VisitTasksKept(ws)
<1>1. PICK t \in Tasks, archive \in BOOLEAN : ChangeTaskLifecycle(w, t, archive)
  BY DEF TaskLifecycleApi
<1>2. PICK row : row = [task[t] EXCEPT !.archived = archive]
  OBVIOUS
<1>3. PICK ws : ws = TaskWrite(t, row)
  OBVIOUS
<1>4. \E ls : Begin(w, ls, ws)
  BY <1>1, <1>2, <1>3 DEF ChangeTaskLifecycle
<1>5. task[t] \in TaskRows
  BY DEF PortfolioInv, TablesInv, PortfolioTypeOK
<1>6. row.visit = task[t].visit /\ row.status = task[t].status /\ row.customer = task[t].customer
  BY <1>2, <1>5 DEF TaskRows
<1>7. ws.task = RowAt(t, row)
  BY <1>3, FieldsOfWrites
<1>8. VisitTasksKept(ws)
  BY <1>6, <1>7 DEF VisitTasksKept, VisitTaskKept, RowAt
<1> QED
  BY <1>4, <1>8

LEMMA RequestsKeepVisitTasks ==
  ASSUME PortfolioInv, NEW w \in Workers, Request(w)
  PROVE  VisitTasksKept(tx'[w].writes)
<1>1. PICK ls, ws : Begin(w, ls, ws) /\ VisitTasksKept(ws)
  BY PartiesKeepVisitTasks, NewTaskKeepsVisitTasks, EditedTaskKeepsVisitTasks,
     ArchivedTaskKeepsVisitTasks DEF Request
<1>2. ws = tx'[w].writes
  BY <1>1, RequestFields
<1> QED
  BY <1>1, <1>2

LEMMA PortfolioApiSound ==
  ASSUME ContractsInv, NEW w \in Workers, PortfolioApi(w)
  PROVE  \E ls, ws, ch : OwnBegin(w, ls, ws, ch)
<1>1. Request(w) /\ NotClaimed(tx'[w].writes) /\ UNCHANGED <<own, ownWrites>> /\ PortfolioInv
  BY DEF PortfolioApi, ContractsInv
<1>2. PICK ls, ws : SoundBegin(w, ls, ws)
  BY <1>1, RequestsSound
<1>3. ws = tx'[w].writes
  BY <1>1, <1>2, RequestFields DEF SoundBegin
<1>4. NotClaimed(ws) /\ VisitTasksKept(ws) /\ WritesOK(ls, ws)
  BY <1>1, <1>2, <1>3, RequestsKeepVisitTasks DEF SoundBegin
<1>5. ASSUME NEW c \in Customers, NEW p \in Projects, Claimed(c, p)
      PROVE  link[<<c, p>>] = "active" /\ ~project[p].archived
  BY <1>5 DEF Claimed, ContractsInv, OwnTables, UnclosedContractsSound
<1>6. Unclaimed(ws)
  <2>1. ASSUME NEW c \in Customers, NEW p \in Projects, <<c, p>> \in DOMAIN ws.link,
               ws.link[<<c, p>>] # "active"
        PROVE  ~Claimed(c, p)
    <3>1. ws.link[<<c, p>>] = "inactive"
      BY <1>4, <2>1 DEF WritesOK, LinksOK
    <3>2. <<c, p>>[1] = c /\ <<c, p>>[2] = p
      OBVIOUS
    <3> QED
      BY <1>4, <1>5, <2>1, <3>1, <3>2 DEF NotClaimed
  <2>2. ASSUME NEW c \in Customers, NEW p \in DOMAIN ws.project, ws.project[p].archived
        PROVE  ~Claimed(c, p)
    <3>1. p \in Projects
      BY <1>4, <2>2 DEF WritesOK, ProjectsOK
    <3> QED
      BY <1>4, <1>5, <2>2, <3>1 DEF NotClaimed
  <2> QED
    BY <2>1, <2>2 DEF Unclaimed
<1>7. PICK ch : ch = NoOwnWrites
  OBVIOUS
<1>8. DOMAIN ch.contract = {} /\ DOMAIN ch.visit = {} /\ DOMAIN ch.bill = {} /\ DOMAIN ch.item = {}
  BY <1>7 DEF NoOwnWrites
<1>9. OwnOK(ls, ws, ch)
  BY <1>4, <1>6, <1>8 DEF OwnOK, ContractsOK, VisitsOK, BillsOK, ItemsOK, VisitTasksKept, VisitTaskKept
<1>10. NewVisitsFree(ch)
  BY <1>8 DEF NewVisitsFree
<1>11. ownWrites[w] = ch
  BY <1>2, <1>7 DEF ContractsInv, OwnTx, SoundBegin, Begin
<1>12. WriteOwn(w, ch)
  BY <1>1, <1>11 DEF WriteOwn, ContractsInv, OwnTx
<1> QED
  BY <1>2, <1>9, <1>10, <1>12 DEF OwnBegin

-----------------------------------------------------------------------------
(* Contracts: the theorems.                                                *)

ContractsStep(w) == (\E ls, ws, ch : OwnBegin(w, ls, ws, ch)) \/ ContractsCommit(w) \/ ContractsFail(w)

LEMMA ContractsStepSound ==
  ASSUME ContractsInv, ContractsNext
  PROVE  \E w \in Workers : ContractsStep(w)
<1> PICK w \in Workers :
      \/ PortfolioApi(w)
      \/ ContractsApi(w) \/ ContractApi(w) \/ ContractLifecycleApi(w)
      \/ MonthPlansApi(w) \/ VisitsApi(w)
      \/ GenerateApi(w) \/ OpeningBalanceApi(w) \/ CollectionsApi(w)
      \/ ContractsCommit(w) \/ ContractsFail(w)
  BY DEF ContractsNext
<1>1. AskedTerms \subseteq Terms
  BY DEF AskedTerms
<1>2. CASE ContractsApi(w)
  BY <1>1, <1>2, CreateContractSound DEF ContractsApi, ContractsStep
<1>3. CASE ContractApi(w)
  BY <1>1, <1>3, UpdateContractSound DEF ContractApi, ContractsStep
<1>4. CASE ContractLifecycleApi(w)
  BY <1>4, ChangeContractSound DEF ContractLifecycleApi, ContractsStep
<1>5. CASE MonthPlansApi(w)
  <2>1. PICK k \in ContractIds, m \in AskedMonths :
          \E kept \in Plans(k, m), added \in SUBSET DaysOf(m) : ReplaceMonthlyVisitPlan(w, k, m, kept, added)
    BY <1>5 DEF MonthPlansApi
  <2>2. PICK kept \in Plans(k, m), added \in SUBSET DaysOf(m) : ReplaceMonthlyVisitPlan(w, k, m, kept, added)
    BY <2>1
  <2>3. PICK vs \in SUBSET MonthsVisits(k, m) : kept \in [vs -> DaysOf(m)]
    BY <2>2 DEF Plans
  <2> QED
    BY <2>2, <2>3, ReplacePlanSound DEF ContractsStep
<1>6. CASE VisitsApi(w)
  <2>1. PICK v \in VisitIds, status \in UpdatedStatuses,
             delivered \in Days \cup {0}, named \in SUBSET Tasks, unnamed \in BOOLEAN :
          UpdateMonthlyVisitWithWorkItems(w, v, status, delivered, named, unnamed)
    BY <1>6 DEF VisitsApi, UpdatedStatuses
  <2> QED
    BY <2>1, UpdateVisitSound DEF ContractsStep
<1>7. CASE GenerateApi(w)
  BY <1>7, GenerateSound DEF GenerateApi, ContractsStep
<1>8. CASE OpeningBalanceApi(w)
  BY <1>8, OpeningBalanceSound DEF OpeningBalanceApi, ContractsStep
<1>9. CASE CollectionsApi(w)
  BY <1>9, ChangeBillSound DEF CollectionsApi, CreateReceivableCollection,
     ReverseReceivableCollection, VoidReceivable, ContractsStep
<1>10. CASE PortfolioApi(w)
  BY <1>10, PortfolioApiSound DEF ContractsStep
<1>11. CASE ContractsCommit(w) \/ ContractsFail(w)
  BY <1>11 DEF ContractsStep
<1> QED
  BY <1>2, <1>3, <1>4, <1>5, <1>6, <1>7, <1>8, <1>9, <1>10, <1>11

LEMMA ContractsStart == ContractsInit => ContractsInv
<1> SUFFICES ASSUME ContractsInit
             PROVE  ContractsInv
  OBVIOUS
<1>1. /\ contract = [k \in ContractIds |-> NoContract] /\ visit = [v \in VisitIds |-> NoVisit]
      /\ bill = [b \in Bills |-> NoBill] /\ item = [t \in Tasks |-> None]
      /\ ownWrites = [w \in Workers |-> NoOwnWrites]
      /\ task = [t \in Tasks |-> NoTask] /\ tx = [w \in Workers |-> Idle]
  BY DEF ContractsInit, Init
<1>2. PortfolioInv
  BY PortfolioStarts DEF ContractsInit
<1>3. \A k \in ContractIds, m \in Months : <<k, m>> \in Bills
  BY DEF Bills
<1>4. NoVisit \in VisitRows /\ NoBill \in BillRows
  BY DEF NoVisit, NoBill, VisitRows, BillRows
<1>5. ContractsShaped /\ VisitsOwned /\ Billed
  BY <1>1, <1>3, <1>4 DEF ContractsShaped, VisitsOwned, Billed, NoBills
<1>6. UnclosedContractsSound
  BY <1>1 DEF UnclosedContractsSound, Unclosed, NoContract
<1>7. VisitsFit
  BY <1>1 DEF VisitsFit
<1>8. WorkDelivered
  BY <1>1 DEF WorkDelivered, NoTask
<1>9. BilledAsContracted
  BY <1>1, <1>3 DEF BilledAsContracted, BillsOf
<1>10. OwnTx
  <2>1. DOMAIN NoOwnWrites.visit = {}
    BY DEF NoOwnWrites
  <2>2. PICK ls, ws : ls = Idle.held /\ ws = Idle.writes
    OBVIOUS
  <2>3. DOMAIN ws.task = {} /\ DOMAIN ws.link = {} /\ DOMAIN ws.project = {}
    BY <2>2 DEF Idle, Nothing
  <2>4. OwnOK(ls, ws, NoOwnWrites)
    BY <2>3, NoOwnWritesOK
  <2>5. \A w \in Workers : OwnOK(tx[w].held, tx[w].writes, ownWrites[w])
    BY <1>1, <2>2, <2>4
  <2> QED
    BY <1>1, <2>1, <2>5 DEF OwnTx, VisitsApart
<1> QED
  BY <1>2, <1>5, <1>6, <1>7, <1>8, <1>9, <1>10 DEF ContractsInv, OwnTables

LEMMA ContractsInvHolds == ContractsSpec => []ContractsInv
<1>1. ContractsInv /\ [ContractsNext]_contractVars => ContractsInv'
  <2> SUFFICES ASSUME ContractsInv, [ContractsNext]_contractVars
               PROVE  ContractsInv'
    OBVIOUS
  <2>1. CASE ContractsNext
    BY <2>1, ContractsStepSound, OwnBeginKeeps, OwnCommitKeeps, OwnFailKeeps DEF ContractsStep
  <2>2. CASE UNCHANGED contractVars
    <3>1. UNCHANGED <<tables, own>> /\ UNCHANGED <<tables, tx>> /\ ownWrites' = ownWrites /\ tx' = tx
      BY <2>2 DEF contractVars, portfolioVars, tables, own
    <3>2. PortfolioInv' /\ OwnTables'
      BY <3>1, PortfolioFrame, OwnTablesFrame DEF ContractsInv
    <3>3. ASSUME NEW v \in Workers
          PROVE  OwnOK(tx[v].held, tx[v].writes, ownWrites[v])'
      <4> PICK ls, ws, ch : ls = tx[v].held /\ ws = tx[v].writes /\ ch = ownWrites[v]
        OBVIOUS
      <4>1. OwnOK(ls, ws, ch)
        BY DEF ContractsInv, OwnTx
      <4>2. OwnOK(ls, ws, ch)'
        BY <3>1, <4>1, OwnFrame
      <4> QED
        BY <3>1, <4>2
    <3>4. OwnTx'
      BY <3>1, <3>3 DEF ContractsInv, OwnTx, VisitsApart
    <3> QED
      BY <3>2, <3>4 DEF ContractsInv
  <2> QED
    BY <2>1, <2>2
<1> QED
  BY <1>1, ContractsStart, PTL DEF ContractsSpec

\* The rows of contracts, visits and receivables are of their types and keep the unique
\* key of contracts; contracts that are not closed do not overlap and keep their link and
\* their project; visits lie in the period of their contract, each on its own day
\* (requireProjectForContract, findOverlappingContract, contractHasVisitOutsideRange,
\* contractHasLifecycleDependencies, and the locks around them).
THEOREM ContractsSoundHolds == ContractsSpec => []ContractsSound
<1>1. ContractsInv => ContractsSound
  <2> SUFFICES ASSUME ContractsInv
               PROVE  ContractsSound
    OBVIOUS
  <2>1. PortfolioTypeOK /\ ContractsShaped /\ UnclosedContractsSound /\ VisitsFit
    BY DEF ContractsInv, PortfolioInv, TablesInv, OwnTables
  <2>2. ASSUME NEW k \in ContractIds, contract[k] # NoContract
        PROVE  [contract[k] EXCEPT !.archived = FALSE] \in Terms /\ contract[k].from <= contract[k].to
    <3>1. contract[k] \in ContractRows /\ contract[k].from <= contract[k].to
      BY <2>1, <2>2 DEF ContractsShaped
    <3> QED
      BY <3>1 DEF ContractRows, Terms
  <2>3. ContractsTypeOK
    BY <2>1, <2>2 DEF ContractsTypeOK, ContractsShaped, VisitRows, BillRows
  <2> QED
    BY <2>1, <2>3 DEF ContractsSound
<1> QED
  BY <1>1, ContractsInvHolds, PTL

\* A task of a visit is done, for the customer of its contract, and the visit stays
\* completed, whatever is edited, moved or retried (updateMonthlyVisitInTransaction,
\* createTaskInTransaction, assertVisitTaskFieldsUnchanged).
THEOREM WorkDeliveredHolds == ContractsSpec => []WorkDelivered
<1>1. ContractsInv => WorkDelivered
  BY DEF ContractsInv, OwnTables
<1> QED
  BY <1>1, ContractsInvHolds, PTL

\* The receivable of a contract's month is for its customer and its project for good
\* (generateContractMonthReceivable and the check before a contract is moved).
THEOREM BilledAsContractedHolds == ContractsSpec => []BilledAsContracted
<1>1. ContractsInv => BilledAsContracted
  BY DEF ContractsInv, OwnTables
<1> QED
  BY <1>1, ContractsInvHolds, PTL

\* No plan, however old its reading, changes a visit that was made or cancelled
\* (replaceMonthlyVisitPlan under the lock of the contract).
THEOREM FinalVisitsKeptHolds == ContractsSpec => FinalVisitsKept
<1> DEFINE A == \A v \in VisitIds : visit[v].status \in {"completed", "cancelled"} => visit'[v] = visit[v]
<1>1. ContractsInv /\ [ContractsNext]_contractVars => [A]_contractVars
  <2> SUFFICES ASSUME ContractsInv, [ContractsNext]_contractVars, NEW v \in VisitIds,
                      visit[v].status \in {"completed", "cancelled"}
               PROVE  visit'[v] = visit[v]
    OBVIOUS
  <2>1. CASE ContractsNext
    <3> PICK w \in Workers : ContractsStep(w)
      BY <2>1, ContractsStepSound
    <3>1. CASE ContractsCommit(w)
      BY <3>1, OwnCommitParts
    <3>2. CASE ~ContractsCommit(w)
      BY <3>2 DEF ContractsStep, OwnBegin, ContractsFail, WriteOwn, own
    <3> QED
      BY <3>1, <3>2
  <2>2. CASE UNCHANGED contractVars
    BY <2>2 DEF contractVars, own
  <2> QED
    BY <2>1, <2>2
<1> QED
  BY <1>1, ContractsInvHolds, PTL DEF ContractsSpec, FinalVisitsKept

=============================================================================
