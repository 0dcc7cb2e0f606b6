---------------------------- MODULE FinanceLedger ----------------------------
(***************************************************************************)
(* Receivables, their collections and the account ledger of                *)
(* src/features/finance (service.ts, account-service.ts).                  *)
(*                                                                         *)
(* Every operation is one database transaction under READ COMMITTED.  A    *)
(* locking read (FOR UPDATE) of a row that exists locks it until the end,  *)
(* one of a row that does not exist locks nothing; an insert locks its     *)
(* unique keys; either waits for another transaction's lock.  Until a      *)
(* transaction commits, the others see nothing it wrote.  A transaction    *)
(* may fail at any step (validation, a deadlock, a timeout, a crash) and   *)
(* is then rolled back; the answer to a commit may be lost.                *)
(*                                                                         *)
(* Clients choose the operation key; it is unique in receivable_collection *)
(* and in finance_transaction, so both tables are functions of the key,    *)
(* and the collection with key k owns the movement with key k.  A request  *)
(* may be sent any number of times, also while another one is under way.   *)
(***************************************************************************)
EXTENDS Integers, FiniteSets, Folds

CONSTANTS
  Workers,       \* concurrent requests
  Keys,          \* client operation keys
  Recs,          \* receivables
  Accs,          \* finance accounts
  Total,         \* the total amount of a receivable
  Amounts,       \* amounts a request may carry
  Legacy,        \* what may have been collected before 0023, without an account
                 \* movement: 0 is nothing
  None           \* SQL NULL

ASSUME TotalAssumption == Total \in Nat
ASSUME AmountsAssumption == Amounts \subseteq Nat \ {0}
ASSUME LegacyAssumption == Legacy \subseteq 0..Total
ASSUME NoneAssumption == None \notin Keys \cup Recs \cup Accs

VARIABLES
  voided,        \* receivables in record state "voided"
  inactive,      \* accounts with status "inactive"
  coll,          \* receivable_collection, by operation key
  move,          \* finance_transaction, by operation key
  posted,        \* how often a movement's entries are in finance_ledger_entry
  pc,            \* the step each transaction is at, or how it ended
  req,           \* the request each transaction serves
  seen,          \* the collected amount it read with the receivable
  held,          \* the locks it holds
  adds           \* what it will have written when it commits

vars == <<voided, inactive, coll, move, posted, pc, req, seen, held, adds>>
tables == <<voided, inactive, coll, move, posted>>

NoEntry == [type |-> "none", rec |-> None, amount |-> 0, of |-> None,
            moved |-> FALSE]
NoMove == [source |-> None, target |-> None, amount |-> 0, of |-> None,
           text |-> None]
Nothing == [coll |-> NoEntry, move |-> NoMove, posts |-> 0]

Collect(k, r, n, a) == [kind |-> "collect", key |-> k, rec |-> r, amount |-> n,
                        acc |-> a, of |-> None]
Reverse(k, o) == [kind |-> "reverse", key |-> k, rec |-> None, amount |-> 0,
                  acc |-> None, of |-> o]
Pay(k, n, a) == [kind |-> "pay", key |-> k, rec |-> None, amount |-> n,
                 acc |-> a, of |-> None]
PayBack(k, o) == [kind |-> "payback", key |-> k, rec |-> None, amount |-> 0,
                  acc |-> None, of |-> o]
NoRequest == PayBack(None, None)

Requests ==
  {Collect(k, r, n, a) : k \in Keys, r \in Recs, n \in Amounts, a \in Accs}
  \cup {Reverse(k, o) : k \in Keys, o \in Keys}
  \cup {Pay(k, n, a) : k \in Keys, n \in Amounts, a \in Accs}
  \cup {PayBack(k, o) : k \in Keys, o \in Keys}

Steps == {"look", "original", "receivable", "recheck", "managed", "find",
          "movement", "account", "post", "insert", "commit"}
Ended == {"idle", "ok"}     \* "idle" also after a refusal or a lost answer

Exists(k) == coll[k] # NoEntry
Moved(k) == move[k] # NoMove

\* RECEIVABLE_COLUMNS: the sum of collections less reversals.
Signed(k) == IF coll[k].type = "collection" THEN coll[k].amount ELSE 0 - coll[k].amount
Collected(r) ==
  MapThenFoldSet(+, 0, Signed, LAMBDA S : CHOOSE k \in S : TRUE,
                 {k \in Keys : coll[k].rec = r})

Init ==
  /\ voided = {}
  /\ inactive = {}
  /\ \E r \in Recs, n \in Legacy, old \in Keys :
       coll = [k \in Keys |->
                 IF k = old /\ n > 0
                 THEN [type |-> "collection", rec |-> r, amount |-> n,
                       of |-> None, moved |-> FALSE]
                 ELSE NoEntry]
  /\ move = [k \in Keys |-> NoMove]
  /\ posted = [k \in Keys |-> 0]
  /\ pc = [w \in Workers |-> "idle"]
  /\ req = [w \in Workers |-> NoRequest]
  /\ seen = [w \in Workers |-> 0]
  /\ held = [w \in Workers |-> {}]
  /\ adds = [w \in Workers |-> Nothing]

-----------------------------------------------------------------------------
(* Row locks.                                                              *)

Free(w, ls) == \A v \in Workers \ {w} : held[v] \cap ls = {}
Take(w, ls) == Free(w, ls) /\ held' = [held EXCEPT ![w] = @ \cup ls]

EntryLock(k) == <<"entry", k>>
MoveLock(k) == <<"move", k>>
EntryReversalLock(k) == <<"entry reversal of", k>>
MoveReversalLock(k) == <<"move reversal of", k>>
AccountLocks(m) == {<<"account", a>> : a \in {m.source, m.target} \ {None}}

\* Mutant: the receivable is read without FOR UPDATE.
ReceivableUnlocked(r) == {}
ReceivableLock(r) == {<<"receivable", r>>}

\* A collection is read with its movement and that movement's account.
EntryLocks(k) ==
  {EntryLock(k)} \cup IF coll[k].moved THEN {MoveLock(k)} \cup AccountLocks(move[k])
                      ELSE {}

Goto(w, step) == pc' = [pc EXCEPT ![w] = step]

\* The transaction ends: committed with what it wrote, or rolled back.
End(w, result) ==
  /\ Goto(w, result)
  /\ held' = [held EXCEPT ![w] = {}]
  /\ adds' = [adds EXCEPT ![w] = Nothing]
  /\ seen' = [seen EXCEPT ![w] = 0]
  /\ req' = IF result = "ok" THEN req ELSE [req EXCEPT ![w] = NoRequest]

Refuse(w) == End(w, "idle") /\ UNCHANGED tables

Proceed(w, step, ls) ==
  /\ Goto(w, step)
  /\ Take(w, ls)
  /\ UNCHANGED <<tables, req, seen, adds>>

-----------------------------------------------------------------------------
(* What a stored row must be to answer a request.                          *)

\* collectionMatches and reversalMatches.
EntryMatches(q) ==
  LET e == coll[q.key] IN
  IF q.kind = "collect"
  THEN /\ e.type = "collection" /\ e.rec = q.rec /\ e.amount = q.amount
       /\ e.moved /\ move[q.key].target = q.acc
  ELSE e.type = "reversal" /\ e.of = q.of

\* The movement a request asks for; its text names the receivable.
Wanted(q) ==
  IF q.kind \in {"collect", "pay"}
  THEN [source |-> None, target |-> q.acc, amount |-> q.amount, of |-> None,
        text |-> q.rec]
  ELSE [source |-> move[q.of].target, target |-> move[q.of].source,
        amount |-> move[q.of].amount, of |-> q.of, text |-> move[q.of].text]

\* transactionMatches, or the check of a reversal's replay.
MoveMatches(q) ==
  IF q.kind \in {"collect", "pay"} THEN move[q.key] = Wanted(q)
  ELSE move[q.key].of = q.of

EntryReversed(k) == \E j \in Keys : coll[j].of = k
MoveReversed(k) == \E j \in Keys : move[j].of = k

-----------------------------------------------------------------------------
(* The steps of a transaction.                                             *)

\* Ids of collections and movements are random and made by the server: a client
\* knows only those of rows it was shown.
Known(q) ==
  /\ q.kind = "reverse" => Exists(q.of)
  /\ q.kind = "payback" => Moved(q.of)

Start(w, q) ==
  /\ pc[w] \in Ended
  /\ Known(q)
  /\ Goto(w, IF q.kind = "pay" THEN "find"
             ELSE IF q.kind = "payback" THEN "managed" ELSE "look")
  /\ req' = [req EXCEPT ![w] = q]
  /\ UNCHANGED <<tables, seen, held, adds>>

\* Mutant: any stored entry with the key answers the request.
AnswerAnyway(w) == IF Exists(req[w].key) THEN "ok" ELSE "idle"
Answer(w) == IF EntryMatches(req[w]) THEN "ok" ELSE "idle"

\* A stored entry answers the request, with its receivable, or contradicts it.
Replay(w) ==
  /\ pc[w] \in {"look", "recheck"}
  /\ Exists(req[w].key)
  /\ Free(w, EntryLocks(req[w].key) \cup ReceivableLock(coll[req[w].key].rec))
  /\ End(w, Answer(w))
  /\ UNCHANGED tables

Look(w) ==
  /\ pc[w] = "look"
  /\ ~Exists(req[w].key)
  /\ Free(w, {EntryLock(req[w].key)})
  /\ Proceed(w, IF req[w].kind = "collect" THEN "receivable" ELSE "original", {})

\* findCollectionForUpdate: the collection to reverse.
LockOriginal(w) ==
  /\ pc[w] = "original"
  /\ Free(w, EntryLocks(req[w].of))
  /\ IF coll[req[w].of].type = "collection"
     THEN Proceed(w, "receivable", EntryLocks(req[w].of))
     ELSE Refuse(w)

\* findReceivableForUpdate; the sum is read once the row is locked.
LockReceivable(w) ==
  LET q == req[w]
      r == IF q.kind = "collect" THEN q.rec ELSE coll[q.of].rec IN
  /\ pc[w] = "receivable"
  /\ Free(w, ReceivableLock(r) \cup
             IF q.kind = "reverse" THEN {EntryReversalLock(q.of)} ELSE {})
  /\ IF r \in voided \/ (q.kind = "reverse" /\ EntryReversed(q.of))
     THEN Refuse(w)
     ELSE /\ Take(w, ReceivableLock(r))
          /\ seen' = [seen EXCEPT ![w] = Collected(r)]
          /\ Goto(w, IF q.kind = "collect" THEN "recheck"
                     ELSE IF coll[q.of].moved THEN "find" ELSE "insert")
          /\ UNCHANGED <<tables, req, adds>>

Fits(w) == seen[w] + req[w].amount <= Total

Recheck(w) ==
  /\ pc[w] = "recheck"
  /\ ~Exists(req[w].key)
  /\ Free(w, {EntryLock(req[w].key)})
  /\ IF Fits(w) THEN Proceed(w, "find", {}) ELSE Refuse(w)

\* A movement that a collection owns is corrected through the collection.
Unmanaged(k) == ~coll[k].moved

CheckManaged(w) ==
  /\ pc[w] = "managed"
  /\ Free(w, {EntryLock(req[w].of)})
  /\ IF Unmanaged(req[w].of) THEN Proceed(w, "find", {}) ELSE Refuse(w)

\* The movement is there already: a plain request is answered, a collection or
\* a reversal of one goes on without a movement of its own.
AfterReplayedMove(w) ==
  IF ~MoveMatches(req[w]) THEN Refuse(w)
  ELSE IF req[w].kind \in {"pay", "payback"}
       THEN End(w, "ok") /\ UNCHANGED tables
       ELSE Proceed(w, "insert", {MoveLock(req[w].key)} \cup AccountLocks(move[req[w].key]))

FindMove(w) ==
  /\ pc[w] = "find"
  /\ Free(w, {MoveLock(req[w].key)})
  /\ IF Moved(req[w].key)
     THEN AfterReplayedMove(w)
     ELSE Proceed(w, IF req[w].of = None THEN "account" ELSE "movement", {})

\* findFinanceTransactionForUpdate: the movement to reverse.
Reversible(k) == Moved(k) /\ move[k].of = None /\ ~MoveReversed(k)

LockMovement(w) ==
  /\ pc[w] = "movement"
  /\ Free(w, {MoveLock(req[w].of), MoveReversalLock(req[w].of)})
  /\ IF Reversible(req[w].of)
     THEN Proceed(w, "account", {MoveLock(req[w].of)})
     ELSE Refuse(w)

\* transactionAccounts: only a new movement requires active accounts.
\* Mutant: the accounts are read without FOR UPDATE.
AccountUnlocked(m) == {}
AccountsLocked(m) == AccountLocks(m)

LockAccounts(w) ==
  LET m == Wanted(req[w]) IN
  /\ pc[w] = "account"
  /\ Free(w, AccountLocks(m))
  /\ IF m.of = None /\ {m.source, m.target} \cap inactive # {}
     THEN Refuse(w)
     ELSE Proceed(w, "post", AccountsLocked(m))

\* INSERT ... ON DUPLICATE KEY UPDATE, then the ledger entries if the row is new.
Posts(w) == IF Moved(req[w].key) THEN 0 ELSE 1

InsertMove(w) ==
  LET q == req[w]
      m == Wanted(q) IN
  /\ pc[w] = "post"
  /\ Free(w, {MoveLock(q.key)} \cup IF m.of = None THEN {} ELSE {MoveReversalLock(m.of)})
  /\ IF IF Moved(q.key) THEN ~MoveMatches(q) ELSE m.of # None /\ ~Reversible(m.of)
     THEN Refuse(w)
     ELSE /\ adds' = [adds EXCEPT ![w] = [coll |-> NoEntry, posts |-> Posts(w),
                                          move |-> IF Moved(q.key) THEN NoMove ELSE m]]
          /\ Take(w, {MoveLock(q.key)} \cup
                     IF m.of = None THEN {} ELSE {MoveReversalLock(m.of)})
          /\ Goto(w, IF q.kind \in {"pay", "payback"} THEN "commit" ELSE "insert")
          /\ UNCHANGED <<tables, req, seen>>

NewEntry(q) ==
  IF q.kind = "collect"
  THEN [type |-> "collection", rec |-> q.rec, amount |-> q.amount, of |-> None,
        moved |-> TRUE]
  ELSE [type |-> "reversal", rec |-> coll[q.of].rec, amount |-> coll[q.of].amount,
        of |-> q.of, moved |-> coll[q.of].moved]

\* insertCollectionRecordIdempotently.
InsertEntry(w) ==
  LET q == req[w]
      ls == {EntryLock(q.key)} \cup
            IF q.kind = "reverse" THEN {EntryReversalLock(q.of)} ELSE {} IN
  /\ pc[w] = "insert"
  /\ Free(w, ls)
  /\ IF IF Exists(q.key) THEN ~EntryMatches(q) ELSE q.kind = "reverse" /\ EntryReversed(q.of)
     THEN Refuse(w)
     ELSE /\ adds' = [adds EXCEPT ![w] = [coll |-> IF Exists(q.key) THEN NoEntry ELSE NewEntry(q),
                                          move |-> adds[w].move, posts |-> adds[w].posts]]
          /\ Take(w, ls)
          /\ Goto(w, "commit")
          /\ UNCHANGED <<tables, req, seen>>

\* The answer to a commit may be lost.
Commit(w) ==
  LET k == req[w].key
      x == adds[w] IN
  /\ pc[w] = "commit"
  /\ coll' = IF x.coll = NoEntry THEN coll ELSE [coll EXCEPT ![k] = x.coll]
  /\ move' = IF x.move = NoMove THEN move ELSE [move EXCEPT ![k] = x.move]
  /\ posted' = [posted EXCEPT ![k] = @ + x.posts]
  /\ \E result \in {"ok", "idle"} : End(w, result)
  /\ UNCHANGED <<voided, inactive>>

\* A validation error, a deadlock, a lock wait timeout, a lost connection.
Fail(w) == pc[w] \in Steps /\ Refuse(w)

-----------------------------------------------------------------------------
(* Operations that lock a single row and wait for nothing afterwards.      *)

others == <<coll, move, posted, pc, req, seen, held, adds>>

Voidable(r) == r \notin voided /\ Collected(r) = 0

VoidReceivable(r) ==
  /\ \A w \in Workers : <<"receivable", r>> \notin held[w]
  /\ Voidable(r)
  /\ voided' = voided \cup {r}
  /\ UNCHANGED <<inactive, others>>

UpdateAccount(a) ==
  /\ \A w \in Workers : <<"account", a>> \notin held[w]
  /\ inactive' = IF a \in inactive THEN inactive \ {a} ELSE inactive \cup {a}
  /\ UNCHANGED <<voided, others>>

Step(w) ==
  \/ Replay(w) \/ Look(w) \/ LockOriginal(w) \/ LockReceivable(w) \/ Recheck(w)
  \/ CheckManaged(w) \/ FindMove(w) \/ LockMovement(w) \/ LockAccounts(w)
  \/ InsertMove(w) \/ InsertEntry(w) \/ Commit(w) \/ Fail(w)

Next ==
  \/ \E w \in Workers : Step(w) \/ \E q \in Requests : Start(w, q)
  \/ \E r \in Recs : VoidReceivable(r)
  \/ \E a \in Accs : UpdateAccount(a)

Spec == Init /\ [][Next]_vars

-----------------------------------------------------------------------------
(* What the ledger promises.                                               *)

Entries == [type : {"none", "collection", "reversal"}, rec : Recs \cup {None},
            amount : Amounts \cup Legacy \cup {0}, of : Keys \cup {None}, moved : BOOLEAN]
Moves == [source : Accs \cup {None}, target : Accs \cup {None},
          amount : Amounts \cup {0}, of : Keys \cup {None}, text : Recs \cup {None}]

TypeOK ==
  /\ voided \in SUBSET Recs
  /\ inactive \in SUBSET Accs
  /\ coll \in [Keys -> Entries]
  /\ move \in [Keys -> Moves]
  /\ posted \in [Keys -> Nat]
  /\ pc \in [Workers -> Steps \cup Ended]
  /\ req \in [Workers -> Requests \cup {NoRequest}]
  /\ seen \in [Workers -> 0..Total]
  /\ \A w \in Workers : pc[w] \in Ended => held[w] = {} /\ adds[w] = Nothing
  /\ adds \in [Workers -> [coll : Entries, move : Moves, posts : {0, 1}]]

\* However many requests run at once, nothing is collected beyond a receivable's
\* total, and no reversal takes back more than was collected.
NeverOvercollected == \A r \in Recs : Collected(r) \in 0..Total

\* A voided receivable has no net collection, before and after it is voided.
VoidedIsEmpty == \A r \in voided : Collected(r) = 0

\* A collection and its account movement are recorded together, carry the same
\* amount, and are reversed together.
Backed ==
  \A k \in Keys : coll[k].type = "collection" /\ coll[k].moved =>
    /\ move[k].amount = coll[k].amount
    /\ move[k].target # None
    /\ EntryReversed(k) <=> MoveReversed(k)

\* assertFinanceLedgerReconciled: the entries of every movement are in the ledger
\* exactly once, and a movement is undone at most once, by its mirror image.
LedgerReconciled ==
  \A k \in Keys :
    /\ posted[k] = IF Moved(k) THEN 1 ELSE 0
    /\ move[k].of # None =>
         /\ move[move[k].of].of = None
         /\ move[move[k].of].amount = move[k].amount
         /\ move[move[k].of].target = move[k].source
         /\ move[move[k].of].source = move[k].target
         /\ \A j \in Keys : move[j].of = move[k].of => j = k

\* What the books say whenever no transaction is half done, and while some are:
\* a receivable's sum, a voided receivable, and the two ledgers' agreement.
BooksSound ==
  TypeOK /\ NeverOvercollected /\ VoidedIsEmpty /\ Backed /\ LedgerReconciled

\* Whoever is answered with success finds the request recorded, whether it was
\* the first to bring it or one of several at once.
OkMeansRecorded ==
  \A w \in Workers : pc[w] = "ok" =>
    IF req[w].kind \in {"collect", "reverse"} THEN EntryMatches(req[w])
    ELSE MoveMatches(req[w])

\* No new movement is posted to an inactive account; only reversals are.
ActiveAccountsOnly ==
  [][\A k \in Keys : ~Moved(k) /\ move'[k] # NoMove /\ move'[k].of = None =>
       move'[k].target \notin inactive]_vars
=============================================================================
