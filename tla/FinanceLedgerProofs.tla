------------------------- MODULE FinanceLedgerProofs -------------------------
(***************************************************************************)
(* Theorems about FinanceLedger for any requests, operation keys,          *)
(* receivables, accounts, amounts and totals: what is recorded stays as it *)
(* is, success is answered for what is recorded, movements reconcile, none *)
(* is posted to an inactive account, and the books add up.                 *)
(*                                                                         *)
(* There are two invariants, one on top of the other.  IInv is about the   *)
(* locks and rows: what a transaction is about to insert nobody else can.  *)
(* BInv is about the sums: what was read under a receivable's lock is true *)
(* until the commit.                                                       *)
(***************************************************************************)
EXTENDS FinanceLedger, SumTheorems

USE AmountsAssumption, NoneAssumption, TotalAssumption, LegacyAssumption

-----------------------------------------------------------------------------
(* The invariant of locks and rows.                                        *)

ReqOf(q) ==
  /\ q.key \in Keys
  /\ q.kind \in {"collect", "reverse", "pay", "payback"}
  /\ q.amount \in Nat /\ q.rec \in Recs \cup {None}
  /\ q.rec # None <=> q.kind = "collect"
  /\ q.kind \in {"collect", "pay"} => q.of = None /\ q.acc \in Accs
  /\ q.kind \in {"reverse", "payback"} => q.of \in Keys

EntryRows == [type : {"none", "collection", "reversal"}, rec : Recs \cup {None},
              amount : Nat, of : Keys \cup {None}, moved : BOOLEAN]
MoveRows == [source : Accs \cup {None}, target : Accs \cup {None}, amount : Nat,
             of : Keys \cup {None}, text : Recs \cup {None}]
Changes == [coll : EntryRows, move : MoveRows, posts : {0, 1}]

\* The steps only a collection or its reversal takes.
Looking == {"look", "original", "receivable", "recheck"}

Typed ==
  /\ inactive \in SUBSET Accs
  /\ coll \in [Keys -> EntryRows]
  /\ move \in [Keys -> MoveRows]
  /\ posted \in [Keys -> Nat]
  /\ pc \in [Workers -> Steps \cup Ended]
  /\ adds \in [Workers -> Changes]
  /\ req = [w \in Workers |-> req[w]]
  /\ held = [w \in Workers |-> held[w]]
  /\ \A w \in Workers :
       /\ pc[w] # "idle" => ReqOf(req[w])
       /\ pc[w] \in Looking \cup {"insert"} => req[w].kind \in {"collect", "reverse"}

\* No two transactions hold one lock.
LocksApart == \A v, w \in Workers : v # w => held[v] \cap held[w] = {}

\* What a transaction is about to insert is not there, and nobody else can insert it.
PendingOf(w) ==
  /\ adds[w].coll # NoEntry =>
       pc[w] = "commit" /\ EntryLock(req[w].key) \in held[w] /\ ~Exists(req[w].key)
  /\ adds[w].move # NoMove =>
       /\ pc[w] \in {"insert", "commit"}
       /\ MoveLock(req[w].key) \in held[w] /\ ~Moved(req[w].key)
  /\ adds[w].posts = IF adds[w].move = NoMove THEN 0 ELSE 1
PendingAlone == \A w \in Workers : PendingOf(w)

\* The movement of a request is the one it asks for, stored or about to be.
Asked(q) == [source |-> None, target |-> q.acc, amount |-> q.amount, of |-> None,
             text |-> q.rec]
MoveReady(w) ==
  LET q == req[w]
      m == IF adds[w].move = NoMove THEN move[q.key] ELSE adds[w].move IN
  IF q.kind \in {"collect", "pay"} THEN m = Asked(q) ELSE m.of = q.of

\* So is its entry.
EntryReady(w) ==
  LET q == req[w]
      e == IF adds[w].coll = NoEntry THEN coll[q.key] ELSE adds[w].coll IN
  IF q.kind = "collect"
  THEN e.type = "collection" /\ e.rec = q.rec /\ e.amount = q.amount /\ e.moved
  ELSE e.type = "reversal" /\ e.of = q.of

\* What answers a request with success.
Answered(w) ==
  IF req[w].kind \in {"collect", "reverse"} THEN EntryMatches(req[w]) ELSE MoveMatches(req[w])

ReadyOf(w) ==
  /\ pc[w] \in {"insert", "commit"} /\ req[w].kind # "reverse" => MoveReady(w)
  /\ pc[w] = "commit" /\ req[w].kind \in {"collect", "reverse"} => EntryReady(w)
  /\ pc[w] = "ok" => Answered(w)
AnswersReady == \A w \in Workers : ReadyOf(w)

\* The accounts of a new movement are active, and locked until it is committed.
AccountsOf(w) ==
  /\ pc[w] = "post" /\ req[w].of = None =>
       <<"account", req[w].acc>> \in held[w] /\ req[w].acc \notin inactive
  /\ adds[w].move # NoMove /\ adds[w].move.of = None =>
       /\ adds[w].move.target \in Accs \ inactive
       /\ <<"account", adds[w].move.target>> \in held[w]
AccountsHeld == \A w \in Workers : AccountsOf(w)

\* A movement mirrors the one it takes back, which was not taken back before.
Mirrors(m, o) ==
  /\ o \in Keys /\ move[o] # NoMove /\ move[o].of = None
  /\ m.amount = move[o].amount /\ m.source = move[o].target /\ m.target = move[o].source
MirrorOf(w) ==
  adds[w].move # NoMove /\ adds[w].move.of # None =>
    /\ Mirrors(adds[w].move, adds[w].move.of)
    /\ ~MoveReversed(adds[w].move.of)
    /\ MoveReversalLock(adds[w].move.of) \in held[w]
MirrorsPending == \A w \in Workers : MirrorOf(w)

\* What is stored mirrors what it takes back, and is alone in it.
MirrorsStored ==
  \A k \in Keys : move[k].of # None =>
    /\ Mirrors(move[k], move[k].of)
    /\ \A j \in Keys : move[j].of = move[k].of => j = k
PostedOnce == \A k \in Keys : posted[k] = IF Moved(k) THEN 1 ELSE 0

IInv == /\ Typed /\ LocksApart /\ PendingAlone /\ AnswersReady /\ AccountsHeld
        /\ MirrorsPending /\ MirrorsStored /\ PostedOnce

-----------------------------------------------------------------------------
(* The steps of a transaction.                                             *)

LEMMA RequestShape == \A q \in Requests : ReqOf(q)
  BY DEF Requests, Collect, Reverse, Pay, PayBack, ReqOf

\* What a step of w leaves alone.
Others(w) ==
  /\ req' = [v \in Workers |-> req'[v]] /\ held' = [v \in Workers |-> held'[v]]
  /\ \A v \in Workers \ {w} : /\ pc'[v] = pc[v] /\ req'[v] = req[v]
                              /\ held'[v] = held[v] /\ adds'[v] = adds[v]

Finishes(w, result) ==
  /\ Others(w)
  /\ pc' = [pc EXCEPT ![w] = result] /\ adds' = [adds EXCEPT ![w] = Nothing]
  /\ held'[w] = {} /\ (result = "ok" => req'[w] = req[w])

MovesOn(w, step, ls) ==
  /\ Others(w)
  /\ pc' = [pc EXCEPT ![w] = step] /\ req'[w] = req[w]
  /\ Free(w, ls) /\ held'[w] = held[w] \cup ls

LEMMA EndFinishes ==
  ASSUME Typed, NEW w \in Workers, NEW result, End(w, result)
  PROVE  Finishes(w, result)
  BY DEF Typed, End, Finishes, Others, Goto

LEMMA ProceedMovesOn ==
  ASSUME Typed, NEW w \in Workers, NEW step, NEW ls, Proceed(w, step, ls)
  PROVE  MovesOn(w, step, ls) /\ UNCHANGED tables /\ adds' = adds
  BY DEF Typed, Proceed, MovesOn, Others, Goto, Take

\* A step that writes nothing: the transaction is given up, answers for what is
\* stored already, or reads on.
ReadsOn(w, step, ls) ==
  /\ MovesOn(w, step, ls) /\ adds' = adds
  /\ pc[w] \notin {"insert", "commit"} /\ step \in Steps \ {"commit"}
  /\ step \in Looking => pc[w] \in Looking
  /\ step = "post" /\ req[w].of = None =>
       <<"account", req[w].acc>> \in ls /\ req[w].acc \notin inactive
  /\ step = "insert" /\ req[w].kind # "reverse" =>
       req[w].kind = "collect" /\ move[req[w].key] = Wanted(req[w])

Quiet(w) ==
  /\ UNCHANGED tables
  /\ pc[w] \in Steps
  /\ \/ Finishes(w, "idle")
     \/ Finishes(w, "ok") /\ Answered(w)
     \/ \E step, ls : ReadsOn(w, step, ls)

LEMMA RefuseQuiet ==
  ASSUME Typed, NEW w \in Workers, pc[w] \in Steps, Refuse(w)
  PROVE  Quiet(w)
  BY EndFinishes DEF Refuse, Quiet

\* What w locks and where it goes are enough when it moves on from a plain step.
LEMMA ProceedQuiet ==
  ASSUME Typed, NEW w \in Workers, NEW step \in Steps \ {"insert", "commit", "post"}, NEW ls,
         Proceed(w, step, ls), pc[w] \in Steps \ {"insert", "commit"},
         step \in Looking => pc[w] \in Looking
  PROVE  Quiet(w)
<1>1. ReadsOn(w, step, ls) /\ UNCHANGED tables
  BY ProceedMovesOn DEF ReadsOn, Steps, tables
<1> QED
  BY <1>1 DEF Quiet

LEMMA ReplayQuiet ==
  ASSUME Typed, NEW w \in Workers, Replay(w)
  PROVE  Quiet(w)
<1>1. pc[w] \in Looking /\ pc[w] \in Steps
  BY DEF Replay, Looking, Steps
<1>2. req[w].kind \in {"collect", "reverse"}
  BY <1>1 DEF Typed
<1>3. Finishes(w, Answer(w)) /\ UNCHANGED tables
  BY EndFinishes DEF Replay
<1> QED
  BY <1>1, <1>2, <1>3 DEF Quiet, Answer, Answered

LEMMA LookQuiet ==
  ASSUME Typed, NEW w \in Workers, Look(w) \/ LockOriginal(w) \/ Recheck(w) \/ CheckManaged(w)
                                   \/ LockMovement(w)
  PROVE  Quiet(w)
<1>1. CASE Look(w)
  BY <1>1, ProceedQuiet DEF Look, Steps, Looking
<1>2. CASE LockOriginal(w)
  BY <1>2, ProceedQuiet, RefuseQuiet DEF LockOriginal, Steps, Looking
<1>3. CASE Recheck(w)
  BY <1>3, ProceedQuiet, RefuseQuiet DEF Recheck, Steps, Looking
<1>4. CASE CheckManaged(w)
  BY <1>4, ProceedQuiet, RefuseQuiet DEF CheckManaged, Steps, Looking
<1>5. CASE LockMovement(w)
  BY <1>5, ProceedQuiet, RefuseQuiet DEF LockMovement, Steps, Looking
<1> QED
  BY <1>1, <1>2, <1>3, <1>4, <1>5

LEMMA LockReceivableQuiet ==
  ASSUME Typed, NEW w \in Workers, LockReceivable(w)
  PROVE  Quiet(w)
<1> DEFINE q == req[w]
           r == IF q.kind = "collect" THEN q.rec ELSE coll[q.of].rec
           step == IF q.kind = "collect" THEN "recheck"
                   ELSE IF coll[q.of].moved THEN "find" ELSE "insert"
<1>1. pc[w] = "receivable" /\ pc[w] \in Steps /\ pc[w] \in Looking
  BY DEF LockReceivable, Steps, Looking
<1>2. q.kind \in {"collect", "reverse"}
  BY <1>1 DEF Typed
<1>3. CASE r \in voided \/ (q.kind = "reverse" /\ EntryReversed(q.of))
  BY <1>1, <1>3, RefuseQuiet DEF LockReceivable
<1>4. CASE ~(r \in voided \/ (q.kind = "reverse" /\ EntryReversed(q.of)))
  <2>1. /\ Take(w, ReceivableLock(r)) /\ Goto(w, step)
        /\ UNCHANGED <<tables, req, adds>>
    BY <1>4 DEF LockReceivable
  <2>2. MovesOn(w, step, ReceivableLock(r))
    BY <2>1 DEF MovesOn, Others, Take, Goto, Typed
  <2>3. step \in Steps \ {"commit", "post"} /\ (step = "insert" => q.kind = "reverse")
    BY <1>2 DEF Steps
  <2>4. ReadsOn(w, step, ReceivableLock(r))
    BY <1>1, <2>1, <2>2, <2>3 DEF ReadsOn
  <2> QED
    BY <1>1, <2>1, <2>4 DEF Quiet
<1> QED
  BY <1>3, <1>4

LEMMA FindMoveQuiet ==
  ASSUME Typed, NEW w \in Workers, FindMove(w)
  PROVE  Quiet(w)
<1> DEFINE q == req[w]
           ls == {MoveLock(q.key)} \cup AccountLocks(move[q.key])
<1>1. pc[w] = "find" /\ pc[w] \in Steps
  BY DEF FindMove, Steps
<1>2. ReqOf(q)
  BY <1>1 DEF Typed
<1>3. CASE ~Moved(q.key)
  BY <1>1, <1>3, ProceedQuiet DEF FindMove, Steps, Looking
<1>4. CASE Moved(q.key) /\ ~MoveMatches(q)
  BY <1>1, <1>4, RefuseQuiet DEF FindMove, AfterReplayedMove
<1>5. CASE Moved(q.key) /\ MoveMatches(q) /\ q.kind \in {"pay", "payback"}
  BY <1>1, <1>5, EndFinishes DEF FindMove, AfterReplayedMove, Quiet, Answered
<1>6. CASE Moved(q.key) /\ MoveMatches(q) /\ q.kind \notin {"pay", "payback"}
  <2>1. Proceed(w, "insert", ls)
    BY <1>6 DEF FindMove, AfterReplayedMove
  <2>2. q.kind # "reverse" => q.kind = "collect" /\ move[q.key] = Wanted(q)
    BY <1>2, <1>6 DEF ReqOf, MoveMatches
  <2>3. ReadsOn(w, "insert", ls) /\ UNCHANGED tables
    BY <1>1, <2>1, <2>2, ProceedMovesOn DEF ReadsOn, Steps, Looking
  <2> QED
    BY <1>1, <2>3 DEF Quiet
<1> QED
  BY <1>3, <1>4, <1>5, <1>6

LEMMA LockAccountsQuiet ==
  ASSUME Typed, NEW w \in Workers, LockAccounts(w)
  PROVE  Quiet(w)
<1> DEFINE q == req[w]
           m == Wanted(q)
<1>1. pc[w] = "account" /\ pc[w] \in Steps
  BY DEF LockAccounts, Steps
<1>2. ReqOf(q)
  BY <1>1 DEF Typed
<1>3. CASE m.of = None /\ {m.source, m.target} \cap inactive # {}
  BY <1>1, <1>3, RefuseQuiet DEF LockAccounts
<1>4. CASE ~(m.of = None /\ {m.source, m.target} \cap inactive # {})
  <2>1. Proceed(w, "post", AccountLocks(m))
    BY <1>4 DEF LockAccounts, AccountsLocked
  <2>2. q.of = None => m.of = None /\ m.target = q.acc /\ q.acc \in Accs
    BY <1>2 DEF ReqOf, Wanted
  <2>3. q.of = None => <<"account", q.acc>> \in AccountLocks(m) /\ q.acc \notin inactive
    BY <1>4, <2>2 DEF AccountLocks
  <2>4. ReadsOn(w, "post", AccountLocks(m)) /\ UNCHANGED tables
    BY <1>1, <2>1, <2>3, ProceedMovesOn DEF ReadsOn, Steps, Looking
  <2> QED
    BY <1>1, <2>4 DEF Quiet
<1> QED
  BY <1>3, <1>4

\* The steps that decide what will be written.
InsertsMove(w) ==
  LET q == req[w]
      m == Wanted(q) IN
  /\ pc[w] = "post"
  /\ IF Moved(q.key) THEN MoveMatches(q) ELSE m.of # None => Reversible(m.of)
  /\ UNCHANGED tables
  /\ adds' = [adds EXCEPT ![w] = [coll |-> NoEntry,
                                  move |-> IF Moved(q.key) THEN NoMove ELSE m,
                                  posts |-> IF Moved(q.key) THEN 0 ELSE 1]]
  /\ MovesOn(w, IF q.kind \in {"pay", "payback"} THEN "commit" ELSE "insert",
             {MoveLock(q.key)} \cup IF m.of = None THEN {} ELSE {MoveReversalLock(m.of)})

LEMMA InsertMoveEffect ==
  ASSUME Typed, NEW w \in Workers, InsertMove(w)
  PROVE  Quiet(w) \/ InsertsMove(w)
<1> DEFINE q == req[w]
           m == Wanted(q)
           ls == {MoveLock(q.key)} \cup IF m.of = None THEN {} ELSE {MoveReversalLock(m.of)}
           bad == IF Moved(q.key) THEN ~MoveMatches(q) ELSE m.of # None /\ ~Reversible(m.of)
<1>1. pc[w] = "post" /\ pc[w] \in Steps /\ Free(w, ls)
  BY DEF InsertMove, Steps
<1>2. CASE bad
  BY <1>1, <1>2, RefuseQuiet DEF InsertMove
<1>3. CASE ~bad
  <2>1. /\ adds' = [adds EXCEPT ![w] = [coll |-> NoEntry, posts |-> Posts(w),
                                        move |-> IF Moved(q.key) THEN NoMove ELSE m]]
        /\ Take(w, ls)
        /\ Goto(w, IF q.kind \in {"pay", "payback"} THEN "commit" ELSE "insert")
        /\ UNCHANGED <<tables, req, seen>>
    BY <1>3 DEF InsertMove
  <2>2. \A v \in Workers \ {w} : adds'[v] = adds[v]
    BY <2>1 DEF Typed
  <2>3. MovesOn(w, IF q.kind \in {"pay", "payback"} THEN "commit" ELSE "insert", ls)
    BY <2>1, <2>2 DEF MovesOn, Others, Take, Goto, Typed
  <2> QED
    BY <1>1, <1>3, <2>1, <2>3 DEF InsertsMove, Posts
<1> QED
  BY <1>2, <1>3

InsertsEntry(w) ==
  LET q == req[w] IN
  /\ pc[w] = "insert"
  /\ Exists(q.key) => EntryMatches(q)
  /\ UNCHANGED tables
  /\ adds' = [adds EXCEPT ![w] = [coll |-> IF Exists(q.key) THEN NoEntry ELSE NewEntry(q),
                                  move |-> adds[w].move, posts |-> adds[w].posts]]
  /\ \E ls : EntryLock(q.key) \in ls /\ MovesOn(w, "commit", ls)

LEMMA InsertEntryEffect ==
  ASSUME Typed, NEW w \in Workers, InsertEntry(w)
  PROVE  Quiet(w) \/ InsertsEntry(w)
<1> DEFINE q == req[w]
           ls == {EntryLock(q.key)} \cup
                 IF q.kind = "reverse" THEN {EntryReversalLock(q.of)} ELSE {}
           bad == IF Exists(q.key) THEN ~EntryMatches(q)
                  ELSE q.kind = "reverse" /\ EntryReversed(q.of)
<1>1. pc[w] = "insert" /\ pc[w] \in Steps /\ Free(w, ls)
  BY DEF InsertEntry, Steps
<1>2. CASE bad
  BY <1>1, <1>2, RefuseQuiet DEF InsertEntry
<1>3. CASE ~bad
  <2>1. /\ adds' = [adds EXCEPT ![w] = [coll |-> IF Exists(q.key) THEN NoEntry ELSE NewEntry(q),
                                        move |-> adds[w].move, posts |-> adds[w].posts]]
        /\ Take(w, ls) /\ Goto(w, "commit")
        /\ UNCHANGED <<tables, req, seen>>
    BY <1>3 DEF InsertEntry
  <2>2. \A v \in Workers \ {w} : adds'[v] = adds[v]
    BY <2>1 DEF Typed
  <2>3. MovesOn(w, "commit", ls)
    BY <2>1, <2>2 DEF MovesOn, Others, Take, Goto, Typed
  <2>4. EntryLock(q.key) \in ls
    OBVIOUS
  <2> HIDE DEF ls
  <2> QED
    BY <1>1, <1>3, <2>1, <2>3, <2>4 DEF InsertsEntry
<1> QED
  BY <1>2, <1>3

\* The commit, whoever hears of it.
Commits(w) ==
  LET k == req[w].key
      x == adds[w] IN
  /\ pc[w] = "commit"
  /\ coll' = IF x.coll = NoEntry THEN coll ELSE [coll EXCEPT ![k] = x.coll]
  /\ move' = IF x.move = NoMove THEN move ELSE [move EXCEPT ![k] = x.move]
  /\ posted' = [posted EXCEPT ![k] = @ + x.posts]
  /\ UNCHANGED <<voided, inactive>>
  /\ Finishes(w, "ok") \/ Finishes(w, "idle")

LEMMA CommitEffect ==
  ASSUME Typed, NEW w \in Workers, Commit(w)
  PROVE  Commits(w)
  BY EndFinishes DEF Commit, Commits

Starts(w) ==
  /\ UNCHANGED tables
  /\ pc[w] \in Ended /\ adds' = adds /\ Others(w) /\ held'[w] = held[w]
  /\ ReqOf(req'[w])
  /\ \/ /\ pc' = [pc EXCEPT ![w] = "look"]
        /\ req'[w].kind \in {"collect", "reverse"}
     \/ \E step \in {"find", "managed"} : pc' = [pc EXCEPT ![w] = step]

LEMMA StartEffect ==
  ASSUME Typed, NEW w \in Workers, NEW q \in Requests, Start(w, q)
  PROVE  Starts(w)
<1>1. ReqOf(q)
  BY RequestShape
<1>2. req'[w] = q /\ UNCHANGED tables /\ pc[w] \in Ended /\ adds' = adds /\ Others(w)
      /\ held'[w] = held[w]
  BY DEF Start, Others, Typed, Goto
<1>3. CASE q.kind \in {"pay", "payback"}
  BY <1>1, <1>2, <1>3 DEF Start, Starts, Goto
<1>4. CASE q.kind \in {"collect", "reverse"}
  BY <1>1, <1>2, <1>4 DEF Start, Starts, Goto
<1> QED
  BY <1>1, <1>3, <1>4 DEF ReqOf

\* Every step is one of these, or changes a receivable's state or an account's.
SwitchesAccount ==
  /\ UNCHANGED <<coll, move, posted, pc, req, held, adds>>
  /\ inactive' \in SUBSET Accs
  /\ \A a \in Accs : (a \in inactive' <=> a \in inactive)
                     \/ \A w \in Workers : <<"account", a>> \notin held[w]

LEMMA StepEffect ==
  ASSUME Typed, [Next]_vars
  PROVE  \/ \E w \in Workers : \/ Quiet(w) \/ InsertsMove(w) \/ InsertsEntry(w)
                               \/ Commits(w) \/ Starts(w)
         \/ SwitchesAccount
<1>1. ASSUME NEW w \in Workers, Step(w)
      PROVE  Quiet(w) \/ InsertsMove(w) \/ InsertsEntry(w) \/ Commits(w)
  <2>1. CASE Fail(w)
    BY <2>1, RefuseQuiet DEF Fail
  <2> QED
    BY <1>1, <2>1, ReplayQuiet, LookQuiet, LockReceivableQuiet, FindMoveQuiet, LockAccountsQuiet,
       InsertMoveEffect, InsertEntryEffect, CommitEffect DEF Step
<1>2. ASSUME NEW r \in Recs, VoidReceivable(r)
      PROVE  SwitchesAccount
  BY <1>2 DEF VoidReceivable, others, SwitchesAccount, Typed
<1>3. ASSUME NEW a \in Accs, UpdateAccount(a)
      PROVE  SwitchesAccount
  BY <1>3 DEF UpdateAccount, others, SwitchesAccount, Typed
<1>4. CASE UNCHANGED vars
  BY <1>4 DEF vars, SwitchesAccount, Typed
<1> QED
  BY <1>1, <1>2, <1>3, <1>4, StartEffect DEF Next

-----------------------------------------------------------------------------
(* The invariant.                                                          *)

\* What a request asks for can be stored.
LEMMA WantedType ==
  ASSUME Typed, NEW q, ReqOf(q)
  PROVE  /\ Wanted(q) \in MoveRows /\ Wanted(q) # NoMove /\ Wanted(q).of = q.of
         /\ q.kind \in {"collect", "pay"} => Wanted(q) = Asked(q)
<1>1. CASE q.kind \in {"collect", "pay"}
  BY <1>1 DEF ReqOf, Wanted, MoveRows, NoMove, Asked
<1>2. CASE q.kind \in {"reverse", "payback"}
  <2>1. q.of \in Keys /\ move[q.of] \in MoveRows
    BY <1>2 DEF ReqOf, Typed
  <2> QED
    BY <1>2, <2>1 DEF Wanted, MoveRows, NoMove
<1> QED
  BY <1>1, <1>2 DEF ReqOf

LEMMA NewEntryType ==
  ASSUME Typed, NEW q, ReqOf(q), q.kind \in {"collect", "reverse"}
  PROVE  NewEntry(q) \in EntryRows /\ NewEntry(q) # NoEntry
<1>1. CASE q.kind = "collect"
  BY <1>1 DEF ReqOf, NewEntry, EntryRows, NoEntry
<1>2. CASE q.kind = "reverse"
  <2>1. q.of \in Keys /\ coll[q.of] \in EntryRows
    BY <1>2 DEF ReqOf, Typed
  <2> QED
    BY <1>2, <2>1 DEF NewEntry, EntryRows, NoEntry
<1> QED
  BY <1>1, <1>2

LEMMA NothingType == Nothing \in Changes /\ NoEntry \in EntryRows /\ NoMove \in MoveRows
  BY DEF Nothing, Changes, EntryRows, MoveRows, NoEntry, NoMove

LEMMA InitTyped == Init => Typed
<1> SUFFICES ASSUME Init PROVE Typed
  OBVIOUS
<1>1. coll \in [Keys -> EntryRows]
  BY DEF Init, EntryRows, NoEntry
<1> QED
  BY <1>1, NothingType DEF Init, Typed, Steps, Ended, Looking

LEMMA QuietTyped ==
  ASSUME Typed, NEW w \in Workers, Quiet(w)
  PROVE  Typed'
<1>1. UNCHANGED <<inactive, coll, move, posted>> /\ pc[w] # "idle"
  BY DEF Quiet, tables, Steps
<1>2. CASE Finishes(w, "idle") \/ Finishes(w, "ok")
  BY <1>1, <1>2, NothingType DEF Finishes, Others, Typed, Ended, Looking
<1>3. ASSUME NEW step, NEW ls, ReadsOn(w, step, ls)
      PROVE  Typed'
  BY <1>1, <1>3 DEF ReadsOn, MovesOn, Others, Typed
<1> QED
  BY <1>2, <1>3 DEF Quiet

LEMMA InsertsMoveTyped ==
  ASSUME Typed, NEW w \in Workers, InsertsMove(w)
  PROVE  Typed'
<1> DEFINE q == req[w]
<1>1. UNCHANGED <<inactive, coll, move, posted>> /\ pc[w] # "idle"
  BY DEF InsertsMove, tables
<1>2. ReqOf(q)
  BY <1>1 DEF Typed
<1>3. adds' \in [Workers -> Changes]
  BY <1>2, WantedType, NothingType DEF InsertsMove, Typed, Changes
<1> QED
  BY <1>1, <1>2, <1>3 DEF InsertsMove, MovesOn, Others, Typed, ReqOf, Steps, Looking

LEMMA InsertsEntryTyped ==
  ASSUME Typed, NEW w \in Workers, InsertsEntry(w)
  PROVE  Typed'
<1> DEFINE q == req[w]
<1>1. UNCHANGED <<inactive, coll, move, posted>> /\ pc[w] # "idle" /\ pc[w] = "insert"
  BY DEF InsertsEntry, tables
<1>2. ReqOf(q) /\ q.kind \in {"collect", "reverse"}
  BY <1>1 DEF Typed
<1>3. adds' \in [Workers -> Changes]
  BY <1>2, NewEntryType, NothingType DEF InsertsEntry, Typed, Changes
<1> QED
  BY <1>1, <1>2, <1>3 DEF InsertsEntry, MovesOn, Others, Typed, Steps, Looking

LEMMA CommitsTyped ==
  ASSUME Typed, NEW w \in Workers, Commits(w)
  PROVE  Typed'
<1>1. pc[w] = "commit" /\ req[w].key \in Keys /\ adds[w] \in Changes
  BY DEF Commits, Typed, ReqOf
<1>2. /\ coll' \in [Keys -> EntryRows] /\ move' \in [Keys -> MoveRows]
      /\ inactive' = inactive
  BY <1>1 DEF Commits, Typed, Changes
<1>3. posted' \in [Keys -> Nat]
  BY <1>1 DEF Commits, Typed, Changes
<1> QED
  BY <1>1, <1>2, <1>3, NothingType DEF Commits, Finishes, Others, Typed, Ended, Looking

LEMMA StartsTyped ==
  ASSUME Typed, NEW w \in Workers, Starts(w)
  PROVE  Typed'
<1>1. UNCHANGED <<inactive, coll, move, posted>>
  BY DEF Starts, tables
<1> QED
  BY <1>1 DEF Starts, Others, Typed, Steps, Looking

LEMMA NextTyped == Typed /\ [Next]_vars => Typed'
<1> SUFFICES ASSUME Typed, [Next]_vars PROVE Typed'
  OBVIOUS
<1>1. CASE SwitchesAccount
  BY <1>1 DEF SwitchesAccount, Typed
<1> QED
  BY <1>1, StepEffect, QuietTyped, InsertsMoveTyped, InsertsEntryTyped, CommitsTyped, StartsTyped

LEMMA NextLocksApart == Typed /\ LocksApart /\ [Next]_vars => LocksApart'
<1> SUFFICES ASSUME Typed, LocksApart, [Next]_vars PROVE LocksApart'
  OBVIOUS
<1>1. ASSUME NEW w \in Workers, Others(w), held'[w] \in {{}, held[w]}
      PROVE  LocksApart'
  BY <1>1 DEF Others, LocksApart
<1>2. ASSUME NEW w \in Workers, NEW step, NEW ls, MovesOn(w, step, ls)
      PROVE  LocksApart'
  BY <1>2 DEF MovesOn, Others, LocksApart, Free
<1>3. CASE SwitchesAccount
  BY <1>3 DEF SwitchesAccount, LocksApart
<1>4. ASSUME NEW w \in Workers, Quiet(w) \/ InsertsMove(w) \/ InsertsEntry(w)
                                \/ Commits(w) \/ Starts(w)
      PROVE  LocksApart'
  BY <1>1, <1>2, <1>4 DEF Quiet, Finishes, ReadsOn, InsertsMove, InsertsEntry, Commits, Starts
<1> QED
  BY <1>3, <1>4, StepEffect

\* Rows are never rewritten.
RowsKept ==
  \A k \in Keys : /\ Exists(k) => coll'[k] = coll[k]
                  /\ Moved(k) => move'[k] = move[k]

LEMMA NextRowsKept == Typed /\ PendingAlone /\ [Next]_vars => RowsKept
<1> SUFFICES ASSUME Typed, PendingAlone, [Next]_vars PROVE RowsKept
  OBVIOUS
<1>1. ASSUME NEW w \in Workers, Commits(w)
      PROVE  RowsKept
  <2>1. /\ adds[w].coll # NoEntry => ~Exists(req[w].key)
        /\ adds[w].move # NoMove => ~Moved(req[w].key)
    BY DEF PendingAlone, PendingOf
  <2> QED
    BY <1>1, <2>1 DEF Commits, RowsKept, Typed
<1>2. ASSUME NEW w \in Workers, Quiet(w) \/ InsertsMove(w) \/ InsertsEntry(w) \/ Starts(w)
      PROVE  RowsKept
  BY <1>2 DEF Quiet, InsertsMove, InsertsEntry, Starts, tables, RowsKept
<1>3. CASE SwitchesAccount
  BY <1>3 DEF SwitchesAccount, RowsKept
<1> QED
  BY <1>1, <1>2, <1>3, StepEffect

\* What one transaction is about to insert, the commit of another does not touch.
LEMMA PendingKept ==
  ASSUME Typed, LocksApart, PendingAlone, NEW v \in Workers, NEW w \in Workers \ {v},
         Others(w), UNCHANGED tables \/ Commits(w)
  PROVE  PendingOf(v)'
<1>1. PendingOf(v) /\ PendingOf(w)
  BY DEF PendingAlone
<1>2. pc'[v] = pc[v] /\ req'[v] = req[v] /\ held'[v] = held[v] /\ adds'[v] = adds[v]
  BY DEF Others
<1>3. CASE UNCHANGED tables
  BY <1>1, <1>2, <1>3 DEF PendingOf, Exists, Moved, tables
<1>4. CASE Commits(w)
  <2>1. held[v] \cap held[w] = {}
    BY DEF LocksApart
  <2>2. pc[v] # "idle" => req[v].key \in Keys
    BY DEF Typed, ReqOf
  <2>3. adds[v].coll # NoEntry => coll'[req[v].key] = coll[req[v].key]
    BY <1>1, <1>4, <2>1, <2>2 DEF PendingOf, Commits, Typed, EntryLock
  <2>4. adds[v].move # NoMove => move'[req[v].key] = move[req[v].key]
    BY <1>1, <1>4, <2>1, <2>2 DEF PendingOf, Commits, Typed, MoveLock
  <2> QED
    BY <1>1, <1>2, <2>3, <2>4 DEF PendingOf, Exists, Moved
<1> QED
  BY <1>3, <1>4

LEMMA NothingPending ==
  ASSUME NEW w \in Workers, adds'[w] = Nothing
  PROVE  PendingOf(w)'
  BY DEF PendingOf, Nothing

LEMMA NextPendingAlone ==
  Typed /\ LocksApart /\ PendingAlone /\ [Next]_vars => PendingAlone'
<1> SUFFICES ASSUME Typed, LocksApart, PendingAlone, [Next]_vars,
                    NEW v \in Workers
             PROVE  PendingOf(v)'
  BY DEF PendingAlone
<1>1. PendingOf(v)
  BY DEF PendingAlone
<1>2. ASSUME NEW w \in Workers \ {v},
             Quiet(w) \/ InsertsMove(w) \/ InsertsEntry(w) \/ Commits(w) \/ Starts(w)
      PROVE  PendingOf(v)'
  <2>1. Others(w) /\ (UNCHANGED tables \/ Commits(w))
    BY <1>2 DEF Quiet, Finishes, ReadsOn, MovesOn, InsertsMove, InsertsEntry, Commits, Starts
  <2> QED
    BY <2>1, PendingKept
<1>3. CASE Quiet(v)
  <2>1. CASE Finishes(v, "idle") \/ Finishes(v, "ok")
    BY <2>1, NothingPending DEF Finishes, Typed
  <2>2. ASSUME NEW step, NEW ls, ReadsOn(v, step, ls)
        PROVE  PendingOf(v)'
    BY <1>1, <2>2 DEF ReadsOn, PendingOf
  <2> QED
    BY <1>3, <2>1, <2>2 DEF Quiet
<1>4. CASE InsertsMove(v)
  <2> DEFINE q == req[v]
  <2>1. ReqOf(q) /\ pc[v] = "post"
    BY <1>4 DEF InsertsMove, Typed
  <2>2. Wanted(q) # NoMove
    BY <2>1, WantedType
  <2>3. /\ adds'[v].coll = NoEntry
        /\ adds'[v].move = IF Moved(q.key) THEN NoMove ELSE Wanted(q)
        /\ adds'[v].posts = IF Moved(q.key) THEN 0 ELSE 1
    BY <1>4 DEF InsertsMove, Typed
  <2>4. /\ pc'[v] \in {"insert", "commit"} /\ req'[v] = q /\ MoveLock(q.key) \in held'[v]
        /\ move' = move
    BY <1>4 DEF InsertsMove, MovesOn, tables, Typed
  <2> QED
    BY <2>2, <2>3, <2>4 DEF PendingOf, Moved
<1>5. CASE InsertsEntry(v)
  <2> DEFINE q == req[v]
  <2>1. ReqOf(q) /\ q.kind \in {"collect", "reverse"} /\ pc[v] = "insert"
    BY <1>5 DEF InsertsEntry, Typed
  <2>2. NewEntry(q) # NoEntry
    BY <2>1, NewEntryType
  <2>3. /\ adds'[v].coll = IF Exists(q.key) THEN NoEntry ELSE NewEntry(q)
        /\ adds'[v].move = adds[v].move /\ adds'[v].posts = adds[v].posts
    BY <1>5 DEF InsertsEntry, Typed
  <2>4. /\ pc'[v] = "commit" /\ req'[v] = q /\ EntryLock(q.key) \in held'[v]
        /\ held[v] \subseteq held'[v]
        /\ move' = move /\ coll' = coll
    BY <1>5 DEF InsertsEntry, MovesOn, tables, Typed
  <2> QED
    BY <1>1, <2>2, <2>3, <2>4 DEF PendingOf, Moved, Exists
<1>6. CASE Commits(v)
  BY <1>6, NothingPending DEF Commits, Finishes, Typed
<1>7. CASE Starts(v)
  BY <1>1, <1>7 DEF Starts, PendingOf, Ended
<1>8. CASE SwitchesAccount
  BY <1>1, <1>8 DEF SwitchesAccount, PendingOf, Exists, Moved
<1> QED
  BY <1>2, <1>3, <1>4, <1>5, <1>6, <1>7, <1>8, StepEffect

\* What was ready stays ready while others act: it is about rows that are kept.
LEMMA MoveReadyKept ==
  ASSUME Typed, RowsKept, NEW v \in Workers, ReqOf(req[v]), req[v].kind # "reverse",
         MoveReady(v), req'[v] = req[v], adds'[v].move = adds[v].move
  PROVE  MoveReady(v)'
<1> DEFINE q == req[v]
<1>1. CASE q.kind \in {"collect", "pay"}
  <2>1. Asked(q) # NoMove
    BY <1>1 DEF Asked, NoMove, ReqOf
  <2>2. adds[v].move = NoMove => Moved(q.key)
    BY <1>1, <2>1 DEF MoveReady, Moved
  <2>3. adds[v].move = NoMove => move'[q.key] = move[q.key]
    BY <2>2 DEF RowsKept, ReqOf
  <2> QED
    BY <1>1, <2>3 DEF MoveReady
<1>2. CASE q.kind = "payback"
  <2>1. q.of # None
    BY <1>2 DEF ReqOf
  <2>2. adds[v].move = NoMove => Moved(q.key)
    BY <1>2, <2>1 DEF MoveReady, Moved, NoMove
  <2>3. adds[v].move = NoMove => move'[q.key] = move[q.key]
    BY <2>2 DEF RowsKept, ReqOf
  <2> QED
    BY <1>2, <2>3 DEF MoveReady
<1> QED
  BY <1>1, <1>2 DEF ReqOf

LEMMA EntryReadyKept ==
  ASSUME Typed, RowsKept, NEW v \in Workers, ReqOf(req[v]), EntryReady(v),
         req[v].kind \in {"collect", "reverse"},
         req'[v] = req[v], adds'[v].coll = adds[v].coll
  PROVE  EntryReady(v)'
<1>1. adds[v].coll = NoEntry => Exists(req[v].key)
  BY DEF EntryReady, Exists, NoEntry
<1>2. adds[v].coll = NoEntry => coll'[req[v].key] = coll[req[v].key]
  BY <1>1 DEF RowsKept, ReqOf
<1> QED
  BY <1>2 DEF EntryReady

LEMMA AnsweredKept ==
  ASSUME Typed, RowsKept, NEW v \in Workers, ReqOf(req[v]), Answered(v), req'[v] = req[v]
  PROVE  Answered(v)'
<1> DEFINE q == req[v]
<1>1. CASE q.kind = "collect"
  <2>1. Exists(q.key) /\ Moved(q.key)
    BY <1>1 DEF Answered, EntryMatches, Exists, Moved, NoEntry, NoMove, ReqOf
  <2>2. coll'[q.key] = coll[q.key] /\ move'[q.key] = move[q.key]
    BY <2>1 DEF RowsKept, ReqOf
  <2> QED
    BY <1>1, <2>2 DEF Answered, EntryMatches
<1>2. CASE q.kind = "reverse"
  <2>1. Exists(q.key)
    BY <1>2 DEF Answered, EntryMatches, Exists, NoEntry
  <2>2. coll'[q.key] = coll[q.key]
    BY <2>1 DEF RowsKept, ReqOf
  <2> QED
    BY <1>2, <2>2 DEF Answered, EntryMatches
<1>3. CASE q.kind = "pay"
  <2>1. move[q.key] = Asked(q) /\ Asked(q) # NoMove
    BY <1>3, WantedType DEF Answered, MoveMatches
  <2>2. move'[q.key] = Asked(q)
    BY <2>1 DEF RowsKept, ReqOf, Moved
  <2> QED
    BY <1>3, <2>2 DEF Answered, MoveMatches, Wanted, Asked
<1>4. CASE q.kind = "payback"
  <2>1. Moved(q.key)
    BY <1>4 DEF Answered, MoveMatches, Moved, NoMove, ReqOf
  <2>2. move'[q.key] = move[q.key]
    BY <2>1 DEF RowsKept, ReqOf
  <2> QED
    BY <1>4, <2>2 DEF Answered, MoveMatches
<1> QED
  BY <1>1, <1>2, <1>3, <1>4 DEF ReqOf

LEMMA ReadyKept ==
  ASSUME Typed, RowsKept, NEW v \in Workers, ReadyOf(v),
         pc'[v] = pc[v], req'[v] = req[v], adds'[v] = adds[v]
  PROVE  ReadyOf(v)'
<1>1. pc[v] # "idle" => ReqOf(req[v])
  BY DEF Typed
<1> QED
  BY <1>1, MoveReadyKept, EntryReadyKept, AnsweredKept DEF ReadyOf

\* The request that InsertMove serves has its movement.
LEMMA InsertsMoveReady ==
  ASSUME Typed, PendingAlone, NEW v \in Workers, InsertsMove(v)
  PROVE  MoveReady(v)'
<1> DEFINE q == req[v]
<1>1. ReqOf(q) /\ pc[v] = "post"
  BY DEF InsertsMove, Typed
<1>2. Wanted(q) # NoMove /\ Wanted(q).of = q.of
  BY <1>1, WantedType
<1>3. /\ adds'[v].move = IF Moved(q.key) THEN NoMove ELSE Wanted(q)
      /\ req'[v] = q /\ move' = move
  BY DEF InsertsMove, MovesOn, tables, Typed
<1>4. CASE Moved(q.key)
  BY <1>1, <1>3, <1>4, WantedType DEF InsertsMove, MoveMatches, MoveReady
<1>5. CASE ~Moved(q.key)
  BY <1>1, <1>2, <1>3, <1>5, WantedType DEF MoveReady
<1> QED
  BY <1>4, <1>5

LEMMA InsertsEntryReady ==
  ASSUME Typed, PendingAlone, NEW v \in Workers, InsertsEntry(v)
  PROVE  EntryReady(v)'
<1> DEFINE q == req[v]
<1>1. ReqOf(q) /\ q.kind \in {"collect", "reverse"}
  BY DEF InsertsEntry, Typed
<1>2. NewEntry(q) # NoEntry
  BY <1>1, NewEntryType
<1>3. /\ adds'[v].coll = IF Exists(q.key) THEN NoEntry ELSE NewEntry(q)
      /\ req'[v] = q /\ coll' = coll
  BY DEF InsertsEntry, MovesOn, tables, Typed
<1>4. CASE Exists(q.key)
  BY <1>1, <1>3, <1>4 DEF InsertsEntry, EntryMatches, EntryReady
<1>5. CASE ~Exists(q.key)
  BY <1>1, <1>2, <1>3, <1>5 DEF NewEntry, EntryReady
<1> QED
  BY <1>4, <1>5

\* A commit stores what was ready.
LEMMA CommitsAnswer ==
  ASSUME Typed, PendingAlone, NEW v \in Workers, ReadyOf(v), Commits(v), pc'[v] = "ok"
  PROVE  Answered(v)'
<1> DEFINE q == req[v]
<1>1. ReqOf(q) /\ pc[v] = "commit"
  BY DEF Commits, Typed
<1>2. req'[v] = q
  BY DEF Commits, Finishes, Typed
<1>3. /\ coll'[q.key] = IF adds[v].coll = NoEntry THEN coll[q.key] ELSE adds[v].coll
      /\ move'[q.key] = IF adds[v].move = NoMove THEN move[q.key] ELSE adds[v].move
  BY <1>1 DEF Commits, Typed, ReqOf
<1>4. q.kind # "reverse" => MoveReady(v)
  BY <1>1 DEF ReadyOf
<1>5. q.kind \in {"collect", "reverse"} => EntryReady(v)
  BY <1>1 DEF ReadyOf
<1>6. CASE q.kind = "collect"
  BY <1>2, <1>3, <1>4, <1>5, <1>6 DEF MoveReady, EntryReady, Answered, EntryMatches, Asked
<1>7. CASE q.kind = "reverse"
  BY <1>2, <1>3, <1>5, <1>7 DEF EntryReady, Answered, EntryMatches
<1>8. CASE q.kind = "pay"
  BY <1>2, <1>3, <1>4, <1>8 DEF MoveReady, Answered, MoveMatches, Wanted, Asked
<1>9. CASE q.kind = "payback"
  BY <1>2, <1>3, <1>4, <1>9 DEF MoveReady, Answered, MoveMatches
<1> QED
  BY <1>1, <1>6, <1>7, <1>8, <1>9 DEF ReqOf

LEMMA NextAnswersReady == Typed /\ PendingAlone /\ AnswersReady /\ [Next]_vars => AnswersReady'
<1> SUFFICES ASSUME Typed, PendingAlone, AnswersReady, [Next]_vars, NEW v \in Workers
             PROVE  ReadyOf(v)'
  BY DEF AnswersReady
<1>1. ReadyOf(v) /\ PendingOf(v) /\ RowsKept
  BY NextRowsKept DEF AnswersReady, PendingAlone
<1>2. ASSUME NEW w \in Workers \ {v},
             Quiet(w) \/ InsertsMove(w) \/ InsertsEntry(w) \/ Commits(w) \/ Starts(w)
      PROVE  ReadyOf(v)'
  <2>1. Others(w)
    BY <1>2 DEF Quiet, Finishes, ReadsOn, MovesOn, InsertsMove, InsertsEntry, Commits, Starts
  <2> QED
    BY <1>1, <2>1, ReadyKept DEF Others
<1>3. CASE Quiet(v)
  <2>1. pc[v] \in Steps /\ UNCHANGED tables
    BY <1>3 DEF Quiet
  <2>2. CASE Finishes(v, "idle")
    BY <2>2 DEF Finishes, ReadyOf, Typed
  <2>3. CASE Finishes(v, "ok") /\ Answered(v)
    <3>1. pc'[v] = "ok" /\ req'[v] = req[v]
      BY <2>3 DEF Finishes, Typed
    <3>2. ReqOf(req[v])
      BY <2>1 DEF Typed, Steps
    <3> QED
      BY <1>1, <2>3, <3>1, <3>2, AnsweredKept DEF ReadyOf
  <2>4. ASSUME NEW step, NEW ls, ReadsOn(v, step, ls)
        PROVE  ReadyOf(v)'
    <3> DEFINE q == req[v]
    <3>1. /\ pc'[v] = step /\ req'[v] = q /\ adds' = adds
          /\ pc[v] \notin {"insert", "commit"} /\ step # "commit" /\ step # "ok"
      BY <2>4 DEF ReadsOn, MovesOn, Typed, Steps
    <3>2. adds[v].move = NoMove
      BY <1>1, <3>1 DEF PendingOf
    <3>3. ASSUME step = "insert", q.kind # "reverse"
          PROVE  MoveReady(v)'
      <4>1. q.kind = "collect" /\ move[q.key] = Wanted(q)
        BY <2>4, <3>3 DEF ReadsOn
      <4>2. move' = move
        BY <2>1 DEF tables
      <4> QED
        BY <3>1, <3>2, <4>1, <4>2 DEF MoveReady, Wanted, Asked
    <3> QED
      BY <3>1, <3>3 DEF ReadyOf
  <2> QED
    BY <1>3, <2>2, <2>3, <2>4 DEF Quiet
<1>4. CASE InsertsMove(v)
  <2>1. /\ pc'[v] = IF req[v].kind \in {"pay", "payback"} THEN "commit" ELSE "insert"
        /\ req'[v] = req[v]
    BY <1>4 DEF InsertsMove, MovesOn, Typed
  <2> QED
    BY <1>4, <2>1, InsertsMoveReady DEF ReadyOf
<1>5. CASE InsertsEntry(v)
  <2>1. /\ pc[v] = "insert" /\ pc'[v] = "commit" /\ req'[v] = req[v]
        /\ adds'[v].move = adds[v].move
    BY <1>5 DEF InsertsEntry, MovesOn, Typed
  <2>2. ReqOf(req[v])
    BY <2>1 DEF Typed
  <2>3. req[v].kind # "reverse" => MoveReady(v)'
    BY <1>1, <2>1, <2>2, MoveReadyKept DEF ReadyOf
  <2> QED
    BY <1>5, <2>1, <2>3, InsertsEntryReady DEF ReadyOf
<1>6. CASE Commits(v)
  <2>1. pc'[v] \in {"ok", "idle"}
    BY <1>6 DEF Commits, Finishes, Typed
  <2> QED
    BY <1>1, <1>6, <2>1, CommitsAnswer DEF ReadyOf
<1>7. CASE Starts(v)
  BY <1>7 DEF Starts, ReadyOf, Typed
<1>8. CASE SwitchesAccount
  BY <1>1, <1>8, ReadyKept DEF SwitchesAccount
<1> QED
  BY <1>2, <1>3, <1>4, <1>5, <1>6, <1>7, <1>8, StepEffect

LEMMA NextAccountsHeld ==
  Typed /\ PendingAlone /\ AccountsHeld /\ [Next]_vars => AccountsHeld'
<1> SUFFICES ASSUME Typed, PendingAlone, AccountsHeld, [Next]_vars, NEW v \in Workers
             PROVE  AccountsOf(v)'
  BY DEF AccountsHeld
<1>1. AccountsOf(v) /\ PendingOf(v)
  BY DEF AccountsHeld, PendingAlone
<1>2. ASSUME NEW w \in Workers \ {v},
             Quiet(w) \/ InsertsMove(w) \/ InsertsEntry(w) \/ Commits(w) \/ Starts(w)
      PROVE  AccountsOf(v)'
  <2>1. Others(w) /\ inactive' = inactive
    BY <1>2 DEF Quiet, Finishes, ReadsOn, MovesOn, InsertsMove, InsertsEntry, Commits, Starts,
                tables
  <2> QED
    BY <1>1, <2>1 DEF Others, AccountsOf
<1>3. ASSUME pc'[v] # "post", adds'[v].move = NoMove
      PROVE  AccountsOf(v)'
  BY <1>3 DEF AccountsOf
<1>4. CASE Quiet(v)
  <2>1. inactive' = inactive
    BY <1>4 DEF Quiet, tables
  <2>2. CASE Finishes(v, "idle") \/ Finishes(v, "ok")
    BY <1>3, <2>2 DEF Finishes, Typed, Nothing
  <2>3. ASSUME NEW step, NEW ls, ReadsOn(v, step, ls)
        PROVE  AccountsOf(v)'
    BY <1>1, <2>1, <2>3 DEF ReadsOn, MovesOn, AccountsOf, PendingOf, Typed
  <2> QED
    BY <1>4, <2>2, <2>3 DEF Quiet
<1>5. CASE InsertsMove(v)
  <2> DEFINE q == req[v]
  <2>1. ReqOf(q) /\ pc[v] = "post" /\ inactive' = inactive
    BY <1>5 DEF InsertsMove, Typed, tables
  <2>2. pc'[v] # "post" /\ held[v] \subseteq held'[v]
    BY <1>5 DEF InsertsMove, MovesOn, Typed
  <2>3. adds'[v].move = IF Moved(q.key) THEN NoMove ELSE Wanted(q)
    BY <1>5 DEF InsertsMove, Typed
  <2>4. Wanted(q).of = None =>
          Wanted(q).target \in Accs \ inactive /\ <<"account", Wanted(q).target>> \in held[v]
    <3>1. ASSUME Wanted(q).of = None
          PROVE  q.of = None /\ q.acc \in Accs /\ Wanted(q).target = q.acc
      <4>1. q.of = None
        BY <2>1, <3>1, WantedType
      <4>2. q.kind \in {"collect", "pay"}
        BY <2>1, <4>1 DEF ReqOf
      <4> QED
        BY <2>1, <4>1, <4>2, WantedType DEF ReqOf, Asked
    <3> QED
      BY <1>1, <2>1, <3>1 DEF AccountsOf
  <2> QED
    BY <2>1, <2>2, <2>3, <2>4 DEF AccountsOf
<1>6. CASE InsertsEntry(v)
  <2>1. /\ inactive' = inactive /\ pc'[v] = "commit" /\ held[v] \subseteq held'[v]
        /\ adds'[v].move = adds[v].move
    BY <1>6 DEF InsertsEntry, MovesOn, Typed, tables
  <2> QED
    BY <1>1, <2>1 DEF AccountsOf
<1>7. CASE Commits(v)
  BY <1>3, <1>7 DEF Commits, Finishes, Typed, Nothing
<1>8. CASE Starts(v)
  BY <1>1, <1>3, <1>8 DEF Starts, PendingOf, Ended, Typed
<1>9. CASE SwitchesAccount
  <2>1. req[v].of = None /\ pc[v] = "post" => req[v].acc \in Accs
    BY DEF Typed, ReqOf
  <2> QED
    BY <1>1, <1>9, <2>1 DEF SwitchesAccount, AccountsOf
<1> QED
  BY <1>2, <1>4, <1>5, <1>6, <1>7, <1>8, <1>9, StepEffect

\* A mirrored movement is stored, and stays.
LEMMA MirrorsKept ==
  ASSUME RowsKept, NEW m, NEW o, Mirrors(m, o)
  PROVE  Mirrors(m, o)' /\ move'[o] = move[o]
  BY DEF Mirrors, RowsKept, Moved

\* What a commit adds to the stored movements.
LEMMA CommitsMove ==
  ASSUME Typed, PendingAlone, NEW w \in Workers, Commits(w)
  PROVE  /\ req[w].key \in Keys
         /\ adds[w].move = NoMove => move' = move
         /\ adds[w].move # NoMove =>
              /\ ~Moved(req[w].key)
              /\ \A k \in Keys : move'[k] = IF k = req[w].key THEN adds[w].move ELSE move[k]
<1>1. req[w].key \in Keys
  BY DEF Commits, Typed, ReqOf
<1> QED
  BY <1>1 DEF Commits, Typed, PendingAlone, PendingOf

LEMMA NextMirrorsPending ==
  Typed /\ LocksApart /\ PendingAlone /\ MirrorsPending /\ [Next]_vars => MirrorsPending'
<1> SUFFICES ASSUME Typed, LocksApart, PendingAlone, MirrorsPending, [Next]_vars,
                    NEW v \in Workers
             PROVE  MirrorOf(v)'
  BY DEF MirrorsPending
<1>1. MirrorOf(v) /\ PendingOf(v) /\ RowsKept
  BY NextRowsKept DEF MirrorsPending, PendingAlone
<1>2. ASSUME move' = move, adds'[v].move = adds[v].move, held[v] \subseteq held'[v]
      PROVE  MirrorOf(v)'
  BY <1>1, <1>2 DEF MirrorOf, Mirrors, MoveReversed, MoveReversalLock
<1>3. ASSUME adds'[v].move = NoMove
      PROVE  MirrorOf(v)'
  BY <1>3 DEF MirrorOf
<1>4. ASSUME NEW w \in Workers \ {v}, Quiet(w) \/ InsertsMove(w) \/ InsertsEntry(w) \/ Starts(w)
      PROVE  MirrorOf(v)'
  BY <1>2, <1>4 DEF Quiet, Finishes, ReadsOn, MovesOn, InsertsMove, InsertsEntry, Starts, Others,
                    tables
<1>5. ASSUME NEW w \in Workers \ {v}, Commits(w)
      PROVE  MirrorOf(v)'
  <2>1. adds'[v] = adds[v] /\ held'[v] = held[v]
    BY <1>5 DEF Commits, Finishes, Others
  <2>2. SUFFICES ASSUME adds[v].move # NoMove, adds[v].move.of # None
                 PROVE  MirrorOf(v)'
    BY <2>1 DEF MirrorOf
  <2> PICK o, m : o = adds[v].move.of /\ m = adds[v].move
    OBVIOUS
  <2>3. Mirrors(m, o) /\ ~MoveReversed(o) /\ MoveReversalLock(o) \in held[v]
    BY <1>1, <2>2 DEF MirrorOf
  <2>4. ASSUME NEW j \in Keys, move'[j].of = o
        PROVE  FALSE
    <3>1. move[j].of # o
      BY <2>3 DEF MoveReversed
    <3>2. adds[w].move # NoMove /\ adds[w].move.of = o
      BY <1>5, <2>4, <3>1, CommitsMove
    <3>3. MoveReversalLock(o) \in held[w]
      BY <2>2, <3>2 DEF MirrorsPending, MirrorOf
    <3> QED
      BY <2>3, <3>3 DEF LocksApart
  <2>5. ~MoveReversed(o)'
    BY <2>4 DEF MoveReversed
  <2>6. Mirrors(m, o)'
    BY <1>1, <2>3, MirrorsKept
  <2>7. adds'[v].move = m /\ o = m.of /\ MoveReversalLock(o) \in held'[v]
    BY <2>1, <2>3
  <2> QED
    BY <2>5, <2>6, <2>7 DEF MirrorOf, Mirrors, MoveReversed, MoveReversalLock
<1>6. CASE Quiet(v)
  <2>1. CASE Finishes(v, "idle") \/ Finishes(v, "ok")
    BY <1>3, <2>1 DEF Finishes, Typed, Nothing
  <2>2. ASSUME NEW step, NEW ls, ReadsOn(v, step, ls)
        PROVE  MirrorOf(v)'
    BY <1>1, <1>3, <2>2 DEF ReadsOn, PendingOf
  <2> QED
    BY <1>6, <2>1, <2>2 DEF Quiet
<1>7. CASE InsertsMove(v)
  <2> DEFINE q == req[v]
             m == Wanted(q)
  <2>1. ReqOf(q) /\ pc[v] = "post" /\ move' = move
    BY <1>7 DEF InsertsMove, Typed, tables
  <2>2. adds'[v].move = IF Moved(q.key) THEN NoMove ELSE m
    BY <1>7 DEF InsertsMove, Typed
  <2>3. SUFFICES ASSUME ~Moved(q.key), m.of # None
                 PROVE  MirrorOf(v)'
    BY <2>2 DEF MirrorOf, NoMove
  <2>4. Reversible(m.of) /\ MoveReversalLock(m.of) \in held'[v]
    BY <1>7, <2>3 DEF InsertsMove, MovesOn
  <2>5. m.of = q.of /\ q.kind \in {"reverse", "payback"} /\ q.of \in Keys
    BY <2>1, <2>3, WantedType DEF ReqOf
  <2>6. m.amount = move[q.of].amount /\ m.source = move[q.of].target
        /\ m.target = move[q.of].source
    BY <2>5 DEF Wanted
  <2>7. Mirrors(m, m.of) /\ ~MoveReversed(m.of)
    BY <2>4, <2>5, <2>6 DEF Mirrors, Reversible, Moved
  <2> HIDE DEF m
  <2> QED
    BY <2>1, <2>2, <2>3, <2>4, <2>7 DEF MirrorOf, Mirrors, MoveReversed, MoveReversalLock
<1>8. CASE InsertsEntry(v)
  BY <1>2, <1>8 DEF InsertsEntry, MovesOn, tables, Typed
<1>9. CASE Commits(v)
  BY <1>3, <1>9 DEF Commits, Finishes, Typed, Nothing
<1>10. CASE Starts(v)
  BY <1>1, <1>3, <1>10 DEF Starts, PendingOf, Ended
<1>11. CASE SwitchesAccount
  BY <1>2, <1>11 DEF SwitchesAccount
<1> QED
  BY <1>4, <1>5, <1>6, <1>7, <1>8, <1>9, <1>10, <1>11, StepEffect

LEMMA NextMirrorsStored ==
  Typed /\ PendingAlone /\ MirrorsPending /\ MirrorsStored /\ [Next]_vars => MirrorsStored'
<1> SUFFICES ASSUME Typed, PendingAlone, MirrorsPending, MirrorsStored, [Next]_vars
             PROVE  MirrorsStored'
  OBVIOUS
<1>1. RowsKept
  BY NextRowsKept
<1>2. ASSUME move' = move
      PROVE  MirrorsStored'
  BY <1>2 DEF MirrorsStored, Mirrors
<1>3. ASSUME NEW w \in Workers, Commits(w)
      PROVE  MirrorsStored'
  <2>1. CASE adds[w].move = NoMove
    BY <1>2, <1>3, <2>1, CommitsMove
  <2>2. CASE adds[w].move # NoMove
    <3> DEFINE new == req[w].key
    <3>1. new \in Keys /\ ~Moved(new)
          /\ \A k \in Keys : move'[k] = IF k = new THEN adds[w].move ELSE move[k]
      BY <1>3, <2>2, CommitsMove
    <3>2. MirrorOf(w)
      BY DEF MirrorsPending
    <3>3. ASSUME NEW k \in Keys, move'[k].of # None
          PROVE  /\ Mirrors(move'[k], move'[k].of)
                 /\ \A j \in Keys : move'[j].of = move'[k].of => j = k
      <4>1. CASE k = new
        BY <2>2, <3>1, <3>2, <3>3, <4>1 DEF MirrorOf, MoveReversed
      <4>2. CASE k # new
        <5>1. move'[k] = move[k] /\ move[k].of # None
          BY <3>1, <3>3, <4>2
        <5>2. Mirrors(move[k], move[k].of) /\ \A j \in Keys : move[j].of = move[k].of => j = k
          BY <5>1 DEF MirrorsStored
        <5>3. move'[new].of # move[k].of
          BY <2>2, <3>1, <3>2, <5>1 DEF MirrorOf, MoveReversed
        <5> QED
          BY <3>1, <5>1, <5>2, <5>3
      <4> QED
        BY <4>1, <4>2
    <3>4. ASSUME NEW k \in Keys, move'[k].of # None
          PROVE  /\ move'[k].of \in Keys /\ move'[move'[k].of] # NoMove
                 /\ move'[move'[k].of].of = None
                 /\ move'[k].amount = move'[move'[k].of].amount
                 /\ move'[k].source = move'[move'[k].of].target
                 /\ move'[k].target = move'[move'[k].of].source
      BY <1>1, <3>3, <3>4 DEF Mirrors, RowsKept, Moved
    <3> QED
      BY <3>3, <3>4 DEF MirrorsStored, Mirrors
  <2> QED
    BY <2>1, <2>2
<1>4. ASSUME NEW w \in Workers, Quiet(w) \/ InsertsMove(w) \/ InsertsEntry(w) \/ Starts(w)
      PROVE  MirrorsStored'
  BY <1>2, <1>4 DEF Quiet, InsertsMove, InsertsEntry, Starts, tables
<1>5. CASE SwitchesAccount
  BY <1>2, <1>5 DEF SwitchesAccount
<1> QED
  BY <1>3, <1>4, <1>5, StepEffect

LEMMA NextPostedOnce == Typed /\ PendingAlone /\ PostedOnce /\ [Next]_vars => PostedOnce'
<1> SUFFICES ASSUME Typed, PendingAlone, PostedOnce, [Next]_vars PROVE PostedOnce'
  OBVIOUS
<1>1. ASSUME NEW w \in Workers, Commits(w)
      PROVE  PostedOnce'
  <2> DEFINE new == req[w].key
  <2>1. PendingOf(w)
    BY DEF PendingAlone
  <2>2. /\ new \in Keys
        /\ posted'[new] = posted[new] + adds[w].posts
        /\ \A k \in Keys \ {new} : posted'[k] = posted[k] /\ move'[k] = move[k]
    BY <1>1, CommitsMove DEF Commits, Typed
  <2>3. CASE adds[w].move = NoMove
    BY <1>1, <2>1, <2>2, <2>3, CommitsMove DEF PostedOnce, PendingOf, Typed, Moved
  <2>4. CASE adds[w].move # NoMove
    <3>1. posted[new] = 0 /\ adds[w].posts = 1 /\ move'[new] = adds[w].move
      BY <1>1, <2>1, <2>2, <2>4, CommitsMove DEF PostedOnce, PendingOf
    <3> QED
      BY <2>2, <2>4, <3>1 DEF PostedOnce, Moved
  <2> QED
    BY <2>3, <2>4
<1>2. ASSUME NEW w \in Workers, Quiet(w) \/ InsertsMove(w) \/ InsertsEntry(w) \/ Starts(w)
      PROVE  PostedOnce'
  BY <1>2 DEF Quiet, InsertsMove, InsertsEntry, Starts, tables, PostedOnce, Moved
<1>3. CASE SwitchesAccount
  BY <1>3 DEF SwitchesAccount, PostedOnce, Moved
<1> QED
  BY <1>1, <1>2, <1>3, StepEffect

-----------------------------------------------------------------------------
(* The theorems.                                                           *)

LEMMA InitIInv == Init => IInv
<1> SUFFICES ASSUME Init PROVE IInv
  OBVIOUS
<1>1. /\ \A w \in Workers : pc[w] = "idle" /\ adds[w] = Nothing /\ held[w] = {}
      /\ \A k \in Keys : move[k] = NoMove /\ posted[k] = 0
  BY DEF Init
<1>2. LocksApart /\ PendingAlone
  BY <1>1 DEF LocksApart, PendingAlone, PendingOf, Nothing
<1>3. AnswersReady /\ AccountsHeld /\ MirrorsPending
  BY <1>1 DEF AnswersReady, ReadyOf, AccountsHeld, AccountsOf, MirrorsPending, MirrorOf, Nothing
<1>4. MirrorsStored /\ PostedOnce
  BY <1>1 DEF MirrorsStored, PostedOnce, Moved, NoMove
<1> QED
  BY <1>2, <1>3, <1>4, InitTyped DEF IInv

LEMMA IInvHolds == Spec => []IInv
<1>1. IInv /\ [Next]_vars => IInv'
  BY NextTyped, NextLocksApart, NextPendingAlone, NextAnswersReady, NextAccountsHeld,
     NextMirrorsPending, NextMirrorsStored, NextPostedOnce DEF IInv
<1> QED
  BY <1>1, InitIInv, PTL DEF Spec

\* However many requests bring one operation key, in whatever order their locks and
\* commits come: a request answered with success finds its own effect stored.
THEOREM OkMeansRecordedHolds == Spec => []OkMeansRecorded
<1>1. IInv => OkMeansRecorded
  BY DEF IInv, AnswersReady, ReadyOf, Answered, OkMeansRecorded
<1> QED
  BY <1>1, IInvHolds, PTL

\* The entries of every movement are in the ledger exactly once, and a movement is
\* undone at most once, by its mirror image, however reversals race.
THEOREM LedgerReconciledHolds == Spec => []LedgerReconciled
<1>1. IInv => LedgerReconciled
  BY DEF IInv, MirrorsStored, Mirrors, PostedOnce, LedgerReconciled, Typed, MoveRows
<1> QED
  BY <1>1, IInvHolds, PTL

\* An account that is switched off while a movement is prepared for it gets no new
\* movement: the lock lasts from the check of its status to the commit.
THEOREM ActiveAccountsOnlyHolds == Spec => ActiveAccountsOnly
<1>1. IInv /\ [Next]_vars =>
        \A k \in Keys : ~Moved(k) /\ move'[k] # NoMove /\ move'[k].of = None =>
          move'[k].target \notin inactive
  <2> SUFFICES ASSUME IInv, [Next]_vars, NEW k \in Keys,
                      ~Moved(k), move'[k] # NoMove, move'[k].of = None
               PROVE  move'[k].target \notin inactive
    OBVIOUS
  <2>1. Typed /\ PendingAlone /\ AccountsHeld
    BY DEF IInv
  <2>2. ASSUME NEW w \in Workers, Commits(w)
        PROVE  move'[k].target \notin inactive
    <3>1. adds[w].move # NoMove /\ move'[k] = adds[w].move
      BY <2>1, <2>2, CommitsMove DEF Moved
    <3> QED
      BY <2>1, <3>1 DEF AccountsHeld, AccountsOf
  <2>3. ASSUME NEW w \in Workers, Quiet(w) \/ InsertsMove(w) \/ InsertsEntry(w) \/ Starts(w)
        PROVE  FALSE
    BY <2>3 DEF Quiet, InsertsMove, InsertsEntry, Starts, tables, Moved
  <2>4. CASE SwitchesAccount
    BY <2>4 DEF SwitchesAccount, Moved
  <2> QED
    BY <2>1, <2>2, <2>3, <2>4, StepEffect
<1>2. IInv /\ [Next]_vars =>
        [\A k \in Keys : ~Moved(k) /\ move'[k] # NoMove /\ move'[k].of = None =>
           move'[k].target \notin inactive]_vars
  BY <1>1
<1> QED
  BY <1>2, IInvHolds, PTL DEF Spec, ActiveAccountsOnly

-----------------------------------------------------------------------------
(* What is collected, as a sum.                                            *)

EntriesOf(r) == {k \in Keys : coll[k].rec = r}
SignedOf == [k \in Keys |-> Signed(k)]
Balance(r) == SumOver(SignedOf, EntriesOf(r))

\* The collections of a receivable that no reversal took back.
Standing(r) ==
  {k \in Keys : coll[k].rec = r /\ coll[k].type = "collection" /\ ~EntryReversed(k)}
AmountOf == [k \in Keys |-> coll[k].amount]

LEMMA CollectedSum ==
  ASSUME NEW r, IsFiniteSet(EntriesOf(r))
  PROVE  Collected(r) = Balance(r)
<1> DEFINE S == EntriesOf(r)
           h == CHOOSE g : g = [s \in SUBSET S |->
                                  IF s = {} THEN 0
                                  ELSE Signed(CHOOSE k \in s : TRUE) + g[s \ {CHOOSE k \in s : TRUE}]]
<1>1. Collected(r) = h[S]
  BY DEF Collected, MapThenFoldSet, EntriesOf
<1>2. PICK g : Recurs(g, SignedOf, S)
  BY RecursExists
<1>3. \A s \in SUBSET S : s # {} =>
        (CHOOSE k \in s : TRUE) \in Keys /\ Pick(s) = (CHOOSE k \in s : TRUE)
        /\ SignedOf[Pick(s)] = Signed(CHOOSE k \in s : TRUE)
  BY DEF EntriesOf, SignedOf, Pick
<1>4. g = [s \in SUBSET S |-> IF s = {} THEN 0
           ELSE Signed(CHOOSE k \in s : TRUE) + g[s \ {CHOOSE k \in s : TRUE}]]
  BY <1>2, <1>3 DEF Recurs, Pick
<1>5. h = [s \in SUBSET S |-> IF s = {} THEN 0
           ELSE Signed(CHOOSE k \in s : TRUE) + h[s \ {CHOOSE k \in s : TRUE}]]
  BY <1>4
<1> HIDE DEF h
<1>6. Recurs(h, SignedOf, S)
  BY <1>3, <1>5 DEF Recurs, Pick
<1>7. PICK u : Recurs(u, SignedOf, EntriesOf(r)) /\ Collected(r) = u[EntriesOf(r)]
  BY <1>1, <1>6
<1>8. u[EntriesOf(r)] = SumOver(SignedOf, EntriesOf(r))
  BY <1>7, SumRecurs
<1> QED
  BY <1>7, <1>8 DEF Balance

FiniteEntries == IsFiniteSet({k \in Keys : Exists(k)})

LEMMA EntriesFinite ==
  ASSUME FiniteEntries, NEW r \in Recs, NEW S, S \subseteq EntriesOf(r)
  PROVE  IsFiniteSet(S)
<1>1. S \subseteq {k \in Keys : Exists(k)}
  BY DEF EntriesOf, Exists, NoEntry
<1> QED
  BY <1>1, FS_Subset DEF FiniteEntries

LEMMA SumTypes ==
  Typed => \A k \in Keys : SignedOf[k] \in Int /\ AmountOf[k] \in Nat
  BY DEF Typed, EntryRows, SignedOf, AmountOf, Signed

\* Entries of other receivables do not count.
LEMMA BalanceKept ==
  ASSUME FiniteEntries, NEW r \in Recs,
         \A k \in Keys : coll[k].rec = r \/ coll'[k].rec = r => coll'[k] = coll[k]
  PROVE  Balance(r)' = Balance(r)
<1>1. EntriesOf(r)' = EntriesOf(r)
  BY DEF EntriesOf
<1>2. \A k \in EntriesOf(r) : SignedOf'[k] = SignedOf[k]
  BY DEF EntriesOf, SignedOf, Signed
<1>3. SumOver(SignedOf', EntriesOf(r)) = SumOver(SignedOf, EntriesOf(r))
  BY <1>2, EntriesFinite, SumSame
<1> QED
  BY <1>1, <1>3 DEF Balance

-----------------------------------------------------------------------------
(* The books' invariant: what a transaction knows once it has its locks,   *)
(* and what the tables are like between two commits.                       *)

Sized ==
  /\ voided \in SUBSET Recs
  /\ req \in [Workers -> Requests \cup {NoRequest}]
  /\ seen \in [Workers -> 0..Total]
  /\ \A k \in Keys : /\ coll[k].amount \in Amounts \cup Legacy \cup {0}
                     /\ move[k].amount \in Amounts \cup {0}
  /\ \A w \in Workers : /\ adds[w].coll.amount \in Amounts \cup Legacy \cup {0}
                        /\ adds[w].move.amount \in Amounts \cup {0}
                        /\ pc[w] \in Ended => held[w] = {} /\ adds[w] = Nothing

\* The steps after the receivable was locked.
Past == {"recheck", "find", "movement", "account", "post", "insert", "commit"}
ForEntry(q) == q.kind \in {"collect", "reverse"}
RecOf(q) == IF q.kind = "collect" THEN q.rec ELSE coll[q.of].rec

KindOf(w) ==
  /\ pc[w] = "managed" => req[w].kind = "payback"
  /\ pc[w] = "recheck" => req[w].kind = "collect"

HoldsOf(w) ==
  pc[w] \in Past /\ ForEntry(req[w]) =>
    /\ RecOf(req[w]) \in Recs \ voided
    /\ <<"receivable", RecOf(req[w])>> \in held[w]

\* A collection stays in force while its reversal is under way.
OriginalOf(w) ==
  req[w].kind = "reverse" =>
    /\ pc[w] \in Past \cup {"receivable"} => coll[req[w].of].type = "collection"
    /\ pc[w] \in Past => ~EntryReversed(req[w].of)
    /\ pc[w] \in Past \ {"insert", "commit"} => coll[req[w].of].moved

\* What was read under the lock is still so when the entry is inserted.
FitsOf(w) ==
  req[w].kind = "collect" =>
    /\ pc[w] \in Past => seen[w] = Balance(req[w].rec)
    /\ pc[w] \in Past \ {"recheck"} => Fits(w) /\ coll[req[w].key].rec # req[w].rec

\* No collection owns the movement that a plain reversal takes back.
PaybackOf(w) ==
  req[w].kind = "payback" /\ pc[w] \in Steps =>
    /\ Moved(req[w].of)
    /\ pc[w] # "managed" => ~coll[req[w].of].moved

\* A collection is written with its movement, a reversal with one if there is
\* one to take back, and neither without its entry.
EntryPending(w) ==
  /\ adds[w].coll # NoEntry => ForEntry(req[w]) /\ adds[w].coll = NewEntry(req[w])
  /\ adds[w].move # NoMove => adds[w].move.of = req[w].of
  /\ pc[w] \in {"insert", "commit"} =>
       /\ req[w].kind = "collect" => adds[w].move # NoMove
       /\ req[w].kind = "reverse" => (adds[w].move # NoMove <=> coll[req[w].of].moved)
  /\ pc[w] = "commit" /\ ForEntry(req[w]) => adds[w].coll # NoEntry

WorkerOf(w) ==
  KindOf(w) /\ HoldsOf(w) /\ OriginalOf(w) /\ FitsOf(w) /\ PaybackOf(w) /\ EntryPending(w)
WorkersSound == \A w \in Workers : WorkerOf(w)

\* A reversal mirrors a collection, and is alone in it.
EntriesStored ==
  \A k \in Keys : Exists(k) =>
    /\ coll[k].rec \in Recs /\ coll[k].type # "none"
    /\ coll[k].type = "collection" => coll[k].of = None
    /\ coll[k].type = "reversal" =>
         LET o == coll[k].of IN
         /\ o \in Keys /\ coll[o].type = "collection"
         /\ coll[k].rec = coll[o].rec /\ coll[k].amount = coll[o].amount
         /\ coll[k].moved = coll[o].moved
         /\ \A j \in Keys : coll[j].of = o => j = k

\* A movement whose text names a receivable belongs to a collection from it.
TextBacked ==
  \A k \in Keys : Moved(k) /\ move[k].of = None /\ move[k].text # None =>
    coll[k].type = "collection" /\ coll[k].moved /\ coll[k].rec = move[k].text

\* Reversals and what they take back cancel out: this bounds a balance from below.
NetSums == \A r \in Recs : Balance(r) = SumOver(AmountOf, Standing(r))
Capped == \A r \in Recs : Balance(r) <= Total
VoidedNet == \A r \in voided : Balance(r) = 0

Books == /\ FiniteEntries /\ EntriesStored /\ TextBacked /\ Backed
         /\ NetSums /\ Capped /\ VoidedNet
BInv == Sized /\ WorkersSound /\ Books

-----------------------------------------------------------------------------
(* The steps of the transaction itself.                                    *)

\* Whoever has ended claims nothing.
LEMMA EndSound ==
  ASSUME Typed, NEW w \in Workers, NEW result \in Ended, End(w, result)
  PROVE  WorkerOf(w)'
<1>1. pc'[w] = result /\ adds'[w] = Nothing
  BY DEF End, Goto, Typed
<1> QED
  BY <1>1 DEF WorkerOf, KindOf, HoldsOf, OriginalOf, FitsOf, PaybackOf, EntryPending, Past, Steps,
              Ended, Nothing

LEMMA RefuseSound ==
  ASSUME Typed, NEW w \in Workers, Refuse(w)
  PROVE  WorkerOf(w)'
  BY EndSound DEF Refuse, Ended

\* What is said of rows does not change with them unchanged.
LEMMA TablesSame ==
  ASSUME UNCHANGED <<coll, move>>
  PROVE  /\ \A k : EntryReversed(k)' = EntryReversed(k) /\ MoveReversed(k)' = MoveReversed(k)
         /\ \A k : Moved(k)' = Moved(k) /\ Exists(k)' = Exists(k)
         /\ \A r : Balance(r)' = Balance(r) /\ Standing(r)' = Standing(r)
         /\ AmountOf' = AmountOf
  BY DEF EntryReversed, MoveReversed, Moved, Exists, Balance, Standing, AmountOf, SignedOf, Signed,
         EntriesOf

\* A step that only locks and reads on, from one to the next.
LEMMA ProceedSame ==
  ASSUME Typed, NEW w \in Workers, NEW step, NEW ls, Proceed(w, step, ls)
  PROVE  /\ pc'[w] = step /\ req'[w] = req[w] /\ seen'[w] = seen[w] /\ adds'[w] = adds[w]
         /\ held'[w] = held[w] \cup ls
         /\ coll' = coll /\ move' = move /\ voided' = voided
  BY DEF Proceed, Goto, Take, Typed, tables

LEMMA ProceedSound ==
  ASSUME Typed, WorkersSound, NEW w \in Workers, NEW step \in {"movement", "account", "post"}, NEW ls,
         Proceed(w, step, ls), pc[w] \in {"find", "movement", "account"}
  PROVE  WorkerOf(w)'
<1>1. WorkerOf(w)
  BY DEF WorkersSound
<1>2. pc[w] \in Past \ {"recheck", "insert", "commit"} /\ pc[w] \in Steps /\ pc[w] # "managed"
  BY DEF Past, Steps
<1>3. step \in Past \ {"recheck", "insert", "commit"} /\ step # "managed"
  BY DEF Past
<1>4. /\ pc'[w] = step /\ req'[w] = req[w] /\ seen'[w] = seen[w] /\ adds'[w] = adds[w]
      /\ held[w] \subseteq held'[w] /\ coll' = coll /\ move' = move /\ voided' = voided
  BY ProceedSame
<1>5. KindOf(w)' /\ HoldsOf(w)' /\ FitsOf(w)'
  BY <1>1, <1>2, <1>3, <1>4, TablesSame DEF WorkerOf, KindOf, HoldsOf, FitsOf, RecOf, ForEntry, Fits
<1>6. OriginalOf(w)' /\ PaybackOf(w)'
  BY <1>1, <1>2, <1>3, <1>4, TablesSame DEF WorkerOf, OriginalOf, PaybackOf
<1>7. EntryPending(w)'
  BY <1>1, <1>2, <1>3, <1>4 DEF WorkerOf, EntryPending, ForEntry, NewEntry
<1> QED
  BY <1>5, <1>6, <1>7 DEF WorkerOf

LEMMA LookSound ==
  ASSUME Typed, PendingAlone, WorkersSound, NEW w \in Workers, Look(w)
  PROVE  WorkerOf(w)'
<1>1. WorkerOf(w) /\ pc[w] = "look" /\ adds[w].coll = NoEntry /\ adds[w].move = NoMove
      /\ req[w].kind \in {"collect", "reverse"}
  BY DEF WorkersSound, PendingAlone, PendingOf, Look, Typed, Looking
<1>2. PICK step \in {"receivable", "original"} :
        Proceed(w, step, {}) /\ (step = "receivable" => req[w].kind = "collect")
  BY DEF Look
<1> QED
  BY <1>1, <1>2, ProceedSame DEF WorkerOf, KindOf, HoldsOf, OriginalOf, FitsOf, PaybackOf,
     EntryPending, Past

LEMMA LockOriginalSound ==
  ASSUME Typed, PendingAlone, WorkersSound, NEW w \in Workers, LockOriginal(w)
  PROVE  WorkerOf(w)'
<1>1. WorkerOf(w) /\ pc[w] = "original" /\ adds[w].coll = NoEntry /\ adds[w].move = NoMove
      /\ req[w].kind \in {"collect", "reverse"}
  BY DEF WorkersSound, PendingAlone, PendingOf, LockOriginal, Typed, Looking
<1>2. CASE coll[req[w].of].type = "collection"
  <2>1. Proceed(w, "receivable", EntryLocks(req[w].of))
    BY <1>2 DEF LockOriginal
  <2> QED
    BY <1>1, <1>2, <2>1, ProceedSame DEF WorkerOf, KindOf, HoldsOf, OriginalOf, FitsOf, PaybackOf,
       EntryPending, Past
<1>3. CASE coll[req[w].of].type # "collection"
  BY <1>3, RefuseSound DEF LockOriginal
<1> QED
  BY <1>2, <1>3

LEMMA LockReceivableSound ==
  ASSUME Typed, PendingAlone, BInv, NEW w \in Workers, LockReceivable(w)
  PROVE  WorkerOf(w)'
<1> DEFINE q == req[w]
           r == RecOf(q)
           step == IF q.kind = "collect" THEN "recheck"
                   ELSE IF coll[q.of].moved THEN "find" ELSE "insert"
<1>1. /\ WorkerOf(w) /\ pc[w] = "receivable" /\ ForEntry(q) /\ ReqOf(q)
      /\ adds[w].coll = NoEntry /\ adds[w].move = NoMove
  BY DEF BInv, WorkersSound, PendingAlone, PendingOf, LockReceivable, Typed, Looking, ForEntry
<1>2. CASE r \in voided \/ (q.kind = "reverse" /\ EntryReversed(q.of))
  BY <1>2, RefuseSound DEF LockReceivable, RecOf
<1>3. CASE ~(r \in voided \/ (q.kind = "reverse" /\ EntryReversed(q.of)))
  <2>1. /\ Take(w, ReceivableLock(r)) /\ Goto(w, step)
        /\ seen' = [seen EXCEPT ![w] = Collected(r)]
        /\ UNCHANGED <<tables, req, adds>>
    BY <1>3 DEF LockReceivable, RecOf
  <2>2. /\ pc'[w] = step /\ req'[w] = q /\ seen'[w] = Collected(r) /\ adds'[w] = adds[w]
        /\ <<"receivable", r>> \in held'[w]
        /\ coll' = coll /\ move' = move /\ voided' = voided
    BY <2>1 DEF Goto, Take, Typed, Sized, BInv, tables, ReceivableLock
  <2>3. q.kind = "reverse" => coll[q.of].type = "collection" /\ q.of \in Keys /\ r \in Recs
    <3>1. q.kind = "reverse" => coll[q.of].type = "collection" /\ q.of \in Keys
      BY <1>1 DEF WorkerOf, OriginalOf, ReqOf
    <3> QED
      BY <3>1 DEF BInv, Books, EntriesStored, Exists, NoEntry, RecOf
  <2>4. q.kind = "collect" => r \in Recs
    BY <1>1 DEF ReqOf, RecOf
  <2>5. r \in Recs \ voided
    BY <1>1, <1>3, <2>3, <2>4 DEF ForEntry
  <2>6. Collected(r) = Balance(r)
    BY <2>5, EntriesFinite, CollectedSum DEF BInv, Books
  <2>7. /\ step \in {"recheck", "find", "insert"}
        /\ step = "recheck" <=> q.kind = "collect"
        /\ q.kind = "reverse" => (coll[q.of].moved <=> step # "insert")
    BY <1>1 DEF ForEntry
  <2>8. RecOf(q)' = r
    BY <2>2 DEF RecOf
  <2> HIDE DEF step, r
  <2>9. KindOf(w)' /\ HoldsOf(w)'
    BY <2>2, <2>5, <2>7, <2>8 DEF KindOf, HoldsOf
  <2>10. OriginalOf(w)'
    BY <1>3, <2>2, <2>3, <2>7, TablesSame DEF OriginalOf
  <2>11. FitsOf(w)'
    BY <2>2, <2>6, <2>7, TablesSame DEF FitsOf, r, RecOf
  <2>12. PaybackOf(w)' /\ EntryPending(w)'
    BY <1>1, <2>2, <2>7 DEF PaybackOf, EntryPending, ForEntry
  <2> QED
    BY <2>9, <2>10, <2>11, <2>12 DEF WorkerOf
<1> QED
  BY <1>2, <1>3

LEMMA RecheckSound ==
  ASSUME Typed, PendingAlone, BInv, NEW w \in Workers, Recheck(w)
  PROVE  WorkerOf(w)'
<1>1. /\ WorkerOf(w) /\ pc[w] = "recheck" /\ adds[w].coll = NoEntry /\ adds[w].move = NoMove
      /\ ReqOf(req[w]) /\ ~Exists(req[w].key)
  BY DEF BInv, WorkersSound, PendingAlone, PendingOf, Recheck, Typed
<1>2. CASE Fits(w)
  <2>1. Proceed(w, "find", {})
    BY <1>2 DEF Recheck
  <2>2. req[w].kind = "collect" /\ coll[req[w].key].rec # req[w].rec
    BY <1>1 DEF WorkerOf, KindOf, ReqOf, Exists, NoEntry
  <2>3. /\ pc'[w] = "find" /\ req'[w] = req[w] /\ seen'[w] = seen[w] /\ adds'[w] = adds[w]
        /\ held'[w] = held[w] \cup {} /\ coll' = coll /\ move' = move /\ voided' = voided
    BY <2>1, ProceedSame
  <2>4. HoldsOf(w)' /\ FitsOf(w)' /\ Fits(w)'
    BY <1>1, <1>2, <2>2, <2>3, TablesSame
    DEF WorkerOf, HoldsOf, FitsOf, RecOf, ForEntry, Fits, Past
  <2>5. KindOf(w)' /\ OriginalOf(w)' /\ PaybackOf(w)' /\ EntryPending(w)'
    BY <1>1, <2>2, <2>3 DEF KindOf, OriginalOf, PaybackOf, EntryPending
  <2> QED
    BY <2>4, <2>5 DEF WorkerOf
<1>3. CASE ~Fits(w)
  BY <1>3, RefuseSound DEF Recheck
<1> QED
  BY <1>2, <1>3

LEMMA CheckManagedSound ==
  ASSUME Typed, PendingAlone, BInv, NEW w \in Workers, CheckManaged(w)
  PROVE  WorkerOf(w)'
<1>1. WorkerOf(w) /\ pc[w] = "managed" /\ adds[w].coll = NoEntry /\ adds[w].move = NoMove
  BY DEF BInv, WorkersSound, PendingAlone, PendingOf, CheckManaged, Typed
<1>2. CASE Unmanaged(req[w].of)
  <2>1. Proceed(w, "find", {})
    BY <1>2 DEF CheckManaged
  <2> QED
    BY <1>1, <1>2, <2>1, ProceedSame, TablesSame
    DEF WorkerOf, KindOf, HoldsOf, OriginalOf, FitsOf, PaybackOf, EntryPending, Past, Unmanaged,
        ForEntry, Steps
<1>3. CASE ~Unmanaged(req[w].of)
  BY <1>3, RefuseSound DEF CheckManaged
<1> QED
  BY <1>2, <1>3

\* Under its locks, a collection or a reversal finds no movement made for it: no
\* one else can have made it.
LEMMA NoMoveYet ==
  ASSUME Typed, BInv, NEW w \in Workers, pc[w] \in {"find", "post"}, ForEntry(req[w]),
         Moved(req[w].key)
  PROVE  ~MoveMatches(req[w])
<1> DEFINE q == req[w]
<1> SUFFICES ASSUME MoveMatches(q) PROVE FALSE
  OBVIOUS
<1>1. WorkerOf(w) /\ ReqOf(q) /\ pc[w] \in Past \ {"recheck", "insert", "commit"}
  BY DEF BInv, WorkersSound, Typed, Past
<1>2. CASE q.kind = "collect"
  <2>1. move[q.key].of = None /\ move[q.key].text = q.rec /\ q.rec # None /\ q.key \in Keys
    BY <1>1, <1>2 DEF MoveMatches, Wanted, ReqOf
  <2>2. coll[q.key].rec = q.rec
    BY <2>1 DEF BInv, Books, TextBacked
  <2> QED
    BY <1>1, <1>2, <2>2 DEF WorkerOf, FitsOf
<1>3. CASE q.kind = "reverse"
  <2>1. coll[q.of].type = "collection" /\ ~EntryReversed(q.of) /\ coll[q.of].moved
    BY <1>1, <1>3 DEF WorkerOf, OriginalOf
  <2>2. q.key \in Keys /\ q.of \in Keys /\ move[q.key].of = q.of
    BY <1>1, <1>3 DEF MoveMatches, ReqOf
  <2> QED
    BY <2>1, <2>2 DEF BInv, Books, Backed, MoveReversed
<1> QED
  BY <1>2, <1>3 DEF ForEntry

LEMMA FindMoveSound ==
  ASSUME Typed, PendingAlone, BInv, NEW w \in Workers, FindMove(w)
  PROVE  WorkerOf(w)'
<1>1. pc[w] = "find" /\ ReqOf(req[w]) /\ WorkersSound
  BY DEF BInv, FindMove, Typed
<1>2. CASE ~Moved(req[w].key)
  BY <1>1, <1>2, ProceedSound DEF FindMove
<1>3. CASE Moved(req[w].key) /\ ~MoveMatches(req[w])
  BY <1>3, RefuseSound DEF FindMove, AfterReplayedMove
<1>4. CASE Moved(req[w].key) /\ MoveMatches(req[w])
  <2>1. req[w].kind \in {"pay", "payback"}
    BY <1>1, <1>4, NoMoveYet DEF ReqOf, ForEntry
  <2> QED
    BY <1>4, <2>1, EndSound DEF FindMove, AfterReplayedMove, Ended
<1> QED
  BY <1>2, <1>3, <1>4

LEMMA LockMovementSound ==
  ASSUME Typed, BInv, NEW w \in Workers, LockMovement(w) \/ LockAccounts(w)
  PROVE  WorkerOf(w)'
<1>1. CASE LockMovement(w)
  BY <1>1, ProceedSound, RefuseSound DEF LockMovement, BInv
<1>2. CASE LockAccounts(w)
  BY <1>2, ProceedSound, RefuseSound DEF LockAccounts, BInv
<1> QED
  BY <1>1, <1>2

LEMMA InsertMoveSound ==
  ASSUME Typed, PendingAlone, BInv, NEW w \in Workers, InsertMove(w)
  PROVE  WorkerOf(w)'
<1> DEFINE q == req[w]
           m == Wanted(q)
           ls == {MoveLock(q.key)} \cup IF m.of = None THEN {} ELSE {MoveReversalLock(m.of)}
           bad == IF Moved(q.key) THEN ~MoveMatches(q) ELSE m.of # None /\ ~Reversible(m.of)
<1>1. WorkerOf(w) /\ pc[w] = "post" /\ ReqOf(q) /\ pc[w] \in Past \ {"recheck", "insert", "commit"}
  BY DEF BInv, WorkersSound, InsertMove, Typed, Past
<1>2. CASE bad
  BY <1>2, RefuseSound DEF InsertMove
<1>3. CASE ~bad
  <2>1. /\ adds' = [adds EXCEPT ![w] = [coll |-> NoEntry, posts |-> Posts(w),
                                        move |-> IF Moved(q.key) THEN NoMove ELSE m]]
        /\ Take(w, ls)
        /\ Goto(w, IF q.kind \in {"pay", "payback"} THEN "commit" ELSE "insert")
        /\ UNCHANGED <<tables, req, seen>>
    BY <1>3 DEF InsertMove
  <2>2. /\ pc'[w] \in {"insert", "commit"} /\ (pc'[w] = "insert" <=> ForEntry(q))
        /\ req'[w] = q /\ seen'[w] = seen[w] /\ held[w] \subseteq held'[w]
        /\ coll' = coll /\ move' = move /\ voided' = voided
    BY <1>1, <2>1 DEF Goto, Take, Typed, tables, ForEntry, ReqOf
  <2>3. /\ adds'[w].coll = NoEntry
        /\ adds'[w].move = IF Moved(q.key) THEN NoMove ELSE m
    BY <2>1 DEF Typed
  <2>4. m # NoMove /\ m.of = q.of
    BY <1>1, WantedType
  <2>5. ForEntry(q) => ~Moved(q.key)
    BY <1>1, <1>3, NoMoveYet
  <2> HIDE DEF m
  <2>6. EntryPending(w)'
    BY <1>1, <2>2, <2>3, <2>4, <2>5 DEF EntryPending, ForEntry, WorkerOf, OriginalOf, NoMove
  <2>7. KindOf(w)' /\ HoldsOf(w)' /\ FitsOf(w)'
    BY <1>1, <2>2, TablesSame DEF WorkerOf, KindOf, HoldsOf, FitsOf, RecOf, ForEntry, Fits
  <2>8. OriginalOf(w)' /\ PaybackOf(w)'
    BY <1>1, <2>2, TablesSame DEF WorkerOf, OriginalOf, PaybackOf, Steps
  <2> QED
    BY <2>6, <2>7, <2>8 DEF WorkerOf
<1> QED
  BY <1>2, <1>3

LEMMA InsertEntrySound ==
  ASSUME Typed, BInv, NEW w \in Workers, InsertEntry(w)
  PROVE  WorkerOf(w)'
<1> DEFINE q == req[w]
           ls == {EntryLock(q.key)} \cup
                 IF q.kind = "reverse" THEN {EntryReversalLock(q.of)} ELSE {}
           bad == IF Exists(q.key) THEN ~EntryMatches(q)
                  ELSE q.kind = "reverse" /\ EntryReversed(q.of)
<1>1. WorkerOf(w) /\ pc[w] = "insert" /\ ReqOf(q) /\ ForEntry(q) /\ pc[w] \in Past \ {"recheck"}
  BY DEF BInv, WorkersSound, InsertEntry, Typed, Past, ForEntry
<1>2. CASE bad
  BY <1>2, RefuseSound DEF InsertEntry
<1>3. CASE ~bad
  <2>1. /\ adds' = [adds EXCEPT ![w] = [coll |-> IF Exists(q.key) THEN NoEntry ELSE NewEntry(q),
                                        move |-> adds[w].move, posts |-> adds[w].posts]]
        /\ Take(w, ls) /\ Goto(w, "commit")
        /\ UNCHANGED <<tables, req, seen>>
    BY <1>3 DEF InsertEntry
  <2>2. ~Exists(q.key)
    <3>1. CASE q.kind = "collect"
      BY <1>1, <1>3, <3>1 DEF EntryMatches, WorkerOf, FitsOf
    <3>2. CASE q.kind = "reverse"
      BY <1>1, <1>3, <3>2 DEF EntryMatches, WorkerOf, OriginalOf, EntryReversed, ReqOf
    <3> QED
      BY <1>1, <3>1, <3>2 DEF ForEntry
  <2>3. /\ pc'[w] = "commit" /\ req'[w] = q /\ seen'[w] = seen[w] /\ held[w] \subseteq held'[w]
        /\ coll' = coll /\ move' = move /\ voided' = voided
        /\ adds'[w].coll = NewEntry(q) /\ adds'[w].move = adds[w].move
    BY <2>1, <2>2 DEF Goto, Take, Typed, tables
  <2>4. NewEntry(q) # NoEntry /\ NewEntry(q)' = NewEntry(q)
    BY <1>1, <2>3, NewEntryType DEF ForEntry, NewEntry
  <2>5. EntryPending(w)'
    BY <1>1, <2>3, <2>4 DEF EntryPending, ForEntry, WorkerOf, NewEntry
  <2>6. KindOf(w)' /\ HoldsOf(w)' /\ FitsOf(w)'
    BY <1>1, <2>3, TablesSame DEF WorkerOf, KindOf, HoldsOf, FitsOf, RecOf, ForEntry, Fits, Past
  <2>7. OriginalOf(w)' /\ PaybackOf(w)'
    BY <1>1, <2>3, TablesSame DEF WorkerOf, OriginalOf, PaybackOf, ForEntry
  <2> QED
    BY <2>5, <2>6, <2>7 DEF WorkerOf
<1> QED
  BY <1>2, <1>3

LEMMA StartSound ==
  ASSUME Typed, BInv, NEW w \in Workers, NEW q \in Requests, Start(w, q)
  PROVE  WorkerOf(w)'
<1>1. /\ pc'[w] = IF q.kind = "pay" THEN "find" ELSE IF q.kind = "payback" THEN "managed" ELSE "look"
      /\ req'[w] = q /\ adds'[w] = adds[w] /\ coll' = coll /\ move' = move /\ Known(q)
  BY DEF Start, Goto, Typed, tables, Sized, BInv
<1>2. adds[w] = Nothing
  BY DEF Start, BInv, Sized
<1>3. q.kind \in {"collect", "reverse", "pay", "payback"}
  BY RequestShape DEF ReqOf
<1> QED
  BY <1>1, <1>2, <1>3 DEF WorkerOf, KindOf, HoldsOf, OriginalOf, FitsOf, PaybackOf, EntryPending,
     Past, Nothing, ForEntry, Known, Moved

-----------------------------------------------------------------------------
(* The steps of the others.                                                *)

OthersSame(w) ==
  \A v \in Workers \ {w} : /\ pc'[v] = pc[v] /\ req'[v] = req[v] /\ seen'[v] = seen[v]
                           /\ held'[v] = held[v] /\ adds'[v] = adds[v]

LEMMA StepOthersSame ==
  ASSUME Typed, Sized, NEW w \in Workers, Step(w) \/ \E q \in Requests : Start(w, q)
  PROVE  OthersSame(w) /\ (UNCHANGED tables \/ Commit(w))
<1>1. ASSUME NEW result, End(w, result)
      PROVE  OthersSame(w)
  BY <1>1 DEF End, Goto, OthersSame, Typed, Sized
<1>2. ASSUME NEW step, NEW ls, Proceed(w, step, ls)
      PROVE  OthersSame(w) /\ UNCHANGED tables
  BY <1>2 DEF Proceed, Goto, Take, OthersSame, Typed, Sized
<1>3. CASE Refuse(w)
  BY <1>1, <1>3 DEF Refuse
<1>4. CASE Replay(w) \/ Look(w) \/ LockOriginal(w) \/ Recheck(w) \/ CheckManaged(w)
           \/ LockMovement(w) \/ LockAccounts(w) \/ Fail(w)
  BY <1>1, <1>2, <1>3, <1>4 DEF Replay, Look, LockOriginal, Recheck, CheckManaged, LockMovement,
                                LockAccounts, Fail
<1>5. CASE FindMove(w)
  BY <1>1, <1>2, <1>3, <1>5 DEF FindMove, AfterReplayedMove
<1>6. CASE LockReceivable(w)
  BY <1>3, <1>6 DEF LockReceivable, OthersSame, Goto, Take, Typed, Sized
<1>7. CASE InsertMove(w)
  BY <1>3, <1>7 DEF InsertMove, OthersSame, Goto, Take, Typed, Sized
<1>8. CASE InsertEntry(w)
  BY <1>3, <1>8 DEF InsertEntry, OthersSame, Goto, Take, Typed, Sized
<1>9. CASE Commit(w)
  BY <1>1, <1>9 DEF Commit
<1>10. ASSUME NEW q \in Requests, Start(w, q)
       PROVE  OthersSame(w) /\ UNCHANGED tables
  BY <1>10 DEF Start, Goto, OthersSame, Typed, Sized
<1> QED
  BY <1>4, <1>5, <1>6, <1>7, <1>8, <1>9, <1>10 DEF Step

\* Without a commit, nothing changes for the others.
LEMMA QuietOthers ==
  ASSUME WorkersSound, NEW w \in Workers, NEW v \in Workers \ {w}, OthersSame(w),
         UNCHANGED tables
  PROVE  WorkerOf(v)'
<1>1. /\ WorkerOf(v) /\ coll' = coll /\ move' = move /\ voided' = voided
      /\ pc'[v] = pc[v] /\ req'[v] = req[v] /\ seen'[v] = seen[v]
      /\ held'[v] = held[v] /\ adds'[v] = adds[v]
  BY DEF WorkersSound, OthersSame, tables
<1>2. KindOf(v)' /\ HoldsOf(v)' /\ FitsOf(v)'
  BY <1>1, TablesSame DEF WorkerOf, KindOf, HoldsOf, FitsOf, RecOf, ForEntry, Fits
<1>3. OriginalOf(v)' /\ PaybackOf(v)'
  BY <1>1, TablesSame DEF WorkerOf, OriginalOf, PaybackOf
<1>4. EntryPending(v)'
  BY <1>1 DEF WorkerOf, EntryPending, ForEntry, NewEntry
<1> QED
  BY <1>2, <1>3, <1>4 DEF WorkerOf

-----------------------------------------------------------------------------
(* A commit.                                                               *)

LEMMA CollSame ==
  ASSUME coll' = coll
  PROVE  /\ \A k : EntryReversed(k)' = EntryReversed(k) /\ Exists(k)' = Exists(k)
         /\ \A r : Balance(r)' = Balance(r) /\ Standing(r)' = Standing(r)
         /\ AmountOf' = AmountOf
  BY DEF EntryReversed, Exists, Balance, Standing, AmountOf, SignedOf, Signed, EntriesOf

\* What the transaction that commits is known to hold and to write.
LEMMA CommitFacts ==
  ASSUME IInv, BInv, NEW w \in Workers, Commit(w)
  PROVE  LET q == req[w] IN
         /\ ReqOf(q) /\ WorkerOf(w) /\ pc[w] = "commit" /\ RowsKept /\ voided' = voided
         /\ ~ForEntry(q) => coll' = coll
         /\ ForEntry(q) =>
              /\ ~Exists(q.key) /\ NewEntry(q).rec = RecOf(q)
              /\ RecOf(q) \in Recs \ voided /\ <<"receivable", RecOf(q)>> \in held[w]
              /\ \A k \in Keys : coll'[k] = IF k = q.key THEN NewEntry(q) ELSE coll[k]
         /\ adds[w].move = NoMove => move' = move
         /\ adds[w].move # NoMove =>
              /\ ~Moved(q.key)
              /\ \A k \in Keys : move'[k] = IF k = q.key THEN adds[w].move ELSE move[k]
<1> DEFINE q == req[w]
<1>1. Typed /\ PendingAlone /\ Commits(w) /\ [Next]_vars /\ RowsKept
  BY CommitEffect, NextRowsKept DEF IInv, Next, Step
<1>2. ReqOf(q) /\ WorkerOf(w) /\ PendingOf(w) /\ pc[w] = "commit" /\ pc[w] \in Past
  BY <1>1 DEF Commits, Typed, BInv, WorkersSound, PendingAlone, Past
<1>3. adds[w].coll # NoEntry <=> ForEntry(q)
  BY <1>2 DEF WorkerOf, EntryPending
<1>4. ForEntry(q) => adds[w].coll = NewEntry(q) /\ ~Exists(q.key)
  BY <1>2, <1>3 DEF WorkerOf, EntryPending, PendingOf
<1>5. NewEntry(q).rec = RecOf(q)
  BY DEF NewEntry, RecOf
<1>6. ForEntry(q) => RecOf(q) \in Recs \ voided /\ <<"receivable", RecOf(q)>> \in held[w]
  BY <1>2 DEF WorkerOf, HoldsOf
<1>7. ForEntry(q) => \A k \in Keys : coll'[k] = IF k = q.key THEN NewEntry(q) ELSE coll[k]
  BY <1>1, <1>2, <1>3, <1>4 DEF Commits, Typed, ReqOf
<1>8. ~ForEntry(q) => coll' = coll
  BY <1>1, <1>3 DEF Commits
<1>9. voided' = voided
  BY <1>1 DEF Commits
<1> QED
  BY <1>1, <1>2, <1>4, <1>5, <1>6, <1>7, <1>8, <1>9, CommitsMove

\* Who locked another receivable, or takes back another movement, is not disturbed.
LEMMA CommitOthers ==
  ASSUME IInv, BInv, NEW w \in Workers, Commit(w), NEW v \in Workers \ {w}, OthersSame(w)
  PROVE  WorkerOf(v)'
<1> PICK q, p : q = req[w] /\ p = req[v]
  OBVIOUS
<1>1. /\ ReqOf(q) /\ WorkerOf(w) /\ pc[w] = "commit" /\ RowsKept /\ voided' = voided
      /\ ~ForEntry(q) => coll' = coll
      /\ ForEntry(q) =>
           /\ ~Exists(q.key) /\ NewEntry(q).rec = RecOf(q)
           /\ RecOf(q) \in Recs \ voided /\ <<"receivable", RecOf(q)>> \in held[w]
           /\ \A k \in Keys : coll'[k] = IF k = q.key THEN NewEntry(q) ELSE coll[k]
      /\ adds[w].move # NoMove => ~Moved(q.key)
  BY CommitFacts
<1>2. /\ WorkerOf(v) /\ (pc[v] # "idle" => ReqOf(p))
      /\ pc'[v] = pc[v] /\ req'[v] = p /\ req[v] = p /\ seen'[v] = seen[v]
      /\ held'[v] = held[v] /\ adds'[v] = adds[v]
      /\ pc[v] \in Past \cup Steps => pc[v] # "idle"
  BY DEF OthersSame, BInv, WorkersSound, IInv, Typed, Past, Steps
<1>3. ASSUME ForEntry(q), pc[v] \in Past, ForEntry(p)
      PROVE  RecOf(p) # RecOf(q)
  <2>1. held[v] \cap held[w] = {}
    BY DEF IInv, LocksApart
  <2> QED
    BY <1>1, <1>2, <1>3, <2>1 DEF WorkerOf, HoldsOf
<1>4. p.kind = "reverse" /\ pc[v] \in Past \cup {"receivable", "commit"} => coll'[p.of] = coll[p.of]
  <2> SUFFICES ASSUME p.kind = "reverse", pc[v] \in Past \cup {"receivable"}
               PROVE  coll'[p.of] = coll[p.of]
    BY DEF Past
  <2>1. coll[p.of].type = "collection" /\ p.of \in Keys
    BY <1>2 DEF WorkerOf, OriginalOf, ReqOf
  <2> QED
    BY <1>1, <2>1 DEF RowsKept, Exists, NoEntry
<1>5. pc[v] \in Past /\ ForEntry(p) => RecOf(p)' = RecOf(p)
  BY <1>4 DEF RecOf, ForEntry
<1>6. KindOf(v)' /\ HoldsOf(v)'
  <2>1. pc[v] \in Past /\ ForEntry(p) => IF p.kind = "collect" THEN p.rec = RecOf(p) ELSE coll'[p.of].rec = RecOf(p)
    BY <1>4 DEF RecOf, ForEntry
  <2> QED
    BY <1>1, <1>2, <2>1 DEF WorkerOf, KindOf, HoldsOf, ForEntry, RecOf
<1>7. OriginalOf(v)'
  <2>1. ASSUME p.kind = "reverse", pc[v] \in Past, EntryReversed(p.of)'
        PROVE  FALSE
    <3>1. ~EntryReversed(p.of) /\ coll[p.of].type = "collection" /\ p.of \in Keys
      BY <1>2, <2>1 DEF WorkerOf, OriginalOf, ReqOf
    <3>2. PICK j \in Keys : coll'[j].of = p.of
      BY <2>1 DEF EntryReversed
    <3>3. ForEntry(q) /\ NewEntry(q).of = p.of
      BY <1>1, <3>1, <3>2 DEF EntryReversed
    <3>4. q.kind = "reverse" /\ q.of = p.of
      BY <1>1, <3>1, <3>3 DEF NewEntry, ForEntry, ReqOf
    <3>5. RecOf(q) = RecOf(p)
      BY <2>1, <3>4 DEF RecOf
    <3> QED
      BY <1>3, <2>1, <3>3, <3>5 DEF ForEntry
  <2> QED
    BY <1>2, <1>4, <2>1 DEF WorkerOf, OriginalOf, EntryReversed
<1>8. FitsOf(v)'
  <2> SUFFICES ASSUME p.kind = "collect", pc[v] \in Past
               PROVE  Balance(p.rec)' = Balance(p.rec)
                      /\ (coll[p.key].rec # p.rec => coll'[p.key].rec # p.rec)
    BY <1>2 DEF WorkerOf, FitsOf, Fits
  <2>1. p.rec \in Recs /\ p.key \in Keys /\ RecOf(p) = p.rec
    BY <1>2 DEF ReqOf, RecOf
  <2>2. \A k \in Keys : coll[k].rec = p.rec \/ coll'[k].rec = p.rec => coll'[k] = coll[k]
    BY <1>1, <1>3, <2>1 DEF ForEntry, Exists, NoEntry
  <2>3. Balance(p.rec)' = Balance(p.rec)
    BY <2>1, <2>2, BalanceKept DEF BInv, Books
  <2> QED
    BY <2>1, <2>2, <2>3
<1>9. PaybackOf(v)'
  <2> SUFFICES ASSUME p.kind = "payback", pc[v] \in Steps
               PROVE  Moved(p.of)' /\ (~coll[p.of].moved => ~coll'[p.of].moved)
    BY <1>2 DEF WorkerOf, PaybackOf, Moved
  <2>1. Moved(p.of) /\ p.of \in Keys
    BY <1>2 DEF WorkerOf, PaybackOf, ReqOf
  <2>2. Moved(p.of)'
    BY <1>1, <2>1 DEF RowsKept, Moved
  <2>3. ASSUME ~coll[p.of].moved
        PROVE  ~coll'[p.of].moved
    <3>1. CASE ForEntry(q) /\ q.key = p.of
      <4>1. adds[w].move = NoMove
        BY <1>1, <2>1, <3>1
      <4>2. q.kind = "reverse" /\ ~coll[q.of].moved
        BY <1>1, <3>1, <4>1 DEF WorkerOf, EntryPending, ForEntry
      <4>3. coll'[p.of] = NewEntry(q)
        BY <1>1, <2>1, <3>1
      <4> QED
        BY <4>2, <4>3 DEF NewEntry
    <3>2. CASE ~(ForEntry(q) /\ q.key = p.of)
      BY <1>1, <2>1, <2>3, <3>2
    <3> QED
      BY <3>1, <3>2
  <2> QED
    BY <2>2, <2>3
<1>10. EntryPending(v)'
  <2>1. adds[v].coll # NoEntry => pc[v] = "commit"
    BY DEF IInv, PendingAlone, PendingOf
  <2>2. adds[v].coll # NoEntry => NewEntry(p)' = NewEntry(p)
    BY <1>2, <1>4, <2>1 DEF NewEntry, WorkerOf, EntryPending, ForEntry
  <2>3. pc[v] \in {"insert", "commit"} => pc[v] \in Past
    BY DEF Past
  <2>4. /\ adds[v].coll # NoEntry => ForEntry(p) /\ adds[v].coll = NewEntry(p)'
        /\ adds[v].move # NoMove => adds[v].move.of = p.of
        /\ pc[v] \in {"insert", "commit"} =>
             /\ p.kind = "collect" => adds[v].move # NoMove
             /\ p.kind = "reverse" => (adds[v].move # NoMove <=> coll'[p.of].moved)
        /\ pc[v] = "commit" /\ ForEntry(p) => adds[v].coll # NoEntry
    BY <1>2, <1>4, <2>2, <2>3 DEF WorkerOf, EntryPending
  <2> QED
    BY <1>2, <2>4 DEF EntryPending, ForEntry, NewEntry
<1> QED
  BY <1>6, <1>7, <1>8, <1>9, <1>10 DEF WorkerOf

\* Which entries and movements are taken back after a commit.
LEMMA CommitReverses ==
  ASSUME IInv, BInv, NEW w \in Workers, Commit(w), NEW j \in Keys
  PROVE  /\ EntryReversed(j)' <=> EntryReversed(j) \/ (req[w].kind = "reverse" /\ j = req[w].of)
         /\ MoveReversed(j)' <=> MoveReversed(j) \/ (adds[w].move # NoMove /\ j = req[w].of)
<1> PICK q : q = req[w]
  OBVIOUS
<1>1. /\ ReqOf(q) /\ WorkerOf(w)
      /\ ~ForEntry(q) => coll' = coll
      /\ ForEntry(q) =>
           /\ ~Exists(q.key)
           /\ \A k \in Keys : coll'[k] = IF k = q.key THEN NewEntry(q) ELSE coll[k]
      /\ adds[w].move = NoMove => move' = move
      /\ adds[w].move # NoMove =>
           /\ ~Moved(q.key)
           /\ \A k \in Keys : move'[k] = IF k = q.key THEN adds[w].move ELSE move[k]
  BY CommitFacts
<1>2. q.key \in Keys /\ j # None
  BY <1>1 DEF ReqOf
<1>3. EntryReversed(j)' <=> EntryReversed(j) \/ (q.kind = "reverse" /\ j = q.of)
  <2>1. CASE ForEntry(q)
    <3>1. coll[q.key].of = None
      BY <1>1, <2>1 DEF Exists, NoEntry
    <3>2. NewEntry(q).of = IF q.kind = "collect" THEN None ELSE q.of
      BY DEF NewEntry
    <3> QED
      BY <1>1, <1>2, <2>1, <3>1, <3>2 DEF EntryReversed, ForEntry
  <2>2. CASE ~ForEntry(q)
    BY <1>1, <2>2 DEF EntryReversed, ForEntry
  <2> QED
    BY <2>1, <2>2
<1>4. MoveReversed(j)' <=> MoveReversed(j) \/ (adds[w].move # NoMove /\ j = q.of)
  <2>1. CASE adds[w].move # NoMove
    <3>1. move[q.key].of = None /\ adds[w].move.of = q.of
      BY <1>1, <2>1 DEF Moved, NoMove, WorkerOf, EntryPending
    <3> QED
      BY <1>1, <1>2, <2>1, <3>1 DEF MoveReversed
  <2>2. CASE adds[w].move = NoMove
    BY <1>1, <2>2 DEF MoveReversed
  <2> QED
    BY <2>1, <2>2
<1> QED
  BY <1>3, <1>4

\* What does not exist is not taken back.
LEMMA NotReversed ==
  ASSUME IInv, BInv, NEW k \in Keys
  PROVE  /\ ~Exists(k) => ~EntryReversed(k)
         /\ ~Moved(k) => ~MoveReversed(k)
<1>1. ASSUME NEW j \in Keys, coll[j].of = k
      PROVE  Exists(k)
  <2>1. coll[j].of # None /\ Exists(j)
    BY <1>1 DEF Exists, NoEntry
  <2>2. coll[j].type = "reversal" /\ coll[coll[j].of].type = "collection"
    BY <2>1 DEF BInv, Books, EntriesStored, IInv, Typed, EntryRows
  <2> QED
    BY <1>1, <2>2 DEF Exists, NoEntry
<1>2. ASSUME NEW j \in Keys, move[j].of = k
      PROVE  Moved(k)
  BY <1>2 DEF IInv, MirrorsStored, Mirrors, Moved
<1> QED
  BY <1>1, <1>2 DEF EntryReversed, MoveReversed

LEMMA CommitFinite ==
  ASSUME IInv, BInv, NEW w \in Workers, Commit(w)
  PROVE  FiniteEntries'
<1> PICK q : q = req[w]
  OBVIOUS
<1>1. ASSUME ForEntry(q)
      PROVE  {k \in Keys : Exists(k)}' \subseteq {k \in Keys : Exists(k)} \cup {q.key}
  BY <1>1, CommitFacts DEF Exists
<1>2. ASSUME ~ForEntry(q)
      PROVE  {k \in Keys : Exists(k)}' \subseteq {k \in Keys : Exists(k)} \cup {q.key}
  BY <1>2, CommitFacts DEF Exists
<1>3. IsFiniteSet({k \in Keys : Exists(k)} \cup {q.key})
  BY FS_AddElement DEF BInv, Books, FiniteEntries
<1> QED
  BY <1>1, <1>2, <1>3, FS_Subset DEF FiniteEntries

LEMMA CommitStores ==
  ASSUME IInv, BInv, NEW w \in Workers, Commit(w)
  PROVE  EntriesStored'
<1> PICK q : q = req[w]
  OBVIOUS
<1>1. /\ ReqOf(q) /\ WorkerOf(w) /\ pc[w] = "commit" /\ RowsKept
      /\ ~ForEntry(q) => coll' = coll
      /\ ForEntry(q) =>
           /\ ~Exists(q.key) /\ RecOf(q) \in Recs \ voided
           /\ \A k \in Keys : coll'[k] = IF k = q.key THEN NewEntry(q) ELSE coll[k]
  BY CommitFacts
<1>2. EntriesStored
  BY DEF BInv, Books
<1>3. CASE ~ForEntry(q)
  BY <1>1, <1>2, <1>3 DEF EntriesStored, Exists
<1>4. CASE ForEntry(q)
  <2>1. q.kind = "reverse" => /\ q.of \in Keys /\ coll[q.of].type = "collection"
                              /\ ~EntryReversed(q.of) /\ q.of # q.key
    BY <1>1, <1>4 DEF WorkerOf, OriginalOf, Past, ReqOf, Exists, NoEntry
  <2>2. coll[q.key].of = None /\ ~EntryReversed(q.key) /\ q.key \in Keys
    <3>1. q.key \in Keys /\ ~Exists(q.key) /\ coll[q.key].of = None
      BY <1>1, <1>4 DEF Exists, NoEntry, ReqOf
    <3> QED
      BY <3>1, NotReversed
  <2>3. ASSUME NEW k \in Keys, Exists(k)'
        PROVE  /\ coll'[k].rec \in Recs /\ coll'[k].type # "none"
               /\ coll'[k].type = "collection" => coll'[k].of = None
               /\ coll'[k].type = "reversal" =>
                    LET o == coll'[k].of IN
                    /\ o \in Keys /\ coll'[o].type = "collection"
                    /\ coll'[k].rec = coll'[o].rec /\ coll'[k].amount = coll'[o].amount
                    /\ coll'[k].moved = coll'[o].moved
                    /\ \A j \in Keys : coll'[j].of = o => j = k
    <3>1. CASE k = q.key /\ q.kind = "collect"
      BY <1>1, <1>4, <3>1 DEF NewEntry, RecOf
    <3>2. CASE k = q.key /\ q.kind = "reverse"
      BY <1>1, <1>4, <2>1, <2>2, <3>2 DEF NewEntry, RecOf, EntryReversed
    <3>3. CASE k # q.key
      <4>1. coll'[k] = coll[k] /\ Exists(k)
        BY <1>1, <1>4, <2>3, <3>3 DEF Exists
      <4>2. CASE coll[k].type # "reversal"
        BY <1>2, <4>1, <4>2 DEF EntriesStored
      <4>3. CASE coll[k].type = "reversal"
        <5> PICK o : o = coll[k].of
          OBVIOUS
        <5>1. /\ coll[k].rec \in Recs /\ o \in Keys /\ coll[o].type = "collection"
              /\ coll[k].rec = coll[o].rec /\ coll[k].amount = coll[o].amount
              /\ coll[k].moved = coll[o].moved
              /\ \A j \in Keys : coll[j].of = o => j = k
          BY <1>2, <4>1, <4>3 DEF EntriesStored
        <5>2. coll'[o] = coll[o] /\ EntryReversed(o) /\ o # None
          BY <1>1, <5>1 DEF RowsKept, Exists, NoEntry, EntryReversed
        <5>3. NewEntry(q).of # o
          BY <1>4, <2>1, <5>2 DEF NewEntry, ForEntry
        <5> QED
          BY <1>1, <1>4, <4>1, <4>3, <5>1, <5>2, <5>3
      <4> QED
        BY <4>2, <4>3
    <3> QED
      BY <1>4, <3>1, <3>2, <3>3 DEF ForEntry
  <2> QED
    BY <2>3 DEF EntriesStored
<1> QED
  BY <1>3, <1>4

LEMMA CommitBacks ==
  ASSUME IInv, BInv, NEW w \in Workers, Commit(w)
  PROVE  TextBacked' /\ Backed'
<1> PICK q : q = req[w]
  OBVIOUS
<1>1. /\ ReqOf(q) /\ WorkerOf(w) /\ pc[w] = "commit" /\ RowsKept
      /\ ~ForEntry(q) => coll' = coll
      /\ ForEntry(q) =>
           /\ ~Exists(q.key)
           /\ \A k \in Keys : coll'[k] = IF k = q.key THEN NewEntry(q) ELSE coll[k]
      /\ adds[w].move = NoMove => move' = move
      /\ adds[w].move # NoMove =>
           /\ ~Moved(q.key)
           /\ \A k \in Keys : move'[k] = IF k = q.key THEN adds[w].move ELSE move[k]
  BY CommitFacts
<1>2. /\ adds[w].move # NoMove => adds[w].move.of = q.of
      /\ q.kind = "collect" => adds[w].move # NoMove
      /\ q.kind = "reverse" => (adds[w].move # NoMove <=> coll[q.of].moved)
      /\ q.kind = "payback" => ~coll[q.of].moved
  BY <1>1 DEF WorkerOf, EntryPending, PaybackOf, Steps
<1>3. adds[w].move # NoMove /\ q.kind \in {"collect", "pay"} => adds[w].move = Asked(q)
  BY <1>1 DEF IInv, AnswersReady, ReadyOf, MoveReady
<1>4. q.kind = "collect" => /\ coll'[q.key] = NewEntry(q) /\ move'[q.key] = Asked(q)
                            /\ ~EntryReversed(q.key)' /\ ~MoveReversed(q.key)'
  <2> SUFFICES ASSUME q.kind = "collect"
               PROVE  /\ coll'[q.key] = NewEntry(q) /\ move'[q.key] = Asked(q)
                      /\ ~EntryReversed(q.key)' /\ ~MoveReversed(q.key)'
    OBVIOUS
  <2>1. q.key \in Keys /\ q.of = None /\ ~Exists(q.key) /\ ~Moved(q.key)
    BY <1>1, <1>2 DEF ReqOf, ForEntry
  <2>2. ~EntryReversed(q.key) /\ ~MoveReversed(q.key)
    BY <2>1, NotReversed
  <2>3. coll'[q.key] = NewEntry(q) /\ move'[q.key] = Asked(q)
    BY <1>1, <1>2, <1>3, <2>1 DEF ForEntry
  <2> QED
    BY <2>1, <2>2, <2>3, CommitReverses
<1>5. ASSUME NEW k \in Keys, Moved(k)', move'[k].of = None, move'[k].text # None
      PROVE  coll'[k].type = "collection" /\ coll'[k].moved /\ coll'[k].rec = move'[k].text
  <2>1. CASE move'[k] = move[k]
    <3>1. coll[k].type = "collection" /\ coll[k].moved /\ coll[k].rec = move[k].text
      BY <1>5, <2>1 DEF BInv, Books, TextBacked, Moved
    <3> QED
      BY <1>1, <2>1, <3>1 DEF RowsKept, Exists, NoEntry
  <2>2. CASE move'[k] # move[k]
    <3>1. k = q.key /\ adds[w].move # NoMove /\ move'[k] = adds[w].move
      BY <1>1, <2>2
    <3>2. q.of = None /\ q.kind \in {"collect", "pay"} /\ move'[k] = Asked(q)
      BY <1>1, <1>2, <1>3, <1>5, <3>1 DEF ReqOf
    <3>3. q.kind = "collect"
      BY <1>1, <1>5, <3>2 DEF Asked, ReqOf
    <3> QED
      BY <1>4, <3>1, <3>3 DEF NewEntry, Asked
  <2> QED
    BY <2>1, <2>2
<1>6. ASSUME NEW k \in Keys, coll'[k].type = "collection", coll'[k].moved
      PROVE  /\ move'[k].amount = coll'[k].amount /\ move'[k].target # None
             /\ EntryReversed(k)' <=> MoveReversed(k)'
  <2>1. CASE coll'[k] = coll[k]
    <3>1. /\ move[k].amount = coll[k].amount /\ move[k].target # None
          /\ EntryReversed(k) <=> MoveReversed(k)
      BY <1>6, <2>1 DEF BInv, Books, Backed
    <3>2. move'[k] = move[k]
      BY <1>1, <3>1 DEF RowsKept, Moved, NoMove
    <3>3. (q.kind = "reverse" /\ k = q.of) <=> (adds[w].move # NoMove /\ k = q.of)
      BY <1>1, <1>2, <1>6, <2>1 DEF ReqOf
    <3> QED
      BY <2>1, <3>1, <3>2, <3>3, CommitReverses
  <2>2. CASE coll'[k] # coll[k]
    <3>1. k = q.key /\ ForEntry(q) /\ coll'[k] = NewEntry(q)
      BY <1>1, <2>2
    <3>2. q.kind = "collect"
      BY <1>6, <3>1 DEF NewEntry, ForEntry
    <3> QED
      BY <1>1, <1>4, <3>1, <3>2 DEF NewEntry, Asked, ReqOf
  <2> QED
    BY <2>1, <2>2
<1>7. TextBacked'
  BY <1>5 DEF TextBacked
<1> QED
  BY <1>6, <1>7 DEF Backed

\* The receivable of a new entry changes by its amount, the others do not.
LEMMA CommitBalance ==
  ASSUME IInv, BInv, NEW w \in Workers, Commit(w), NEW r \in Recs
  PROVE  LET q == req[w] IN
         Balance(r)' = IF ForEntry(q) /\ r = RecOf(q)
                       THEN Balance(r) + (IF q.kind = "collect" THEN q.amount
                                          ELSE 0 - coll[q.of].amount)
                       ELSE Balance(r)
<1> PICK q : q = req[w]
  OBVIOUS
<1>1. /\ ReqOf(q)
      /\ ~ForEntry(q) => coll' = coll
      /\ ForEntry(q) =>
           /\ ~Exists(q.key) /\ NewEntry(q).rec = RecOf(q)
           /\ \A k \in Keys : coll'[k] = IF k = q.key THEN NewEntry(q) ELSE coll[k]
  BY CommitFacts
<1>2. Typed'
  BY NextTyped DEF IInv, Next, Step
<1>3. FiniteEntries /\ Typed
  BY DEF BInv, Books, IInv
<1>4. CASE ~ForEntry(q)
  BY <1>1, <1>4, CollSame
<1>5. CASE ForEntry(q) /\ r # RecOf(q)
  <2>1. \A k \in Keys : coll[k].rec = r \/ coll'[k].rec = r => coll'[k] = coll[k]
    BY <1>1, <1>5 DEF Exists, NoEntry
  <2> QED
    BY <1>3, <1>5, <2>1, BalanceKept
<1>6. CASE ForEntry(q) /\ r = RecOf(q)
  <2> DEFINE S == EntriesOf(r)
             f == SignedOf'
             k == q.key
  <2>1. k \in Keys /\ k \notin S /\ EntriesOf(r)' = S \cup {k}
    BY <1>1, <1>6 DEF EntriesOf, Exists, NoEntry, ReqOf
  <2>2. IsFiniteSet(S)
    BY <1>3, EntriesFinite
  <2>3. \A x \in Keys : f[x] \in Int
    BY <1>2 DEF Typed, EntryRows, SignedOf, Signed
  <2>4. \A x \in S \cup {k} : f[x] \in Int
    BY <2>1, <2>3 DEF EntriesOf
  <2>5. \A x \in S : f[x] = SignedOf[x]
    BY <1>1, <1>6, <2>1 DEF SignedOf, Signed, EntriesOf
  <2>6. f[k] = IF q.kind = "collect" THEN q.amount ELSE 0 - coll[q.of].amount
    BY <1>1, <1>6, <2>1 DEF SignedOf, Signed, NewEntry, ForEntry
  <2>7. Balance(r)' = SumOver(f, S \cup {k})
    BY <2>1 DEF Balance
  <2>8. SumOver(SignedOf, S) = Balance(r)
    BY DEF Balance
  <2> HIDE DEF S, f
  <2>9. SumOver(f, S \cup {k}) = f[k] + SumOver(f, S)
    BY <2>1, <2>2, <2>4, SumAdd
  <2>10. SumOver(f, S) = SumOver(SignedOf, S)
    BY <2>2, <2>5, SumSame
  <2>11. SumOver(f, S) \in Int /\ f[k] \in Int
    BY <2>2, <2>4, SumType
  <2>12. Balance(r)' = f[k] + Balance(r) /\ Balance(r) \in Int
    BY <2>7, <2>8, <2>9, <2>10, <2>11
  <2> QED
    BY <1>6, <2>6, <2>11, <2>12
<1> QED
  BY <1>4, <1>5, <1>6

\* A new collection stands, one that is taken back does not stand any more.
LEMMA CommitStanding ==
  ASSUME IInv, BInv, NEW w \in Workers, Commit(w), NEW r \in Recs
  PROVE  LET q == req[w] IN
         /\ \A k \in Standing(r) : k \in Keys /\ AmountOf'[k] = AmountOf[k]
         /\ Standing(r)' = IF q.kind = "collect" /\ r = q.rec THEN Standing(r) \cup {q.key}
                           ELSE IF q.kind = "reverse" THEN Standing(r) \ {q.of} ELSE Standing(r)
         /\ q.kind = "collect" => q.key \notin Standing(r) /\ AmountOf'[q.key] = q.amount
<1> PICK q : q = req[w]
  OBVIOUS
<1>1. /\ ReqOf(q) /\ RowsKept
      /\ ~ForEntry(q) => coll' = coll
      /\ ForEntry(q) =>
           /\ ~Exists(q.key) /\ NewEntry(q).rec = RecOf(q)
           /\ \A k \in Keys : coll'[k] = IF k = q.key THEN NewEntry(q) ELSE coll[k]
  BY CommitFacts
<1>2. \A k \in Keys : EntryReversed(k)' <=> EntryReversed(k) \/ (q.kind = "reverse" /\ k = q.of)
  BY CommitReverses
<1>3. q.key \in Keys /\ (q.kind = "collect" => q.of = None)
  BY <1>1 DEF ReqOf
<1>4. \A k \in Standing(r) : k \in Keys /\ AmountOf'[k] = AmountOf[k]
  BY <1>1 DEF Standing, AmountOf, RowsKept, Exists, NoEntry
<1>5. q.kind = "collect" => q.key \notin Standing(r) /\ AmountOf'[q.key] = q.amount
  BY <1>1, <1>3 DEF Standing, AmountOf, ForEntry, NewEntry, Exists, NoEntry
<1>6. Standing(r)' = {k \in Keys : coll'[k].rec = r /\ coll'[k].type = "collection"
                                   /\ ~EntryReversed(k)'}
  BY DEF Standing, EntryReversed
<1>7. CASE ~ForEntry(q)
  BY <1>1, <1>2, <1>4, <1>5, <1>6, <1>7 DEF Standing, ForEntry
<1>8. CASE q.kind = "collect"
  <2>1. ~Exists(q.key) /\ ~EntryReversed(q.key)
    BY <1>1, <1>3, <1>8, NotReversed DEF ForEntry
  <2>2. \A k \in Keys : coll'[k] = IF k = q.key THEN NewEntry(q) ELSE coll[k]
    BY <1>1, <1>8 DEF ForEntry
  <2>3. NewEntry(q).type = "collection" /\ NewEntry(q).rec = q.rec
    BY <1>8 DEF NewEntry
  <2>4. coll[q.key].type # "collection"
    BY <2>1 DEF Exists, NoEntry
  <2> QED
    BY <1>2, <1>3, <1>4, <1>5, <1>6, <1>8, <2>1, <2>2, <2>3, <2>4 DEF Standing
<1>9. CASE q.kind = "reverse"
  <2>1. ~Exists(q.key)
    BY <1>1, <1>9 DEF ForEntry
  <2>2. \A k \in Keys : coll'[k] = IF k = q.key THEN NewEntry(q) ELSE coll[k]
    BY <1>1, <1>9 DEF ForEntry
  <2>3. NewEntry(q).type # "collection" /\ coll[q.key].type # "collection"
    BY <1>9, <2>1 DEF NewEntry, Exists, NoEntry
  <2> QED
    BY <1>2, <1>3, <1>4, <1>5, <1>6, <1>9, <2>2, <2>3 DEF Standing
<1> QED
  BY <1>7, <1>8, <1>9 DEF ForEntry

LEMMA CommitNets ==
  ASSUME IInv, BInv, NEW w \in Workers, Commit(w)
  PROVE  NetSums' /\ Capped' /\ VoidedNet'
<1> PICK q : q = req[w]
  OBVIOUS
<1>1. /\ ReqOf(q) /\ WorkerOf(w) /\ pc[w] = "commit" /\ pc[w] \in Past /\ voided' = voided
      /\ ForEntry(q) => RecOf(q) \in Recs \ voided
  BY CommitFacts DEF Past
<1>2. Typed /\ FiniteEntries /\ NetSums /\ Capped /\ VoidedNet /\ voided \in SUBSET Recs
  BY DEF BInv, Books, IInv, Sized
<1>3. ASSUME NEW r \in Recs
      PROVE  Balance(r)' = SumOver(AmountOf, Standing(r))' /\ Balance(r)' <= Total
  <2> DEFINE S == Standing(r)
             g == AmountOf'
  <2>1. IsFiniteSet(S) /\ \A k \in S : k \in Keys /\ AmountOf[k] \in Nat
    BY <1>2, EntriesFinite, SumTypes DEF Standing, EntriesOf
  <2>2. /\ \A k \in S : g[k] = AmountOf[k]
        /\ Standing(r)' = IF q.kind = "collect" /\ r = q.rec THEN S \cup {q.key}
                          ELSE IF q.kind = "reverse" THEN S \ {q.of} ELSE S
        /\ q.kind = "collect" => q.key \notin S /\ g[q.key] = q.amount
    BY CommitStanding
  <2>3. Balance(r)' = IF ForEntry(q) /\ r = RecOf(q)
                      THEN Balance(r) + (IF q.kind = "collect" THEN q.amount
                                         ELSE 0 - coll[q.of].amount)
                      ELSE Balance(r)
    BY CommitBalance
  <2>4. Balance(r) = SumOver(AmountOf, S) /\ Balance(r) <= Total /\ Balance(r) \in Nat
    BY <1>2, <2>1, SumNat DEF NetSums, Capped
  <2>5. SumOver(AmountOf, Standing(r))' = SumOver(g, Standing(r)')
    OBVIOUS
  <2>6. q.amount \in Nat
    BY <1>1 DEF ReqOf
  <2> HIDE DEF S, g
  <2>7. SumOver(g, S) = SumOver(AmountOf, S)
    BY <2>1, <2>2, SumSame
  <2>8. CASE q.kind = "collect" /\ r = q.rec
    <3>1. ForEntry(q) /\ RecOf(q) = r
      BY <2>8 DEF ForEntry, RecOf
    <3>2. \A k \in S \cup {q.key} : g[k] \in Int
      BY <2>1, <2>2, <2>6, <2>8
    <3>3. SumOver(g, S \cup {q.key}) = g[q.key] + SumOver(g, S)
      BY <2>1, <2>2, <2>8, <3>2, SumAdd
    <3>4. Balance(r) + q.amount <= Total
      BY <1>1, <2>8 DEF WorkerOf, FitsOf, Fits
    <3> QED
      BY <2>2, <2>3, <2>4, <2>5, <2>6, <2>7, <2>8, <3>1, <3>3, <3>4
  <2>9. CASE q.kind = "reverse"
    <3> PICK o : o = q.of
      OBVIOUS
    <3>1. o \in Keys /\ coll[o].type = "collection" /\ ~EntryReversed(o)
          /\ RecOf(q) = coll[o].rec /\ ForEntry(q)
      BY <1>1, <2>9 DEF WorkerOf, OriginalOf, ReqOf, RecOf, ForEntry
    <3>2. o \in S <=> r = RecOf(q)
      BY <3>1 DEF S, Standing
    <3>3. AmountOf[o] = coll[o].amount
      BY <3>1 DEF AmountOf
    <3>4. CASE o \in S
      <4>1. SumOver(AmountOf, S) = AmountOf[o] + SumOver(AmountOf, S \ {o})
        BY <2>1, <3>4, SumRemove
      <4>2. IsFiniteSet(S \ {o}) /\ \A k \in S \ {o} : AmountOf[k] \in Nat /\ g[k] = AmountOf[k]
        BY <2>1, <2>2, FS_Subset
      <4>3. SumOver(AmountOf, S \ {o}) \in Nat /\ SumOver(g, S \ {o}) = SumOver(AmountOf, S \ {o})
        BY <4>2, SumNat, SumSame
      <4>4. AmountOf[o] \in Nat
        BY <2>1, <3>4
      <4> QED
        BY <2>2, <2>3, <2>4, <2>5, <2>9, <3>1, <3>2, <3>3, <3>4, <4>1, <4>3, <4>4
    <3>5. CASE o \notin S
      <4>1. S \ {o} = S
        BY <3>5
      <4> QED
        BY <2>2, <2>3, <2>4, <2>5, <2>7, <2>9, <3>2, <3>5, <4>1
    <3> QED
      BY <3>4, <3>5
  <2>10. CASE ~(q.kind = "collect" /\ r = q.rec) /\ q.kind # "reverse"
    <3>1. ~(ForEntry(q) /\ r = RecOf(q))
      BY <2>10 DEF ForEntry, RecOf
    <3> QED
      BY <2>2, <2>3, <2>4, <2>5, <2>7, <2>10, <3>1
  <2> QED
    BY <2>8, <2>9, <2>10
<1>4. NetSums' /\ Capped'
  BY <1>3 DEF NetSums, Capped
<1>5. ASSUME NEW r \in voided
      PROVE  Balance(r)' = 0
  BY <1>1, <1>2, CommitBalance DEF VoidedNet
<1>6. VoidedNet'
  BY <1>1, <1>5 DEF VoidedNet
<1> QED
  BY <1>4, <1>6

-----------------------------------------------------------------------------
(* The types that requests, amounts and balances keep.                     *)

LEMMA RequestSizes ==
  /\ \A q \in Requests : q.kind \in {"collect", "pay"} => q.amount \in Amounts
  /\ ~ReqOf(NoRequest)
  BY DEF Requests, Collect, Reverse, Pay, PayBack, NoRequest, ReqOf

LEMMA WantedSizes ==
  ASSUME Typed, Sized, NEW w \in Workers, pc[w] \in {"post", "insert"}
  PROVE  /\ Wanted(req[w]).amount \in Amounts \cup {0}
         /\ req[w].kind \in {"collect", "reverse"} =>
              NewEntry(req[w]).amount \in Amounts \cup Legacy \cup {0}
<1> PICK q : q = req[w]
  OBVIOUS
<1>1. ReqOf(q) /\ q \in Requests
  BY RequestSizes DEF Typed, Sized
<1>2. CASE q.kind \in {"collect", "pay"}
  BY <1>1, <1>2, RequestSizes DEF Wanted, NewEntry
<1>3. CASE q.kind \in {"reverse", "payback"}
  BY <1>1, <1>3 DEF Wanted, NewEntry, ReqOf, Sized
<1> QED
  BY <1>1, <1>2, <1>3 DEF ReqOf

LEMMA EndSized ==
  ASSUME Typed, Sized, NEW w \in Workers, NEW result \in Ended, End(w, result),
         voided' = voided,
         \A k \in Keys : /\ coll'[k].amount \in Amounts \cup Legacy \cup {0}
                         /\ move'[k].amount \in Amounts \cup {0}
  PROVE  Sized'
<1>1. req' \in [Workers -> Requests \cup {NoRequest}] /\ seen' \in [Workers -> 0..Total]
  BY DEF End, Sized
<1>2. \A v \in Workers : /\ adds'[v].coll.amount \in Amounts \cup Legacy \cup {0}
                         /\ adds'[v].move.amount \in Amounts \cup {0}
  BY DEF End, Sized, Typed, Nothing, NoEntry, NoMove
<1>3. \A v \in Workers : pc'[v] \in Ended => held'[v] = {} /\ adds'[v] = Nothing
  BY DEF End, Goto, Sized, Typed
<1> QED
  BY <1>1, <1>2, <1>3 DEF Sized

LEMMA RefuseSized ==
  ASSUME Typed, Sized, NEW w \in Workers, Refuse(w)
  PROVE  Sized'
  BY EndSized DEF Refuse, Sized, tables, Ended

LEMMA ProceedSized ==
  ASSUME Typed, Sized, NEW w \in Workers, NEW step \in Steps, NEW ls, Proceed(w, step, ls)
  PROVE  Sized'
<1>1. \A v \in Workers : pc'[v] \in Ended => v # w /\ pc'[v] = pc[v] /\ held'[v] = held[v]
  BY DEF Proceed, Goto, Take, Typed, Steps, Ended
<1> QED
  BY <1>1 DEF Proceed, Sized, tables

LEMMA StepSized ==
  ASSUME IInv, BInv, NEW w \in Workers, Step(w)
  PROVE  Sized'
<1>1. Typed /\ Sized /\ FiniteEntries /\ NetSums /\ Capped
  BY DEF IInv, BInv, Books
<1>2. CASE Refuse(w)
  BY <1>1, <1>2, RefuseSized
<1>3. ASSUME NEW result \in Ended, End(w, result), UNCHANGED tables
      PROVE  Sized'
  BY <1>1, <1>3, EndSized DEF Sized, tables
<1>4. ASSUME NEW step \in Steps, NEW ls, Proceed(w, step, ls)
      PROVE  Sized'
  BY <1>1, <1>4, ProceedSized
<1>5. CASE Replay(w)
  BY <1>3, <1>5 DEF Replay, Answer, Ended
<1>6. CASE Look(w) \/ LockOriginal(w) \/ Recheck(w) \/ CheckManaged(w)
           \/ LockMovement(w) \/ LockAccounts(w) \/ Fail(w)
  BY <1>2, <1>4, <1>6 DEF Look, LockOriginal, Recheck, CheckManaged, LockMovement, LockAccounts,
                          Fail, Steps
<1>7. CASE FindMove(w)
  BY <1>2, <1>3, <1>4, <1>7 DEF FindMove, AfterReplayedMove, Steps, Ended
<1>8. CASE LockReceivable(w)
  <2> PICK r : r = RecOf(req[w])
    OBVIOUS
  <2>1. CASE r \in voided \/ (req[w].kind = "reverse" /\ EntryReversed(req[w].of))
    BY <1>2, <1>8, <2>1 DEF LockReceivable, RecOf
  <2>2. CASE ~(r \in voided \/ (req[w].kind = "reverse" /\ EntryReversed(req[w].of)))
    <3>1. /\ Take(w, ReceivableLock(r)) /\ seen' = [seen EXCEPT ![w] = Collected(r)]
          /\ Goto(w, IF req[w].kind = "collect" THEN "recheck"
                     ELSE IF coll[req[w].of].moved THEN "find" ELSE "insert")
          /\ UNCHANGED <<tables, req, adds>>
      BY <1>8, <2>2 DEF LockReceivable, RecOf
    <3>2. pc'[w] \in Past /\ ForEntry(req[w]) /\ req'[w] = req[w] /\ voided' = voided /\ coll' = coll
      BY <1>1, <1>8, <3>1 DEF Goto, Past, Typed, LockReceivable, Looking, ForEntry, tables
    <3>3. WorkerOf(w)'
      BY <1>1, <1>8, LockReceivableSound DEF IInv
    <3>4. r \in Recs
      BY <3>2, <3>3 DEF WorkerOf, HoldsOf, ForEntry, RecOf
    <3>5. Collected(r) = Balance(r)
      BY <1>1, <3>4, EntriesFinite, CollectedSum
    <3>6. IsFiniteSet(Standing(r)) /\ \A k \in Standing(r) : AmountOf[k] \in Nat
      BY <1>1, <3>4, EntriesFinite, SumTypes DEF Standing, EntriesOf
    <3>7. Balance(r) \in 0..Total
      BY <1>1, <3>4, <3>6, SumNat DEF NetSums, Capped
    <3>8. \A v \in Workers : pc'[v] \in Ended => v # w /\ pc'[v] = pc[v] /\ held'[v] = held[v]
      BY <1>1, <3>1 DEF Goto, Take, Typed, Ended
    <3> QED
      BY <1>1, <3>1, <3>5, <3>7, <3>8 DEF Sized, tables
  <2> QED
    BY <2>1, <2>2
<1>9. CASE InsertMove(w)
  <2>1. CASE ~Refuse(w)
    <3>1. /\ adds' = [adds EXCEPT ![w] = [coll |-> NoEntry, posts |-> Posts(w),
                                          move |-> IF Moved(req[w].key) THEN NoMove
                                                   ELSE Wanted(req[w])]]
          /\ UNCHANGED <<tables, req, seen>>
      BY <1>9, <2>1 DEF InsertMove
    <3>2. \A v \in Workers : pc'[v] \in Ended => v # w /\ pc'[v] = pc[v] /\ held'[v] = held[v]
      BY <1>1, <1>9, <2>1 DEF InsertMove, Goto, Take, Typed, Ended
    <3>3. Wanted(req[w]).amount \in Amounts \cup {0}
      BY <1>1, <1>9, WantedSizes DEF InsertMove
    <3> QED
      BY <1>1, <3>1, <3>2, <3>3 DEF Sized, tables, Typed, NoEntry, NoMove
  <2> QED
    BY <1>2, <2>1
<1>10. CASE InsertEntry(w)
  <2>1. CASE ~Refuse(w)
    <3>1. /\ adds' = [adds EXCEPT ![w] = [coll |-> IF Exists(req[w].key) THEN NoEntry
                                                   ELSE NewEntry(req[w]),
                                          move |-> adds[w].move, posts |-> adds[w].posts]]
          /\ UNCHANGED <<tables, req, seen>>
      BY <1>10, <2>1 DEF InsertEntry
    <3>2. \A v \in Workers : pc'[v] \in Ended => v # w /\ pc'[v] = pc[v] /\ held'[v] = held[v]
      BY <1>1, <1>10, <2>1 DEF InsertEntry, Goto, Take, Typed, Ended
    <3>3. NewEntry(req[w]).amount \in Amounts \cup Legacy \cup {0}
      BY <1>1, <1>10, WantedSizes DEF InsertEntry, Typed
    <3> QED
      BY <1>1, <3>1, <3>2, <3>3 DEF Sized, tables, Typed, NoEntry
  <2> QED
    BY <1>2, <2>1
<1>11. CASE Commit(w)
  <2>1. \A k \in Keys : /\ coll'[k].amount \in Amounts \cup Legacy \cup {0}
                        /\ move'[k].amount \in Amounts \cup {0}
    BY <1>1, <1>11 DEF Commit, Sized, Typed
  <2> QED
    BY <1>1, <1>11, <2>1, EndSized DEF Commit, Ended
<1> QED
  BY <1>5, <1>6, <1>7, <1>8, <1>9, <1>10, <1>11 DEF Step

LEMMA StartSized ==
  ASSUME Typed, Sized, NEW w \in Workers, NEW q \in Requests, Start(w, q)
  PROVE  Sized'
<1>1. \A v \in Workers : pc'[v] \in Ended => v # w /\ pc'[v] = pc[v]
  BY DEF Start, Goto, Typed, Ended
<1> QED
  BY <1>1 DEF Start, Sized, tables

-----------------------------------------------------------------------------
(* The books are sound.                                                    *)

LEMMA WorkersKept ==
  ASSUME WorkersSound, UNCHANGED <<coll, move, pc, req, seen, held, adds>>,
         NEW v \in Workers, pc[v] \in Past /\ ForEntry(req[v]) => RecOf(req[v]) \notin voided'
  PROVE  WorkerOf(v)'
<1>1. WorkerOf(v)
  BY DEF WorkersSound
<1>2. KindOf(v)' /\ HoldsOf(v)' /\ FitsOf(v)'
  BY <1>1, TablesSame DEF WorkerOf, KindOf, HoldsOf, FitsOf, RecOf, ForEntry, Fits
<1>3. OriginalOf(v)' /\ PaybackOf(v)'
  BY <1>1, TablesSame DEF WorkerOf, OriginalOf, PaybackOf
<1>4. EntryPending(v)'
  BY <1>1 DEF WorkerOf, EntryPending, ForEntry, NewEntry
<1> QED
  BY <1>2, <1>3, <1>4 DEF WorkerOf

LEMMA BooksKept ==
  ASSUME Books, UNCHANGED <<coll, move>>, \A r \in voided' : Balance(r) = 0
  PROVE  Books'
<1>1. FiniteEntries' /\ EntriesStored' /\ TextBacked'
  BY DEF Books, FiniteEntries, EntriesStored, TextBacked, Exists, Moved
<1>2. Backed'
  BY TablesSame DEF Books, Backed
<1>3. \A r : SumOver(AmountOf, Standing(r))' = SumOver(AmountOf, Standing(r))
  BY TablesSame
<1>4. NetSums' /\ Capped' /\ VoidedNet'
  BY <1>3, TablesSame DEF Books, NetSums, Capped, VoidedNet
<1> QED
  BY <1>1, <1>2, <1>4 DEF Books

LEMMA StepSound ==
  ASSUME IInv, BInv, NEW w \in Workers, Step(w) \/ \E q \in Requests : Start(w, q)
  PROVE  BInv'
<1>1. Typed /\ PendingAlone /\ Sized /\ WorkersSound /\ Books
  BY DEF IInv, BInv
<1>2. OthersSame(w) /\ (UNCHANGED tables \/ Commit(w))
  BY <1>1, StepOthersSame
<1>3. WorkerOf(w)'
  <2>1. CASE Replay(w)
    BY <1>1, <2>1, EndSound DEF Replay, Answer, Ended
  <2>2. CASE Look(w) \/ LockOriginal(w)
    BY <1>1, <2>2, LookSound, LockOriginalSound
  <2>3. CASE LockReceivable(w) \/ Recheck(w) \/ CheckManaged(w) \/ FindMove(w)
    BY <1>1, <2>3, LockReceivableSound, RecheckSound, CheckManagedSound, FindMoveSound
  <2>4. CASE LockMovement(w) \/ LockAccounts(w)
    BY <1>1, <2>4, LockMovementSound
  <2>5. CASE InsertMove(w) \/ InsertEntry(w)
    BY <1>1, <2>5, InsertMoveSound, InsertEntrySound
  <2>6. CASE Commit(w)
    BY <1>1, <2>6, EndSound DEF Commit, Ended
  <2>7. CASE Fail(w)
    BY <1>1, <2>7, RefuseSound DEF Fail
  <2>8. ASSUME NEW q \in Requests, Start(w, q)
        PROVE  WorkerOf(w)'
    BY <1>1, <2>8, StartSound
  <2> QED
    BY <2>1, <2>2, <2>3, <2>4, <2>5, <2>6, <2>7, <2>8 DEF Step
<1>4. ASSUME NEW v \in Workers \ {w}
      PROVE  WorkerOf(v)'
  BY <1>1, <1>2, QuietOthers, CommitOthers
<1>5. WorkersSound'
  BY <1>3, <1>4 DEF WorkersSound
<1>6. Books'
  <2>1. CASE Commit(w)
    BY <2>1, CommitFinite, CommitStores, CommitBacks, CommitNets DEF Books
  <2>2. CASE UNCHANGED tables
    BY <1>1, <2>2, BooksKept DEF tables, Books, VoidedNet
  <2> QED
    BY <1>2, <2>1, <2>2
<1>7. Sized'
  BY <1>1, StepSized, StartSized
<1> QED
  BY <1>5, <1>6, <1>7 DEF BInv

\* A receivable is voided with nothing collected and no one holding its lock.
LEMMA VoidSound ==
  ASSUME IInv, BInv, NEW r \in Recs, VoidReceivable(r)
  PROVE  BInv'
<1>1. Typed /\ Sized /\ WorkersSound /\ Books
  BY DEF IInv, BInv
<1>2. /\ UNCHANGED <<coll, move, pc, req, seen, held, adds>> /\ voided' = voided \cup {r}
      /\ Collected(r) = 0 /\ \A w \in Workers : <<"receivable", r>> \notin held[w]
  BY DEF VoidReceivable, Voidable, others
<1>3. Balance(r) = 0
  BY <1>1, <1>2, EntriesFinite, CollectedSum DEF Books
<1>4. Books'
  BY <1>1, <1>2, <1>3, BooksKept DEF Books, VoidedNet
<1>5. ASSUME NEW v \in Workers
      PROVE  WorkerOf(v)'
  <2>1. pc[v] \in Past /\ ForEntry(req[v]) => RecOf(req[v]) \notin voided'
    BY <1>1, <1>2 DEF WorkersSound, WorkerOf, HoldsOf
  <2> QED
    BY <1>1, <1>2, <2>1, WorkersKept
<1>6. Sized'
  BY <1>1, <1>2 DEF Sized
<1> QED
  BY <1>4, <1>5, <1>6 DEF BInv, WorkersSound

LEMMA NextBInv == IInv /\ BInv /\ [Next]_vars => BInv'
<1> SUFFICES ASSUME IInv, BInv, [Next]_vars PROVE BInv'
  OBVIOUS
<1>1. ASSUME UNCHANGED <<coll, move, voided, pc, req, seen, held, adds>>
      PROVE  BInv'
  <2>1. Books'
    BY <1>1, BooksKept DEF BInv, Books, VoidedNet
  <2>2. ASSUME NEW v \in Workers
        PROVE  WorkerOf(v)'
    <3>1. pc[v] \in Past /\ ForEntry(req[v]) => RecOf(req[v]) \notin voided'
      BY <1>1 DEF BInv, WorkersSound, WorkerOf, HoldsOf
    <3> QED
      BY <1>1, <3>1, WorkersKept DEF BInv
  <2>3. Sized'
    BY <1>1 DEF BInv, Sized
  <2> QED
    BY <2>1, <2>2, <2>3 DEF BInv, WorkersSound
<1>2. ASSUME NEW a \in Accs, UpdateAccount(a)
      PROVE  BInv'
  BY <1>1, <1>2 DEF UpdateAccount, others
<1>3. CASE UNCHANGED vars
  BY <1>1, <1>3 DEF vars
<1> QED
  BY <1>2, <1>3, StepSound, VoidSound DEF Next

\* At most one entry is there before the first request, a collection.
LEMMA InitBInv == Init => BInv
<1> SUFFICES ASSUME Init PROVE BInv
  OBVIOUS
<1>1. Typed
  BY InitTyped
<1>2. Sized
  BY DEF Init, Sized, Nothing, NoEntry, NoMove, Ended
<1>3. WorkersSound
  BY DEF Init, WorkersSound, WorkerOf, KindOf, HoldsOf, OriginalOf, FitsOf, PaybackOf, EntryPending,
         Past, Steps, Nothing
<1>4. PICK old \in Keys, b \in Recs, n \in Legacy :
        \A k \in Keys : coll[k] = IF k = old /\ n > 0
                                  THEN [type |-> "collection", rec |-> b, amount |-> n,
                                        of |-> None, moved |-> FALSE]
                                  ELSE NoEntry
  BY DEF Init
<1>5. FiniteEntries
  <2>1. {k \in Keys : Exists(k)} \subseteq {old}
    BY <1>4 DEF Exists
  <2> QED
    BY <2>1, FS_Singleton, FS_Subset DEF FiniteEntries
<1>6. EntriesStored /\ TextBacked /\ Backed
  BY <1>4 DEF Init, EntriesStored, TextBacked, Backed, Exists, Moved, NoEntry
<1>7. n \in 0..Total
  OBVIOUS
<1>8. ASSUME NEW r \in Recs
      PROVE  Balance(r) = SumOver(AmountOf, Standing(r)) /\ Balance(r) \in 0..Total
  <2>1. \A k \in EntriesOf(r) : k = old /\ SignedOf[k] = n /\ AmountOf[k] = n /\ n \in Nat
    BY <1>4, <1>7 DEF EntriesOf, SignedOf, AmountOf, Signed, NoEntry
  <2>2. Standing(r) = EntriesOf(r)
    BY <1>4 DEF Standing, EntriesOf, EntryReversed, NoEntry
  <2>3. IsFiniteSet(EntriesOf(r))
    BY <1>5, EntriesFinite
  <2>4. SumOver(SignedOf, EntriesOf(r)) = SumOver(AmountOf, EntriesOf(r))
    BY <2>1, <2>3, SumSame
  <2>5. CASE EntriesOf(r) = {}
    BY <2>2, <2>5, SumEmpty DEF Balance
  <2>6. CASE EntriesOf(r) # {}
    <3>1. EntriesOf(r) = {old} /\ EntriesOf(r) \ {old} = {}
      BY <2>1, <2>6
    <3>2. SumOver(SignedOf, EntriesOf(r)) = SignedOf[old] + SumOver(SignedOf, EntriesOf(r) \ {old})
      BY <2>1, <2>3, <3>1, SumRemove
    <3>3. SumOver(SignedOf, EntriesOf(r)) = n
      BY <2>1, <3>1, <3>2, SumEmpty
    <3> QED
      BY <1>7, <2>2, <2>4, <3>3 DEF Balance
  <2> QED
    BY <2>5, <2>6
<1>9. NetSums /\ Capped /\ VoidedNet
  BY <1>8 DEF NetSums, Capped, VoidedNet, Init
<1> QED
  BY <1>2, <1>3, <1>5, <1>6, <1>9 DEF BInv, Books

LEMMA BInvHolds == Spec => []BInv
  BY IInvHolds, InitBInv, NextBInv, PTL DEF Spec

LEMMA SoundTypes ==
  ASSUME IInv, BInv
  PROVE  TypeOK
<1>1. Typed /\ Sized
  BY DEF IInv, BInv
<1>2. \A k \in Keys : coll[k] \in Entries /\ move[k] \in Moves
  BY <1>1 DEF Typed, Sized, EntryRows, MoveRows, Entries, Moves
<1>3. \A w \in Workers : adds[w] \in [coll : Entries, move : Moves, posts : {0, 1}]
  <2> SUFFICES ASSUME NEW w \in Workers
               PROVE  adds[w] \in [coll : Entries, move : Moves, posts : {0, 1}]
    OBVIOUS
  <2>1. adds[w] \in Changes /\ adds[w].coll \in EntryRows /\ adds[w].move \in MoveRows
    BY <1>1 DEF Typed, Changes
  <2>2. adds[w].coll \in Entries
    BY <1>1, <2>1 DEF Sized, EntryRows, Entries
  <2>3. adds[w].move \in Moves
    BY <1>1, <2>1 DEF Sized, MoveRows, Moves
  <2> QED
    BY <2>1, <2>2, <2>3 DEF Changes
<1>4. coll \in [Keys -> Entries] /\ move \in [Keys -> Moves]
  BY <1>1, <1>2 DEF Typed
<1>5. adds \in [Workers -> [coll : Entries, move : Moves, posts : {0, 1}]]
  BY <1>1, <1>3 DEF Typed
<1> QED
  BY <1>1, <1>4, <1>5 DEF TypeOK, Typed, Sized

\* However many collections and reversals race for one receivable, and whatever of
\* them fails or is sent again: nothing is collected beyond its total, no reversal
\* takes back more than stands, a voided receivable has nothing collected, and each
\* collection is reversed together with the movement that was made for it.
THEOREM BooksSoundHolds == Spec => []BooksSound
<1>1. IInv /\ BInv => BooksSound
  <2> SUFFICES ASSUME IInv, BInv PROVE BooksSound
    OBVIOUS
  <2>1. Typed /\ Sized /\ Books
    BY DEF IInv, BInv
  <2>2. \A r \in Recs : Collected(r) = Balance(r)
    BY <2>1, EntriesFinite, CollectedSum DEF Books
  <2>3. ASSUME NEW r \in Recs
        PROVE  Balance(r) \in 0..Total
    <3>1. IsFiniteSet(Standing(r)) /\ \A k \in Standing(r) : AmountOf[k] \in Nat
      BY <2>1, EntriesFinite, SumTypes DEF Standing, EntriesOf, Books
    <3> QED
      BY <2>1, <3>1, SumNat DEF Books, NetSums, Capped
  <2>4. NeverOvercollected /\ VoidedIsEmpty
    BY <2>1, <2>2, <2>3 DEF NeverOvercollected, VoidedIsEmpty, Books, VoidedNet, Sized
  <2>5. LedgerReconciled
    BY DEF IInv, MirrorsStored, Mirrors, PostedOnce, LedgerReconciled, Typed, MoveRows
  <2> QED
    BY <2>1, <2>4, <2>5, SoundTypes DEF BooksSound, Books
<1> QED
  BY <1>1, IInvHolds, BInvHolds, PTL
=============================================================================
