---------------------------- MODULE UsersProofs -----------------------------
(***************************************************************************)
(* Theorems about what users meet: LoginThrottle and, on top of it,        *)
(* Accounts, for any attempts, buckets, limits, windows, accounts,         *)
(* passwords and requests; and the screens (Workspaces), for any number of *)
(* requests under way, any texts, filters and bounds.  Screens and         *)
(* accounts share no variable.                                             *)
(*                                                                         *)
(* The throttle rests on three facts: an attempt holds the rows it is      *)
(* about to write and saw that they do not block it; what it inserts,      *)
(* nobody else has inserted; and no row is written at a later instant than *)
(* the present one, though the writer may have read the clock long before. *)
(*                                                                         *)
(* A row of an account that was read before stays comparable with the      *)
(* present one by its version alone: whoever finds the version unchanged   *)
(* finds the whole row unchanged.  That is what makes comparing and        *)
(* hashing passwords outside of any transaction safe.  What is proved of   *)
(* the throttle carries over, because every step of Accounts is one of the *)
(* throttle's or leaves it alone.                                          *)
(*                                                                         *)
(* A screen keeps ScreenInv.  Its proof sorts the many actions of the      *)
(* screens into a few kinds of steps (Forms), which are told apart by what *)
(* their screen does: whether it keeps a key, what it creates and edits,   *)
(* and how it takes an answer.                                             *)
(***************************************************************************)
EXTENDS Accounts, Workspaces, SumTheorems

-----------------------------------------------------------------------------
(* The throttle: its inductive invariant.                                  *)

States == {"idle", "check", "verify", "record", "write", "clear"} \cup Results
Rows == [who : SUBSET Attempts, since : Nat, until : Nat, at : Nat]

Typed ==
  /\ clock \in Nat
  /\ rows \in [Buckets -> Rows]
  /\ pc \in [Attempts -> States]
  /\ mine \in [Attempts -> SUBSET Buckets]
  /\ now \in [Attempts -> Nat]
  /\ seen \in [Attempts -> Nat]
  /\ held \in [Attempts -> SUBSET Buckets]
  /\ counted \in [Attempts -> Nat]
  /\ \A a \in Attempts :
       /\ pc[a] # "idle" => \E b \in mine[a] : b \in Accounts
       /\ now[a] <= clock

\* A row that counts failures is one that the validation accepts.
Counts(row, b) ==
  /\ row.since <= row.at /\ row.at <= clock
  /\ row.until # 0 => row.at <= row.until
  /\ IsFiniteSet(row.who)
  /\ Cardinality(row.who) \in 1..Limit(b)
  /\ row.until # 0 <=> Cardinality(row.who) = Limit(b)
RowsCount == \A b \in Buckets : Exists(b) => Counts(rows[b], b)

\* Whoever is counted in a row was counted no later than the row was written, and
\* has had its answer.
CountedBefore ==
  \A b \in Buckets : \A c \in rows[b].who : pc[c] \in Results /\ counted[c] <= rows[b].at

\* What an attempt holds is its own, exists, and does not block it.
HoldsOpen(a) ==
  \A b \in held[a] : /\ b \in mine[a] /\ pc[a] = "write"
                     /\ Exists(b) /\ rows[b].until <= now[a] /\ rows[b].at <= now[a]
HeldOpen == \A a \in Attempts : HoldsOpen(a)
HeldApart == \A a, c \in Attempts : a # c => held[a] \cap held[c] = {}

IInv == Typed /\ RowsCount /\ CountedBefore /\ HeldOpen /\ HeldApart

-----------------------------------------------------------------------------
(* What single steps do.                                                   *)

LEMMA LimitAboveOne ==
  ASSUME NEW b \in Buckets
  PROVE  Limit(b) \in Nat /\ Limit(b) > 1
BY LimitsAssumption DEF Limit

LEMMA AccountIsBucket ==
  ASSUME Typed, NEW a \in Attempts, pc[a] # "idle"
  PROVE  AccountOf(a) \in mine[a] /\ AccountOf(a) \in Buckets
<1>1. \E b \in mine[a] : b \in Accounts
  BY DEF Typed
<1>2. mine[a] \subseteq Buckets
  BY DEF Typed
<1> QED
  BY <1>1, <1>2 DEF AccountOf

\* The row that a failure leaves counts it, and is valid.
LEMMA FailureCounts ==
  ASSUME IInv, NEW a \in Attempts, pc[a] = "write", ~Duplicate(a), NEW b \in mine[a]
  PROVE  /\ b \in Buckets /\ (Exists(b) => b \in held[a])
         /\ Failure(a, b, now[a]) \in Rows
         /\ Failure(a, b, now[a]).at = now[a]
         /\ Failure(a, b, now[a]).who \subseteq rows[b].who \cup {a}
         /\ Counts(Failure(a, b, now[a]), b)
<1> DEFINE t == now[a]
           row == Failure(a, b, t)
<1>1. b \in Buckets /\ t \in Nat /\ t <= clock /\ clock \in Nat /\ rows[b] \in Rows
  BY DEF IInv, Typed
<1>2. Limit(b) \in Nat /\ Limit(b) > 1 /\ Window \in Nat
  BY <1>1, LimitAboveOne, TimesAssumption
<1>3. Exists(b) => b \in held[a] /\ rows[b].until <= t /\ rows[b].at <= t /\ Counts(rows[b], b)
  BY <1>1 DEF IInv, HeldOpen, HoldsOpen, Duplicate, Target, RowsCount
<1>4. IsFiniteSet({a}) /\ Cardinality({a}) = 1
  BY FS_Singleton
<1>5. row.who = Who(a, b, t) /\ row.until = Until(a, b, t) /\ row.at = t
      /\ row.since = IF Exists(b) /\ ~Renewed(b, t) THEN rows[b].since ELSE t
  BY DEF Failure
<1>6. CASE Exists(b) /\ ~Renewed(b, t)
  <2> DEFINE old == rows[b].who
  <2>1. row.who = old \cup {a} /\ row.since = rows[b].since
    BY <1>5, <1>6 DEF Who
  <2>2. rows[b].until = 0
    BY <1>1, <1>3, <1>6 DEF Renewed, Rows
  <2>3. IsFiniteSet(old) /\ Cardinality(old) \in Nat /\ Cardinality(old) >= 1
        /\ Cardinality(old) < Limit(b) /\ rows[b].since <= t
    BY <1>1, <1>2, <1>3, <1>6, <2>2 DEF Counts, Rows
  <2>4. IsFiniteSet(row.who) /\ Cardinality(row.who) \in 1..Limit(b)
    <3>1. IsFiniteSet(old \cup {a})
          /\ Cardinality(old \cup {a}) = IF a \in old THEN Cardinality(old) ELSE Cardinality(old) + 1
      BY <2>3, FS_AddElement
    <3> QED
      BY <1>2, <2>1, <2>3, <3>1
  <2>5. row.until = IF Cardinality(row.who) >= Limit(b) THEN t + Window ELSE 0
    BY <1>5, <1>6 DEF Until
  <2>6. row \in Rows
    BY <1>1, <1>2, <1>5, <2>1, <2>4, <2>5 DEF Failure, Rows
  <2>7. row.until # 0 <=> Cardinality(row.who) = Limit(b)
    BY TimesAssumption, <1>1, <1>2, <2>4, <2>5
  <2>8. row.until # 0 => t <= row.until
    BY <1>1, <1>2, <2>5
  <2> QED
    BY <1>1, <1>3, <1>5, <2>1, <2>3, <2>4, <2>6, <2>7, <2>8 DEF Counts
<1>7. CASE ~(Exists(b) /\ ~Renewed(b, t))
  <2>1. row.who = {a} /\ row.since = t /\ row.until = 0
    BY <1>2, <1>4, <1>5, <1>7 DEF Who, Until
  <2>2. row \in Rows
    BY <1>1, <1>5, <2>1 DEF Failure, Rows
  <2> QED
    BY <1>1, <1>2, <1>3, <1>4, <1>5, <2>1, <2>2 DEF Counts
<1> QED
  BY <1>6, <1>7

LEMMA NoRowTyped == NoRow \in Rows
BY DEF NoRow, Rows

\* A row is left as it is, deleted, or written by an attempt that counts its failure;
\* rows that an attempt holds change through itself only.
LEMMA RowEffect ==
  ASSUME IInv, [Next]_vars, NEW b \in Buckets
  PROVE  \/ rows'[b] = rows[b]
         \/ rows'[b] = NoRow
         \/ \E a \in Attempts : Record(a) /\ b \in mine[a] /\ rows'[b] = Failure(a, b, now[a])
<1>1. ASSUME NEW a \in Attempts, NEW stored, Purge(a, stored)
      PROVE  rows'[b] = stored[b] \/ rows'[b] = NoRow
  BY <1>1 DEF Purge
<1>2. CASE \E a \in Attempts : Record(a)
  BY <1>1, <1>2 DEF Record, Target
<1>3. CASE \E a \in Attempts : SelectRows(a)
  BY <1>1, <1>3 DEF SelectRows
<1>4. CASE \E a \in Attempts : Clear(a)
  <2> PICK a \in Attempts : Clear(a)
    BY <1>4
  <2>1. rows'[b] = (IF Erasable(a) THEN [rows EXCEPT ![AccountOf(a)] = NoRow] ELSE rows)[b]
        \/ rows'[b] = NoRow
    BY <1>1 DEF Clear
  <2> QED
    BY <2>1 DEF IInv, Typed
<1>5. CASE UNCHANGED rows
  BY <1>5
<1> QED
  BY <1>2, <1>3, <1>4, <1>5 DEF Next, vars, Tick, Begin, Check, Verify, Retry, Fail

LEMMA HeldRowsStay ==
  ASSUME IInv, NEW a \in Attempts, NEW c \in Attempts \ {a}, NEW b \in held[c],
         SelectRows(a) \/ Record(a) \/ Clear(a)
  PROVE  rows'[b] = rows[b]
<1>1. /\ b \in Buckets /\ Exists(b) /\ b \notin held[a]
      /\ rows \in [Buckets -> Rows]
  BY DEF IInv, Typed, HeldOpen, HoldsOpen, HeldApart
<1>2. ASSUME NEW stored, Purge(a, stored), stored[b] = rows[b]
      PROVE  rows'[b] = rows[b]
  BY <1>1, <1>2 DEF Purge, Oldest, Free, Exists
<1>3. CASE SelectRows(a)
  BY <1>2, <1>3 DEF SelectRows
<1>4. CASE Record(a)
  <2>1. b \notin mine[a]
    BY <1>1, <1>4 DEF Record, Duplicate, Target
  <2> QED
    BY <1>1, <1>2, <1>4, <2>1 DEF Record, Target
<1>5. CASE Clear(a)
  <2>1. Erasable(a) => b # AccountOf(a)
    BY <1>5 DEF Clear, Erasable, Free
  <2> QED
    BY <1>1, <1>2, <1>5, <2>1 DEF Clear
<1> QED
  BY <1>3, <1>4, <1>5

-----------------------------------------------------------------------------
(* Every step preserves the invariant.                                     *)

LEMMA InitIInv == Init => IInv
<1> SUFFICES ASSUME Init PROVE IInv
  OBVIOUS
<1>1. Typed
  BY NoRowTyped DEF Init, Typed, States
<1>2. RowsCount /\ CountedBefore /\ HeldOpen /\ HeldApart
  BY DEF Init, RowsCount, Exists, CountedBefore, NoRow, HeldOpen, HoldsOpen, HeldApart
<1> QED
  BY <1>1, <1>2 DEF IInv

LEMMA NextTyped == IInv /\ [Next]_vars => Typed'
<1> SUFFICES ASSUME IInv, [Next]_vars PROVE Typed'
  OBVIOUS
<1> USE DEF Typed, IInv
<1>1. rows' \in [Buckets -> Rows]
  <2>1. DOMAIN rows' = Buckets /\ rows' = [b \in Buckets |-> rows'[b]]
    <3>1. ASSUME NEW a \in Attempts, NEW stored, Purge(a, stored)
          PROVE  rows' = [b \in Buckets |-> rows'[b]]
      BY <3>1 DEF Purge
    <3>2. CASE \E a \in Attempts : SelectRows(a) \/ Record(a) \/ Clear(a)
      BY <3>1, <3>2 DEF SelectRows, Record, Clear
    <3>3. CASE UNCHANGED rows
      BY <3>3
    <3> QED
      BY <3>2, <3>3 DEF Next, vars, Tick, Begin, Check, Verify, Retry, Fail
  <2>2. ASSUME NEW b \in Buckets
        PROVE  rows'[b] \in Rows
    <3>1. ASSUME NEW a \in Attempts, Record(a), b \in mine[a]
          PROVE  Failure(a, b, now[a]) \in Rows
      BY <3>1, FailureCounts DEF Record
    <3> QED
      BY <2>2, <3>1, RowEffect, NoRowTyped
  <2> QED
    BY <2>1, <2>2
<1>2. ASSUME NEW a \in Attempts, NEW step \in States \ {"idle"}, pc[a] # "idle", End(a, step),
             UNCHANGED <<clock, mine, now>>
      PROVE  Typed' \/ ~(seen' \in [Attempts -> Nat] /\ counted' \in [Attempts -> Nat])
  BY <1>1, <1>2 DEF End
<1>3. CASE Tick
  BY <1>1, <1>3 DEF Tick
<1>4. ASSUME NEW a \in Attempts, NEW account \in Accounts, NEW network \in Networks \cup {None},
             Begin(a, account, network)
      PROVE  Typed'
  <2>1. mine'[a] = {account, Portal} \cup ({network} \ {None}) /\ mine'[a] \subseteq Buckets
        /\ mine' = [mine EXCEPT ![a] = mine'[a]]
    BY <1>4 DEF Begin, Buckets
  <2>2. now'[a] = clock /\ now' = [now EXCEPT ![a] = clock] /\ clock' = clock
    BY <1>4 DEF Begin
  <2>3. pc' = [pc EXCEPT ![a] = "check"] /\ UNCHANGED <<seen, held, counted>>
    BY <1>4 DEF Begin
  <2> QED
    BY <1>1, <2>1, <2>2, <2>3 DEF States
<1>5. ASSUME NEW a \in Attempts, Check(a)
      PROVE  Typed'
  <2>1. rows[AccountOf(a)].at \in Nat
    BY <1>5, AccountIsBucket DEF Check, Rows
  <2>2. seen' \in [Attempts -> Nat]
    BY <1>5, <2>1 DEF Check
  <2> QED
    BY <1>2, <1>5, <2>2 DEF Check, States, Results
<1>6. ASSUME NEW a \in Attempts, Verify(a)
      PROVE  Typed'
  <2> PICK step \in {"clear", "record", "error"} : pc' = [pc EXCEPT ![a] = step]
    BY <1>6 DEF Verify
  <2>1. pc[a] # "idle" /\ step \in States \ {"idle"} /\ now' = [now EXCEPT ![a] = clock]
        /\ UNCHANGED <<clock, mine, seen, held, counted>>
    BY <1>6 DEF Verify, States, Results
  <2> QED
    BY <1>1, <2>1
<1>7. ASSUME NEW a \in Attempts, SelectRows(a)
      PROVE  Typed'
  <2>1. CASE End(a, "unavailable") \/ End(a, "rejected")
    BY <1>2, <1>7, <2>1 DEF SelectRows, States, Results
  <2>2. CASE pc' = [pc EXCEPT ![a] = "write"]
             /\ held' = [held EXCEPT ![a] = {b \in mine[a] : Exists(b)}]
    BY <1>1, <1>7, <2>2 DEF SelectRows, States
  <2> QED
    BY <1>7, <2>1, <2>2 DEF SelectRows
<1>8. ASSUME NEW a \in Attempts, Retry(a)
      PROVE  Typed'
  BY <1>1, <1>8 DEF Retry, End, AfterDuplicate, States, Results
<1>9. ASSUME NEW a \in Attempts, Record(a)
      PROVE  Typed'
  BY <1>2, <1>9 DEF Record, States, Results
<1>10. ASSUME NEW a \in Attempts, Clear(a) \/ Fail(a)
       PROVE  Typed'
  BY <1>2, <1>10 DEF Clear, Fail, States, Results
<1>11. CASE UNCHANGED vars
  BY <1>11 DEF vars
<1> QED
  BY <1>3, <1>4, <1>5, <1>6, <1>7, <1>8, <1>9, <1>10, <1>11 DEF Next

LEMMA ClockGoesOn ==
  ASSUME IInv, [Next]_vars
  PROVE  clock \in Nat /\ clock' \in Nat /\ clock <= clock'
<1>1. CASE Tick
  BY <1>1 DEF IInv, Typed, Tick
<1>2. CASE UNCHANGED clock
  BY <1>2 DEF IInv, Typed
<1> QED
  BY <1>1, <1>2 DEF Next, vars, Begin, Check, Verify, SelectRows, Retry, Record, Clear, Fail

LEMMA NextRowsCount == IInv /\ [Next]_vars => RowsCount'
<1> SUFFICES ASSUME IInv, [Next]_vars, NEW b \in Buckets, Exists(b)'
             PROVE  Counts(rows[b], b)'
  BY DEF RowsCount
<1>1. ASSUME NEW row \in Rows, Counts(row, b)
      PROVE  Counts(row, b)'
  BY <1>1, ClockGoesOn DEF Counts, Rows, Limit
<1>2. CASE rows'[b] = rows[b]
  BY <1>1, <1>2 DEF Exists, RowsCount, IInv, Typed, Counts
<1>3. CASE rows'[b] = NoRow
  BY <1>3 DEF Exists, NoRow
<1>4. ASSUME NEW a \in Attempts, Record(a), b \in mine[a], rows'[b] = Failure(a, b, now[a])
      PROVE  Counts(rows[b], b)'
  <2>1. Failure(a, b, now[a]) \in Rows /\ Counts(Failure(a, b, now[a]), b)
    BY <1>4, FailureCounts DEF Record
  <2> PICK row \in Rows : row = Failure(a, b, now[a])
    BY <2>1
  <2> QED
    BY <1>1, <1>4, <2>1 DEF Counts
<1> QED
  BY <1>2, <1>3, <1>4, RowEffect

LEMMA NextCountedBefore == IInv /\ [Next]_vars => CountedBefore'
<1> SUFFICES ASSUME IInv, [Next]_vars, NEW b \in Buckets, NEW c \in rows'[b].who
             PROVE  pc'[c] \in Results /\ counted'[c] <= rows'[b].at
  BY DEF CountedBefore
<1>1. ASSUME NEW d \in Attempts, pc[d] \in Results
      PROVE  pc'[d] = pc[d] /\ counted'[d] = counted[d]
  BY <1>1 DEF IInv, Typed, Next, vars, Tick, Begin, Check, Verify, SelectRows, Retry, Record,
              Clear, Fail, End, Results
<1>2. ASSUME c \in rows[b].who
      PROVE  pc'[c] = pc[c] /\ counted'[c] = counted[c] /\ pc[c] \in Results
             /\ counted[c] <= rows[b].at /\ counted[c] \in Nat /\ rows[b].at \in Nat
  BY <1>1, <1>2 DEF IInv, CountedBefore, Typed, Rows
<1>3. CASE rows'[b] = rows[b]
  BY <1>2, <1>3
<1>4. CASE rows'[b] = NoRow
  BY <1>4 DEF NoRow
<1>5. ASSUME NEW a \in Attempts, Record(a), b \in mine[a], rows'[b] = Failure(a, b, now[a])
      PROVE  pc'[c] \in Results /\ counted'[c] <= rows'[b].at
  <2>1. /\ Exists(b) => b \in held[a]
        /\ rows'[b].at = now[a] /\ rows'[b].who \subseteq rows[b].who \cup {a}
        /\ now[a] \in Nat
    BY <1>5, FailureCounts DEF Record, IInv, Typed
  <2>2. CASE c = a
    BY <1>5, <2>1, <2>2 DEF Record, End, Results, IInv, Typed
  <2>3. CASE c # a
    <3>1. c \in rows[b].who /\ Exists(b)
      BY <2>1, <2>3 DEF Exists, NoRow
    <3>2. rows[b].at <= now[a]
      BY <2>1, <3>1 DEF IInv, HeldOpen, HoldsOpen
    <3> QED
      BY <1>2, <2>1, <3>1, <3>2
  <2> QED
    BY <2>2, <2>3
<1> QED
  BY <1>3, <1>4, <1>5, RowEffect

LEMMA NextHeld == IInv /\ [Next]_vars => HeldOpen' /\ HeldApart'
<1> SUFFICES ASSUME IInv, [Next]_vars
             PROVE  HeldOpen' /\ HeldApart'
  OBVIOUS
<1> USE DEF IInv, Typed
<1>1. ASSUME UNCHANGED <<rows, held>>,
             \A c \in Attempts : pc[c] = "write" => pc'[c] = pc[c] /\ now'[c] = now[c] /\ mine'[c] = mine[c]
      PROVE  HeldOpen' /\ HeldApart'
  BY <1>1 DEF HeldOpen, HoldsOpen, HeldApart, Exists
<1>2. ASSUME NEW a \in Attempts, held' = [held EXCEPT ![a] = {}],
             \A c \in Attempts \ {a} : /\ pc'[c] = pc[c] /\ now'[c] = now[c] /\ mine'[c] = mine[c]
                                       /\ \A b \in held[c] : rows'[b] = rows[b]
      PROVE  HeldOpen' /\ HeldApart'
  BY <1>2 DEF HeldOpen, HoldsOpen, HeldApart, Exists
<1>3. CASE Tick
  BY <1>1, <1>3 DEF Tick
<1>4. CASE \E a \in Attempts, account \in Accounts, network \in Networks \cup {None} :
             Begin(a, account, network)
  BY <1>1, <1>4 DEF Begin
<1>5. CASE \E a \in Attempts : Check(a) \/ Retry(a) \/ Fail(a)
  BY <1>2, <1>5 DEF Check, Retry, Fail, End
<1>6. CASE \E a \in Attempts : Verify(a)
  BY <1>1, <1>6 DEF Verify
<1>7. ASSUME NEW a \in Attempts, Record(a) \/ Clear(a)
      PROVE  HeldOpen' /\ HeldApart'
  <2>1. \A c \in Attempts \ {a} : \A b \in held[c] : rows'[b] = rows[b]
    BY <1>7, HeldRowsStay
  <2> QED
    BY <1>2, <1>7, <2>1 DEF Record, Clear, End
<1>8. ASSUME NEW a \in Attempts, SelectRows(a)
      PROVE  HeldOpen' /\ HeldApart'
  <2>1. \A c \in Attempts \ {a} : \A b \in held[c] : rows'[b] = rows[b]
    BY <1>8, HeldRowsStay
  <2>2. CASE End(a, "unavailable") \/ End(a, "rejected")
    BY <1>2, <1>8, <2>1, <2>2 DEF SelectRows, End
  <2>3. CASE /\ ~Blocked(a, now[a]) /\ \A b \in mine[a] : ~Inconsistent(b, now[a])
             /\ pc' = [pc EXCEPT ![a] = "write"]
             /\ held' = [held EXCEPT ![a] = {b \in mine[a] : Exists(b)}]
             /\ UNCHANGED <<rows, mine, now>>
    <3>1. \A b \in mine[a] : b \in Buckets /\ (Exists(b) => rows[b].until <= now[a] /\ rows[b].at <= now[a])
      BY <2>3 DEF Blocked, Inconsistent, Rows
    <3>2. held'[a] \subseteq mine[a] /\ \A c \in Attempts \ {a} : held[c] \cap held'[a] = {}
      BY <1>8, <2>3 DEF SelectRows, Free
    <3>3. HeldOpen'
      BY <2>3, <3>1 DEF HeldOpen, HoldsOpen, Exists
    <3> QED
      BY <2>3, <3>2, <3>3 DEF HeldApart
  <2> QED
    BY <1>8, <2>2, <2>3 DEF SelectRows
<1>9. CASE UNCHANGED vars
  BY <1>1, <1>9 DEF vars
<1> QED
  BY <1>3, <1>4, <1>5, <1>6, <1>7, <1>8, <1>9 DEF Next

LEMMA IInvHolds == Spec => []IInv
<1>1. IInv /\ [Next]_vars => IInv'
  BY NextTyped, NextRowsCount, NextCountedBefore, NextHeld DEF IInv
<1> QED
  BY <1>1, InitIInv, PTL DEF Spec

-----------------------------------------------------------------------------
(* The theorems.                                                           *)

\* An attempt moves by its own steps only.
LEMMA OnlyCheckVerifies ==
  ASSUME IInv, Next, NEW a \in Attempts, pc[a] = "check", pc'[a] = "verify"
  PROVE  Check(a)
<1> USE DEF IInv, Typed
<1>1. ASSUME NEW c \in Attempts, NEW step, End(c, step), c # a \/ step # "verify"
      PROVE  FALSE
  BY <1>1 DEF End
<1>2. ASSUME NEW c \in Attempts,
             Verify(c) \/ SelectRows(c) \/ Retry(c) \/ Record(c) \/ Clear(c) \/ Fail(c)
      PROVE  FALSE
  BY <1>1, <1>2 DEF Verify, SelectRows, Retry, AfterDuplicate, Record, Clear, Fail
<1>3. ASSUME NEW c \in Attempts, Check(c)
      PROVE  Check(a)
  BY <1>1, <1>3 DEF Check
<1>4. Tick \/ (\E c \in Attempts, account \in Accounts, network \in Networks \cup {None} :
                 Begin(c, account, network)) => FALSE
  BY DEF Tick, Begin
<1> QED
  BY <1>2, <1>3, <1>4 DEF Next

LEMMA OnlyClearAuthenticates ==
  ASSUME IInv, Next, NEW a \in Attempts, pc[a] = "clear", pc'[a] = "authenticated"
  PROVE  Clear(a)
<1> USE DEF IInv, Typed
<1>1. ASSUME NEW c \in Attempts, NEW step, End(c, step), c # a \/ step # "authenticated"
      PROVE  FALSE
  BY <1>1 DEF End
<1>2. ASSUME NEW c \in Attempts,
             Check(c) \/ Verify(c) \/ SelectRows(c) \/ Retry(c) \/ Record(c) \/ Fail(c)
      PROVE  FALSE
  BY <1>1, <1>2 DEF Check, Verify, SelectRows, Retry, AfterDuplicate, Record, Fail
<1>3. ASSUME NEW c \in Attempts, Clear(c)
      PROVE  Clear(a)
  BY <1>1, <1>3 DEF Clear
<1>4. Tick \/ (\E c \in Attempts, account \in Accounts, network \in Networks \cup {None} :
                 Begin(c, account, network)) => FALSE
  BY DEF Tick, Begin
<1> QED
  BY <1>2, <1>3, <1>4 DEF Next

\* Whatever attempts write at once, no row ever fails its validation (validateRows),
\* and no bucket counts more failures than its limit (updateFailure).
THEOREM RowsStayValidHolds == Spec => []RowsStayValid
<1>1. IInv => RowsStayValid
  <2> SUFFICES ASSUME IInv, NEW b \in Buckets, Exists(b)
               PROVE  ~Inconsistent(b, clock) /\ Cardinality(rows[b].who) \in 1..Limit(b)
    BY DEF RowsStayValid
  <2>1. Counts(rows[b], b) /\ rows[b] \in Rows /\ Limit(b) \in Nat /\ clock \in Nat
    BY LimitAboveOne DEF IInv, RowsCount, Typed
  <2> QED
    BY <2>1 DEF Counts, Inconsistent, Rows
<1> QED
  BY <1>1, IInvHolds, PTL

\* No credential is verified while one of the attempt's buckets is blocked, though
\* isBlocked compares with an instant read before it waited; and a success erases
\* no failure counted later than the row it saw ("newer evidence wins").
THEOREM EvidenceRespectedHolds == Spec => EvidenceRespected
<1>1. ASSUME IInv, Next, NEW a \in Attempts, pc[a] = "check", pc'[a] = "verify"
      PROVE  \A b \in mine[a] : rows[b].until <= clock
  <2>1. Check(a)
    BY <1>1, OnlyCheckVerifies
  <2>2. ~Blocked(a, now[a])
    BY <1>1, <2>1 DEF Check, End, IInv, Typed
  <2>3. ASSUME NEW b \in mine[a]
        PROVE  rows[b].until \in Nat /\ now[a] \in Nat /\ clock \in Nat /\ now[a] <= clock
    BY <1>1 DEF IInv, Typed, Rows
  <2> QED
    BY <2>2, <2>3 DEF Blocked
<1>2. ASSUME IInv, Next, NEW a \in Attempts, pc[a] = "clear", pc'[a] = "authenticated",
             Exists(AccountOf(a)), rows'[AccountOf(a)] = NoRow, AccountOf(a) \notin Expired(rows)
      PROVE  \A c \in rows[AccountOf(a)].who : counted[c] <= seen[a]
  <2> DEFINE b == AccountOf(a)
  <2>1. Clear(a)
    BY <1>2, OnlyClearAuthenticates
  <2>2. b \in Buckets
    BY <1>2, AccountIsBucket DEF IInv
  <2>3. Erasable(a)
    BY <1>2, <2>1, <2>2 DEF Clear, Purge, Oldest, Expired, Exists
  <2> QED
    BY <1>2, <2>2, <2>3 DEF Erasable, IInv, CountedBefore
<1>3. IInv /\ [Next]_vars =>
        [\A a \in Attempts : pc[a] = "check" /\ pc'[a] = "verify" =>
           \A b \in mine[a] : rows[b].until <= clock]_vars
  BY <1>1
<1>4. IInv /\ [Next]_vars =>
        [\A a \in Attempts : pc[a] = "clear" /\ pc'[a] = "authenticated" =>
           LET b == AccountOf(a) IN
           Exists(b) /\ rows'[b] = NoRow /\ b \notin Expired(rows) =>
             \A c \in rows[b].who : counted[c] <= seen[a]]_vars
  BY <1>2
<1> QED
  BY <1>3, <1>4, IInvHolds, PTL DEF Spec, EvidenceRespected, NoVerifyWhileBlocked, LaterEvidenceWins

-----------------------------------------------------------------------------
(* The throttle: whoever is counted once is counted everywhere, and two    *)
(* tries suffice.                                                          *)

\* The block and the window of a row are as old as the row.
Dated(row) == /\ row.at < row.since + Window
              /\ row.until # 0 => row.until = row.at + Window
RowsDated == \A b \in Buckets : Exists(b) => Dated(rows[b])

\* No transaction is older than Lag, and every attempt has the portal among its buckets.
Timed(a) ==
  /\ seen[a] <= clock /\ counted[a] <= clock
  /\ InTransaction(a) => clock <= now[a] + Lag
  /\ pc[a] # "idle" => Portal \in mine[a]
  /\ a \in again => pc[a] \in {"record", "write"} \cup Results
InTime == clock \in 1..Horizon /\ again \subseteq Attempts /\ \A a \in Attempts : Timed(a)

\* Who inserts a row meanwhile writes the portal's as well, and that one is far too
\* young to expire before the second try: it finds a row to hold, and who holds the
\* portal's row keeps everybody else from inserting anything.
PortalSince(t) == Exists(Portal) /\ rows[Portal].at >= t
PortalFound(a) ==
  /\ pc[a] = "write" /\ Duplicate(a) => PortalSince(now[a] - Lag)
  /\ pc[a] = "record" /\ a \in again => PortalSince(now[a] - 2 * Lag)
  /\ pc[a] = "write" /\ a \in again => Portal \in held[a] /\ ~Duplicate(a)

EInv == RowsDated /\ InTime /\ CountedEverywhere /\ \A a \in Attempts : PortalFound(a)

LEMMA TimesNat == /\ Window \in Nat /\ Window > 0 /\ Retention \in Nat /\ Lag \in Nat /\ Lag > 0
                  /\ Horizon \in Nat /\ Horizon > 0 /\ 3 * Lag <= Retention
BY TimesAssumption

LEMMA FailureDated ==
  ASSUME IInv, NEW a \in Attempts, pc[a] = "write", ~Duplicate(a), NEW b \in mine[a]
  PROVE  Dated(Failure(a, b, now[a]))
<1> DEFINE t == now[a]
           row == Failure(a, b, t)
<1>1. b \in Buckets /\ t \in Nat /\ rows[b] \in Rows
  BY DEF IInv, Typed
<1>2. row.until = Until(a, b, t) /\ row.at = t
      /\ row.since = IF Exists(b) /\ ~Renewed(b, t) THEN rows[b].since ELSE t
  BY DEF Failure
<1>3. row.until # 0 => row.until = t + Window
  BY <1>2 DEF Until
<1>4. t < row.since + Window
  BY <1>1, <1>2, TimesNat DEF Renewed, Rows
<1> QED
  BY <1>2, <1>3, <1>4 DEF Dated

\* A row disappears when it expires, or an account's when it is cleared.
LEMMA RowGone ==
  ASSUME IInv, [Next]_vars, NEW b \in Buckets \ Accounts, Exists(b), rows'[b] = NoRow
  PROVE  rows[b].at + Retention < clock
<1>1. rows[b] \in Rows /\ rows[b] # NoRow /\ clock \in Nat /\ Retention \in Nat
  BY TimesNat DEF IInv, Typed, Exists
<1>2. ASSUME NEW a \in Attempts, NEW stored, Purge(a, stored), stored[b] # NoRow
      PROVE  stored[b].at + Retention < clock
  BY <1>2 DEF Purge, Oldest, Expired
<1>3. CASE \E a \in Attempts : SelectRows(a)
  BY <1>1, <1>2, <1>3 DEF SelectRows
<1>4. ASSUME NEW a \in Attempts, Record(a)
      PROVE  rows[b].at + Retention < clock
  <2> DEFINE stored == [c \in Buckets |-> IF c \in Target(a) THEN Failure(a, c, now[a]) ELSE rows[c]]
  <2>1. Purge(a, stored)
    BY <1>4 DEF Record
  <2>2. CASE b \notin mine[a]
    <3>1. stored[b] = rows[b]
      BY <2>2 DEF Target
    <3> QED
      BY <1>1, <1>2, <2>1, <3>1
  <2>3. CASE b \in mine[a]
    <3>1. /\ b \in held[a] /\ Failure(a, b, now[a]) \in Rows
          /\ Failure(a, b, now[a]).at = now[a] /\ a \in Failure(a, b, now[a]).who
      BY <1>4, <2>3, FailureCounts DEF Record, Failure, Who
    <3>2. stored[b] = Failure(a, b, now[a]) /\ stored[b] # NoRow
      BY <2>3, <3>1 DEF Target, NoRow
    <3>3. now[a] + Retention < clock
      BY <1>2, <2>1, <3>1, <3>2
    <3>4. rows[b].at <= now[a] /\ rows[b].at \in Nat /\ now[a] \in Nat
      BY <1>1, <3>1 DEF IInv, Typed, HeldOpen, HoldsOpen, Rows
    <3> QED
      BY <1>1, <3>3, <3>4
  <2> QED
    BY <2>2, <2>3
<1>5. ASSUME NEW a \in Attempts, Clear(a)
      PROVE  rows[b].at + Retention < clock
  <2> DEFINE stored == IF Erasable(a) THEN [rows EXCEPT ![AccountOf(a)] = NoRow] ELSE rows
  <2>1. Purge(a, stored)
    BY <1>5 DEF Clear
  <2>2. AccountOf(a) \in Accounts
    <3>1. \E c \in mine[a] : c \in Accounts
      BY <1>5 DEF Clear, IInv, Typed
    <3> QED
      BY <3>1 DEF AccountOf
  <2>3. stored[b] = rows[b]
    BY <2>2 DEF IInv, Typed
  <2> HIDE DEF stored
  <2> QED
    BY <1>1, <1>2, <2>1, <2>3
<1>6. CASE UNCHANGED rows
  BY <1>1, <1>6
<1> QED
  BY <1>3, <1>4, <1>5, <1>6 DEF Next, vars, Tick, Begin, Check, Verify, Retry, Fail

\* Whoever is counted before in a row is counted in it still, or its window began again.
LEMMA FailureKeeps ==
  ASSUME IInv, RowsDated, NEW a \in Attempts, Record(a), NEW b \in mine[a], Exists(b)
  PROVE  /\ rows[b].at <= now[a]
         /\ \/ /\ rows[b].who \subseteq Failure(a, b, now[a]).who
               /\ Failure(a, b, now[a]).since = rows[b].since
            \/ Failure(a, b, now[a]).since = now[a] /\ rows[b].at < now[a]
<1>1. b \in held[a] /\ b \in Buckets /\ now[a] \in Nat /\ rows[b] \in Rows
  BY FailureCounts DEF Record, IInv, Typed
<1>2. rows[b].at <= now[a] /\ Dated(rows[b])
  BY <1>1 DEF IInv, HeldOpen, HoldsOpen, RowsDated
<1>3. CASE ~Renewed(b, now[a])
  BY <1>2, <1>3 DEF Failure, Who
<1>4. CASE Renewed(b, now[a])
  <2>1. Failure(a, b, now[a]).since = now[a]
    BY <1>4 DEF Failure
  <2>2. rows[b].at < now[a]
    BY <1>1, <1>2, <1>4, TimesNat DEF Renewed, Dated, Rows
  <2> QED
    BY <1>2, <2>1, <2>2
<1> QED
  BY <1>3, <1>4

LEMMA NextRowsDated == IInv /\ RowsDated /\ [Next]_vars => RowsDated'
<1> SUFFICES ASSUME IInv, RowsDated, [Next]_vars, NEW b \in Buckets, Exists(b)'
             PROVE  Dated(rows'[b])
  BY DEF RowsDated, Dated
<1>1. CASE rows'[b] = rows[b]
  BY <1>1 DEF Exists, RowsDated
<1>2. CASE rows'[b] = NoRow
  BY <1>2 DEF Exists
<1>3. ASSUME NEW a \in Attempts, Record(a), b \in mine[a], rows'[b] = Failure(a, b, now[a])
      PROVE  Dated(rows'[b])
  BY <1>3, FailureDated DEF Record
<1> QED
  BY <1>1, <1>2, <1>3, RowEffect

LEMMA NextCountedEverywhere ==
  IInv /\ RowsDated /\ CountedEverywhere /\ [Next]_vars => CountedEverywhere'
<1> SUFFICES ASSUME IInv, RowsDated, CountedEverywhere, [Next]_vars, NEW b \in Buckets,
                    NEW a \in rows'[b].who, NEW c \in mine'[a] \ Accounts
             PROVE  \/ a \in rows'[c].who
                    \/ rows'[c] # NoRow /\ counted'[a] < rows'[c].since
                    \/ counted'[a] + Retention < clock'
  BY DEF CountedEverywhere, Exists
<1>1. clock \in Nat /\ clock' \in Nat /\ clock <= clock' /\ Retention \in Nat
  BY ClockGoesOn, TimesNat
<1>2. CASE a \in rows[b].who
  <2>1. a \in Attempts /\ pc[a] \in Results
    BY <1>2 DEF IInv, Typed, Rows, CountedBefore
  <2>2. mine'[a] = mine[a] /\ counted'[a] = counted[a]
    BY <2>1 DEF IInv, Typed, Next, vars, Tick, Begin, Check, Verify, SelectRows, Retry, Record,
                Clear, Fail, End, Results
  <2>3. c \in Buckets /\ c \in mine[a] \ Accounts
    BY <2>1, <2>2 DEF IInv, Typed
  <2>4. \/ a \in rows[c].who
        \/ Exists(c) /\ counted[a] < rows[c].since
        \/ counted[a] + Retention < clock
    BY <1>2, <2>3 DEF CountedEverywhere
  <2>5. counted[a] \in Nat /\ rows[c] \in Rows
    BY <2>1, <2>3 DEF IInv, Typed
  <2>6. CASE counted[a] + Retention < clock
    BY <1>1, <2>2, <2>5, <2>6
  <2>7. CASE a \in rows[c].who \/ (Exists(c) /\ counted[a] < rows[c].since)
    <3>1. Exists(c)
      BY <2>7 DEF Exists, NoRow
    <3>2. counted[a] <= rows[c].at /\ rows[c].since <= rows[c].at
      BY <2>3, <2>5, <2>7, <3>1 DEF IInv, CountedBefore, RowsCount, Counts, Rows
    <3>3. CASE rows'[c] = rows[c]
      BY <2>2, <2>7, <3>1, <3>3 DEF Exists
    <3>4. CASE rows'[c] = NoRow
      <4>1. rows[c].at + Retention < clock
        BY <2>3, <3>1, <3>4, RowGone
      <4> QED
        BY <1>1, <2>2, <2>5, <3>2, <4>1 DEF Rows
    <3>5. ASSUME NEW x \in Attempts, Record(x), c \in mine[x], rows'[c] = Failure(x, c, now[x])
          PROVE  \/ a \in rows'[c].who
                 \/ rows'[c] # NoRow /\ counted'[a] < rows'[c].since
      <4>1. \/ rows[c].who \subseteq rows'[c].who /\ rows'[c].since = rows[c].since
            \/ rows'[c].since = now[x] /\ rows[c].at < now[x]
        BY <3>1, <3>5, FailureKeeps
      <4>2. rows'[c] # NoRow
        BY <3>5 DEF Failure, Who, NoRow
      <4>3. now[x] \in Nat
        BY DEF IInv, Typed
      <4> QED
        BY <2>2, <2>5, <2>7, <3>2, <4>1, <4>2, <4>3 DEF Rows
    <3> QED
      BY <2>3, <3>3, <3>4, <3>5, RowEffect
  <2> QED
    BY <2>4, <2>6, <2>7
<1>3. CASE a \notin rows[b].who
  <2>1. rows'[b] # rows[b] /\ rows'[b] # NoRow
    BY <1>3 DEF NoRow
  <2> PICK x \in Attempts : Record(x) /\ b \in mine[x] /\ rows'[b] = Failure(x, b, now[x])
    BY <2>1, RowEffect
  <2>2. a = x
    BY <1>3, FailureCounts DEF Record
  <2>3. mine' = mine /\ counted'[a] = now[a] /\ c \in mine[a] /\ now[a] \in Nat /\ c \in Buckets
    BY <2>2 DEF Record, IInv, Typed
  <2> DEFINE stored == [d \in Buckets |-> IF d \in Target(a) THEN Failure(a, d, now[a]) ELSE rows[d]]
  <2>4. Purge(a, stored) /\ clock' = clock
    BY <2>2 DEF Record
  <2>5. stored[c] = Failure(a, c, now[a])
    BY <2>3 DEF Target
  <2>6. stored[c].at = now[a] /\ a \in stored[c].who
    BY <2>5 DEF Failure, Who
  <2>7. \/ rows'[c] = stored[c]
        \/ rows'[c] = NoRow /\ c \in Expired(stored)
    BY <2>3, <2>4 DEF Purge, Oldest
  <2>8. c \in Expired(stored) => now[a] + Retention < clock
    BY <2>6 DEF Expired
  <2> HIDE DEF stored
  <2> QED
    BY <2>3, <2>4, <2>6, <2>7, <2>8
<1> QED
  BY <1>2, <1>3

LEMMA NextInTime == IInv /\ InTime /\ [Next]_vars => InTime'
<1> SUFFICES ASSUME IInv, InTime, [Next]_vars
             PROVE  InTime'
  OBVIOUS
<1> USE DEF IInv, Typed
<1>1. /\ clock \in 1..Horizon /\ again \subseteq Attempts /\ Lag \in Nat /\ Horizon \in Nat
      /\ \A a \in Attempts : Timed(a)
  BY TimesNat DEF InTime
<1>2. CASE Tick
  <2>1. clock' \in 1..Horizon /\ clock' = clock + 1
    BY <1>1, <1>2 DEF Tick
  <2>2. ASSUME NEW a \in Attempts
        PROVE  Timed(a)'
    BY <1>1, <1>2, <2>1 DEF Tick, Timed, InTransaction
  <2> QED
    BY <1>1, <1>2, <2>1, <2>2 DEF Tick, InTime
<1>3. ASSUME clock' = clock, NEW a \in Attempts, Timed(a)',
             \A c \in Attempts \ {a} :
               /\ pc'[c] = pc[c] /\ mine'[c] = mine[c] /\ now'[c] = now[c] /\ seen'[c] = seen[c]
               /\ counted'[c] = counted[c] /\ (c \in again' <=> c \in again),
             again' \subseteq again \cup {a}
      PROVE  InTime'
  <2>1. ASSUME NEW c \in Attempts \ {a}
        PROVE  Timed(c)'
    BY <1>1, <1>3 DEF Timed, InTransaction
  <2> QED
    BY <1>1, <1>3, <2>1 DEF InTime
<1>4. ASSUME NEW a \in Attempts, NEW account \in Accounts, NEW network \in Networks \cup {None},
             Begin(a, account, network)
      PROVE  InTime'
  <2>1. Timed(a)'
    BY <1>1, <1>4 DEF Begin, Timed, InTransaction, Results
  <2> QED
    BY <1>3, <1>4, <2>1 DEF Begin
<1>5. ASSUME NEW a \in Attempts, Check(a)
      PROVE  InTime'
  <2>1. seen'[a] <= clock /\ pc'[a] \in {"unavailable", "blocked", "verify"} /\ pc[a] = "check"
    <3>1. AccountOf(a) \in Buckets
      BY <1>5, AccountIsBucket DEF Check
    <3>2. rows[AccountOf(a)].at <= clock
      BY <1>1, <3>1 DEF RowsCount, Counts, Exists, NoRow
    <3> QED
      BY <1>5, <3>2 DEF Check, End
  <2>2. Timed(a)'
    BY <1>1, <1>5, <2>1 DEF Check, Timed, InTransaction, Results
  <2> QED
    BY <1>3, <1>5, <2>2 DEF Check, End
<1>6. ASSUME NEW a \in Attempts, Verify(a)
      PROVE  InTime'
  <2>1. Timed(a)'
    BY <1>1, <1>6 DEF Verify, Timed, InTransaction, Results
  <2> QED
    BY <1>3, <1>6, <2>1 DEF Verify
<1>7. ASSUME NEW a \in Attempts, NEW step \in Results \cup {"record", "write"},
             pc[a] \in {"record", "write", "check", "clear"}, step \in Results \/ pc[a] = "record",
             pc' = [pc EXCEPT ![a] = step],
             counted'[a] = now[a] \/ counted'[a] = counted[a], \A c \in Attempts \ {a} : counted'[c] = counted[c],
             UNCHANGED <<clock, mine, now, seen, again>>
      PROVE  InTime'
  <2>1. Timed(a)'
    BY <1>1, <1>7 DEF Timed, InTransaction, Results
  <2> QED
    BY <1>3, <1>7, <2>1
<1>8. ASSUME NEW a \in Attempts, SelectRows(a)
      PROVE  InTime'
  <2>1. \E step \in {"unavailable", "rejected", "write"} : pc' = [pc EXCEPT ![a] = step]
    BY <1>8 DEF SelectRows, End
  <2> QED
    BY <1>7, <1>8, <2>1 DEF SelectRows, Results
<1>9. ASSUME NEW a \in Attempts, Retry(a)
      PROVE  InTime'
  <2>1. Timed(a)'
    BY <1>1, <1>9 DEF Retry, End, AfterDuplicate, Timed, InTransaction, Results
  <2> QED
    BY <1>3, <1>9, <2>1 DEF Retry, End
<1>10. ASSUME NEW a \in Attempts, Record(a) \/ Clear(a) \/ Fail(a)
       PROVE  InTime'
  <2>1. \E step \in {"unavailable", "rejected", "authenticated"} : pc' = [pc EXCEPT ![a] = step]
    BY <1>10 DEF Record, Clear, Fail, End
  <2> QED
    BY <1>7, <1>10, <2>1 DEF Record, Clear, Fail, Results
<1>11. CASE UNCHANGED vars
  BY <1>1, <1>11 DEF vars, InTime, Timed, InTransaction
<1> QED
  BY <1>2, <1>4, <1>5, <1>6, <1>8, <1>9, <1>10, <1>11 DEF Next

\* What a Record of another attempt does to the portal's row, and who cannot be at it.
LEMMA OthersRecord ==
  ASSUME IInv, InTime, [Next]_vars, NEW x \in Attempts, Record(x)
  PROVE  PortalSince(clock - Lag)'
<1>1. /\ Portal \in mine[x] /\ clock <= now[x] + Lag /\ pc[x] = "write" /\ ~Duplicate(x)
      /\ now[x] \in Nat /\ clock \in Nat /\ clock' = clock
  BY DEF Record, InTime, Timed, InTransaction, IInv, Typed
<1> DEFINE stored == [c \in Buckets |-> IF c \in Target(x) THEN Failure(x, c, now[x]) ELSE rows[c]]
<1>2. Purge(x, stored)
  BY DEF Record
<1>3. Portal \in Buckets /\ stored[Portal] = Failure(x, Portal, now[x])
  BY <1>1 DEF Target, Buckets
<1>4. stored[Portal].at = now[x] /\ stored[Portal] # NoRow
  BY <1>3 DEF Failure, Who, NoRow
<1>5. Portal \notin Expired(stored)
  BY <1>1, <1>4, TimesNat DEF Expired
<1>6. rows'[Portal] = stored[Portal]
  BY <1>2, <1>3, <1>5 DEF Purge, Oldest
<1> HIDE DEF stored
<1> QED
  BY <1>1, <1>4, <1>6, TimesNat DEF PortalSince, Exists

\* The portal's row gets younger only, until it expires.
LEMMA PortalStays ==
  ASSUME IInv, [Next]_vars, NEW t \in Int, PortalSince(t), clock <= t + Retention
  PROVE  PortalSince(t)'
<1>1. Portal \in Buckets \ Accounts /\ Exists(Portal) /\ rows[Portal] \in Rows /\ clock \in Nat
  BY PortalAssumption DEF Buckets, PortalSince, IInv, Typed
<1>2. CASE rows'[Portal] = rows[Portal]
  BY <1>2 DEF PortalSince, Exists
<1>3. rows'[Portal] # NoRow
  BY <1>1, RowGone, TimesNat DEF PortalSince, Rows
<1>4. ASSUME NEW x \in Attempts, Record(x), Portal \in mine[x],
             rows'[Portal] = Failure(x, Portal, now[x])
      PROVE  PortalSince(t)'
  <2>1. Portal \in held[x] /\ rows'[Portal].at = now[x] /\ now[x] \in Nat
    BY <1>1, <1>4, FailureCounts DEF Record, IInv, Typed
  <2>2. rows[Portal].at <= now[x]
    BY <2>1 DEF IInv, HeldOpen, HoldsOpen
  <2> QED
    BY <1>1, <1>3, <2>1, <2>2 DEF PortalSince, Exists, Rows
<1> QED
  BY <1>1, <1>2, <1>3, <1>4, RowEffect

LEMMA NextPortalFound ==
  ASSUME IInv, InTime, \A c \in Attempts : PortalFound(c), [Next]_vars, NEW a \in Attempts
  PROVE  PortalFound(a)'
<1>1. /\ Timed(a) /\ PortalFound(a) /\ clock \in Nat /\ now[a] \in Nat /\ Lag \in Nat
      /\ pc \in [Attempts -> States] /\ held \in [Attempts -> SUBSET Buckets]
      /\ now[a] <= clock /\ 3 * Lag <= Retention /\ Retention \in Nat /\ mine[a] \subseteq Buckets
  BY TimesNat DEF IInv, Typed, InTime
\* Its own transaction meanwhile: others may insert rows, unless it holds the portal's.
<1>2. ASSUME pc[a] = "write", UNCHANGED <<pc[a], mine[a], now[a], held[a], a \in again>>
      PROVE  PortalFound(a)'
  <2>1. CASE Duplicate(a)
    <3>1. PortalSince(now[a] - Lag)' /\ a \notin again
      BY <1>1, <1>2, <2>1, PortalStays DEF PortalFound, Timed, InTransaction
    <3> QED
      BY <1>2, <3>1 DEF PortalFound, PortalSince, Exists
  <2>2. CASE ~Duplicate(a) /\ ~Duplicate(a)'
    BY <1>1, <1>2, <2>2 DEF PortalFound
  <2>3. CASE ~Duplicate(a) /\ Duplicate(a)'
    <3> PICK b \in mine[a] \ held[a] : ~Exists(b) /\ Exists(b)'
      BY <1>2, <2>3 DEF Duplicate, Target
    <3>1. rows'[b] # rows[b] /\ rows'[b] # NoRow /\ b \in Buckets
      BY <1>1 DEF Exists
    <3> PICK x \in Attempts : Record(x)
      BY <3>1, RowEffect
    <3>2. PortalSince(clock - Lag)'
      BY OthersRecord
    <3>3. x # a
      BY <1>1, <1>2 DEF Record, End
    <3>4. a \notin again
      <4>1. Portal \in mine[x] /\ ~Duplicate(x)
        BY DEF Record, InTime, Timed
      <4>2. Portal \in held[a] => Exists(Portal)
        BY DEF IInv, HeldOpen, HoldsOpen
      <4>3. Portal \in held[a] => Portal \in held[x]
        BY <4>1, <4>2 DEF Duplicate, Target
      <4> QED
        BY <1>1, <1>2, <3>3, <4>3 DEF PortalFound, IInv, HeldApart
    <3>5. clock' = clock
      BY DEF Record
    <3>6. rows'[Portal].at \in Nat
      BY NextTyped DEF Typed, Rows, Buckets
    <3>7. PortalSince(now[a] - Lag)'
      BY <1>1, <1>2, <3>2, <3>5, <3>6 DEF PortalSince, Exists
    <3> QED
      BY <1>2, <3>4, <3>7 DEF PortalFound
  <2> QED
    BY <2>1, <2>2, <2>3
<1>3. ASSUME pc[a] = "record", UNCHANGED <<pc[a], now[a], a \in again>>
      PROVE  PortalFound(a)'
  <2>1. a \in again => PortalSince(now[a] - 2 * Lag)'
    BY <1>1, <1>3, PortalStays DEF PortalFound, Timed, InTransaction
  <2> QED
    BY <1>3, <2>1 DEF PortalFound, PortalSince, Exists
<1>4. ASSUME pc'[a] \notin {"record", "write"}
      PROVE  PortalFound(a)'
  BY <1>4 DEF PortalFound
<1>5. ASSUME UNCHANGED <<pc[a], mine[a], now[a], held[a], a \in again>>
      PROVE  PortalFound(a)'
  BY <1>2, <1>3, <1>4, <1>5
\* Its own steps.
<1>6. CASE Verify(a)
  BY <1>1, <1>6 DEF Verify, PortalFound, Timed, Results
<1>7. CASE Retry(a)
  <2>1. /\ PortalSince(now[a] - Lag) /\ now'[a] = clock /\ clock <= now[a] + Lag
        /\ pc'[a] \in {"unavailable", "record"} /\ rows' = rows
    BY <1>1, <1>7 DEF Retry, End, AfterDuplicate, PortalFound, Timed, InTransaction, IInv, Typed
  <2>2. rows[Portal].at \in Nat
    BY DEF IInv, Typed, Buckets, Rows
  <2>3. PortalSince(now[a] - 2 * Lag)'
    BY <1>1, <2>1, <2>2 DEF PortalSince, Exists
  <2> QED
    BY <2>1, <2>3 DEF PortalFound
<1>8. CASE SelectRows(a)
  <2>1. CASE pc'[a] \in {"unavailable", "rejected"}
    BY <1>4, <2>1
  <2>2. CASE /\ pc'[a] = "write" /\ held' = [held EXCEPT ![a] = {b \in mine[a] : Exists(b)}]
             /\ UNCHANGED <<rows, mine, again>>
    <3>1. ~Duplicate(a)'
      BY <1>1, <2>2 DEF Duplicate, Target, Exists
    <3>2. a \in again => Portal \in held'[a]
      <4>1. pc[a] = "record" /\ Portal \in mine[a]
        BY <1>1, <1>8 DEF SelectRows, Timed
      <4> QED
        BY <1>1, <2>2, <4>1 DEF PortalFound, PortalSince
    <3> QED
      BY <2>2, <3>1, <3>2 DEF PortalFound
  <2> QED
    BY <1>1, <1>8, <2>1, <2>2 DEF SelectRows, End
<1>9. CASE Check(a) \/ Record(a) \/ Clear(a) \/ Fail(a)
  BY <1>1, <1>4, <1>9 DEF Check, Record, Clear, Fail, End
<1>10. CASE \E account \in Accounts, network \in Networks \cup {None} : Begin(a, account, network)
  BY <1>1, <1>4, <1>10 DEF Begin
<1>11. CASE Tick \/ UNCHANGED vars
  BY <1>5, <1>11 DEF Tick, vars
<1>12. ASSUME NEW c \in Attempts \ {a},
              \/ \E account \in Accounts, network \in Networks \cup {None} :
                   Begin(c, account, network)
              \/ Check(c) \/ Verify(c) \/ SelectRows(c) \/ Retry(c) \/ Record(c)
              \/ Clear(c) \/ Fail(c)
       PROVE  PortalFound(a)'
  <2>1. UNCHANGED <<pc[a], mine[a], now[a], held[a], a \in again>>
    BY <1>12 DEF IInv, Typed, Begin, Check, Verify, SelectRows, Retry, Record, Clear, Fail, End
  <2> QED
    BY <1>5, <2>1
<1> QED
  BY <1>6, <1>7, <1>8, <1>9, <1>10, <1>11, <1>12 DEF Next

LEMMA EInvHolds == Spec => []EInv
<1>1. Init => EInv
  <2> SUFFICES ASSUME Init PROVE EInv
    OBVIOUS
  <2>1. RowsDated /\ CountedEverywhere
    BY DEF Init, RowsDated, CountedEverywhere, Exists, NoRow
  <2>2. InTime
    BY TimesNat DEF Init, InTime, Timed, InTransaction, Results
  <2>3. \A a \in Attempts : PortalFound(a)
    BY DEF Init, PortalFound
  <2> QED
    BY <2>1, <2>2, <2>3 DEF EInv
<1>2. IInv /\ EInv /\ [Next]_vars => EInv'
  <2> SUFFICES ASSUME IInv, EInv, [Next]_vars PROVE EInv'
    OBVIOUS
  <2>1. \A a \in Attempts : PortalFound(a)'
    BY NextPortalFound DEF EInv
  <2> QED
    BY <2>1, NextRowsDated, NextCountedEverywhere, NextInTime DEF EInv
<1> QED
  BY <1>1, <1>2, IInvHolds, PTL DEF Spec

\* What holds of the throttle's rows at every instant: no row ever fails its validation,
\* a failure is counted in all buckets of its attempt or in none (recordFailure is one
\* transaction), and the two tries of recordFailure suffice.
THEOREM EvidenceSoundHolds == Spec => []EvidenceSound
<1>1. EInv => CountedEverywhere /\ TwoTriesSuffice
  BY DEF EInv, InTime, PortalFound, TwoTriesSuffice
<1> QED
  BY <1>1, EInvHolds, RowsStayValidHolds, PTL DEF EvidenceSound

-----------------------------------------------------------------------------
(* Accounts: the inductive invariant.                                      *)

Secrets == Passwords \cup {None}
UserRows == [role : {"none", "owner", "member"}, status : {"active", "disabled"},
             password : Secrets, version : Nat]
Logins == [step : {"read", "count", "compare", "initialize", "insert"}, password : Secrets,
           account : UserRows, first : BOOLEAN, retried : BOOLEAN]
Sessions == [email : Accounts \cup {None}, version : Nat, password : Secrets]
Changes == [step : {"idle", "authenticated", "insert", "hashed"}, session : Sessions,
            before : UserRows, password : Secrets]

AccountsTyped ==
  /\ focus = "accounts" => admin \in Accounts
  /\ user \in [Accounts -> UserRows]
  /\ login \in [Attempts -> Logins]
  /\ sessions \subseteq Sessions
  /\ change \in [Workers -> Changes]

\* A row that was read of account e, now or before.
Past(e, row) ==
  row # NoUser => /\ user[e] # NoUser
                  /\ row.version <= user[e].version
                  /\ row.version = user[e].version => row = user[e]

\* A session names a version that its account has or had, and the password of it.
Proved(s) ==
  s # Legacy => /\ s.email \in Accounts
                /\ user[s.email] # NoUser
                /\ s.version <= user[s.email].version
                /\ s.version = user[s.email].version => s.password = user[s.email].password

\* What a login has read, and what it has compared it with.
LoginSound(a) ==
  LET l == login[a] IN
  /\ pc[a] = "idle" => l.account = NoUser /\ l.step = "read"
  /\ pc[a] # "idle" => Past(AccountOf(a), l.account)
  /\ l.step \in {"initialize", "insert"} => AccountOf(a) = admin /\ l.password = AdminPassword
  /\ pc[a] = "clear" => l.account # NoUser /\ l.account.password = l.password

ChangeSound(w) ==
  LET c == change[w] IN
  /\ Proved(c.session)
  /\ c.step = "hashed" =>
       /\ c.session # Legacy
       /\ Past(c.session.email, c.before)
       /\ c.before # NoUser /\ c.before.version = c.session.version

AccountsInv ==
  /\ AccountsTyped
  /\ \A s \in sessions : Proved(s)
  /\ focus = "accounts" => \A a \in Attempts : LoginSound(a)
  /\ \A w \in Workers : ChangeSound(w)
  /\ \A e \in Accounts : user[e].role = "owner" => user[e].status = "active"

-----------------------------------------------------------------------------
(* The throttle under the accounts.                                        *)

LEMMA StepsOfTheThrottle == AccountsNext => [Next]_vars
<1> SUFFICES ASSUME AccountsNext PROVE [Next]_vars
  OBVIOUS
<1>1. ASSUME NEW a \in Attempts, LoginApi(a)
      PROVE  [Next]_vars
  <2>1. CASE \E e \in Accounts, p \in Passwords : BeginLogin(a, e, p)
    BY <2>1 DEF BeginLogin, Next
  <2>2. CASE ReadAccount(a) \/ CountAccounts(a) \/ BootstrapCount(a)
    BY <2>2 DEF ReadAccount, CountAccounts, BootstrapCount, Again, Now
  <2>3. CASE CompareFirst(a) \/ Compare(a) \/ BootstrapInsert(a) \/ VerifyFails(a)
    BY <2>3 DEF CompareFirst, Compare, BootstrapInsert, VerifyFails, Again, Now, Verified, Next
  <2>4. CASE LoginEnds(a)
    BY <2>4 DEF LoginEnds, Next
  <2>5. CASE Check(a) \/ SelectRows(a) \/ Retry(a) \/ Record(a) \/ Fail(a)
    BY <2>5 DEF Next
  <2> QED
    BY <1>1, <2>1, <2>2, <2>3, <2>4, <2>5 DEF LoginApi
<1>2. ASSUME NEW w \in Workers,
             (\E s \in sessions : Authenticate(w, s)) \/ PasswordApi(w) \/ UsersApi(w)
             \/ UserApi(w) \/ RequestFails(w)
      PROVE  UNCHANGED vars
  BY <1>2 DEF Authenticate, PasswordApi, UsersApi, UserApi, RequestFails, InitializeCount,
              InitializeInsert, ReadBefore, CommitPassword, CreateManagedUser, UpdateManagedUser,
              Done, Set
<1> QED
  BY <1>1, <1>2 DEF AccountsNext

\* Accounts implements the throttle that it is built on.
THEOREM ImplementsThrottle == AccountsSpec => Spec
<1>1. AccountsInit => Init
  BY DEF AccountsInit
<1>2. [AccountsNext]_accountVars => [Next]_vars
  BY StepsOfTheThrottle DEF accountVars
<1> QED
  BY <1>1, <1>2, PTL DEF AccountsSpec, Spec

\* No credential is verified while a bucket of the login is blocked, and a success
\* erases no later evidence, also when logins meet changes of accounts.
THEOREM LoginEvidenceRespected == AccountsSpec => EvidenceRespected
BY ImplementsThrottle, EvidenceRespectedHolds, PTL

-----------------------------------------------------------------------------
(* What a step does to accounts.                                           *)

LEMMA NoUserTyped == NoUser \in UserRows
BY DEF NoUser, UserRows, Secrets

LEMMA NewUserTyped ==
  ASSUME NEW role \in {"owner", "member"}, NEW p \in Passwords
  PROVE  /\ User(role, p) \in UserRows /\ User(role, p) # NoUser
         /\ User(role, p).version = 1 /\ User(role, p).password = p
         /\ User(role, p).status = "active"
BY DEF User, UserRows, Secrets, NoUser

\* updateUserAccountPassword and updateManagedUserAccount leave the other columns.
PasswordSet(row, p, v) == [row EXCEPT !.password = p, !.version = v]
StatusSet(row, status, v) == [row EXCEPT !.status = status, !.version = v]

LEMMA PasswordSetTyped ==
  ASSUME NEW row \in UserRows, NEW p \in Secrets, NEW v \in Nat
  PROVE  /\ PasswordSet(row, p, v) \in UserRows
         /\ PasswordSet(row, p, v).version = v /\ PasswordSet(row, p, v).password = p
         /\ PasswordSet(row, p, v).role = row.role /\ PasswordSet(row, p, v).status = row.status
BY DEF UserRows, PasswordSet

LEMMA StatusSetTyped ==
  ASSUME NEW row \in UserRows, NEW status \in {"active", "disabled"}, NEW v \in Nat
  PROVE  /\ StatusSet(row, status, v) \in UserRows
         /\ StatusSet(row, status, v).version = v
         /\ StatusSet(row, status, v).role = row.role
         /\ StatusSet(row, status, v).password = row.password
BY DEF UserRows, StatusSet

\* An account begins, or changes with a version of its own.
OwnVersion(e) ==
  \/ user'[e] = user[e]
  \/ user[e] = NoUser /\ user'[e].version = 1
  \/ user[e] # NoUser /\ user'[e].version = user[e].version + 1

OwnersActive == \A e \in Accounts : user[e].role = "owner" => user[e].status = "active"

LEMMA PastKept ==
  ASSUME NEW e \in Accounts, user[e] \in UserRows, OwnVersion(e),
         NEW row \in UserRows, Past(e, row)
  PROVE  Past(e, row)'
<1>1. user[e].version \in Nat /\ row.version \in Nat
  BY DEF UserRows
<1>2. user[e] # NoUser => user'[e] # NoUser
  BY <1>1 DEF OwnVersion, NoUser
<1> QED
  BY <1>1, <1>2 DEF OwnVersion, Past

LEMMA ProvedKept ==
  ASSUME \A e \in Accounts : user[e] \in UserRows /\ OwnVersion(e),
         NEW s \in Sessions, Proved(s)
  PROVE  Proved(s)'
<1> SUFFICES ASSUME s # Legacy PROVE Proved(s)'
  BY DEF Proved
<1>1. s.email \in Accounts /\ user[s.email].version \in Nat /\ s.version \in Nat
  BY DEF UserRows, Sessions, Proved
<1>2. user[s.email] # NoUser => user'[s.email] # NoUser
  BY <1>1 DEF OwnVersion, NoUser
<1> QED
  BY <1>1, <1>2 DEF OwnVersion, Proved

\* Each of the statements that write an account.
LEMMA UserSteps ==
  ASSUME AccountsInv, AccountsNext
  PROVE  \/ UNCHANGED user
         \/ /\ focus = "accounts"
            /\ \/ \E a \in Attempts : BootstrapInsert(a) /\ EmailFree(admin)
               \/ \E w \in Workers : InitializeInsert(w) /\ EmailFree(admin)
               \/ \E w \in Workers : CommitPassword(w) /\ Unchanged(user[change[w].session.email], change[w].before)
               \/ \E w \in Workers, e \in Accounts, p \in Passwords : CreateManagedUser(w, e, p)
               \/ \E w \in Workers, e \in Accounts, status \in {"active", "disabled"} :
                    UpdateManagedUser(w, e, status)
<1>1. ASSUME NEW a \in Attempts, LoginApi(a), ~UNCHANGED user
      PROVE  BootstrapInsert(a) /\ EmailFree(admin)
  BY <1>1 DEF LoginApi, BeginLogin, ReadAccount, CountAccounts, CompareFirst, Compare, BootstrapCount,
              BootstrapInsert, VerifyFails, LoginEnds, Again, Now
<1>2. ASSUME NEW w \in Workers, ~UNCHANGED user,
             (\E s \in sessions : Authenticate(w, s)) \/ PasswordApi(w) \/ RequestFails(w)
      PROVE  \/ InitializeInsert(w) /\ EmailFree(admin)
             \/ CommitPassword(w) /\ Unchanged(user[change[w].session.email], change[w].before)
  BY <1>2 DEF Authenticate, PasswordApi, RequestFails, InitializeCount, InitializeInsert, ReadBefore,
              CommitPassword, Done, Set
<1> QED
  BY <1>1, <1>2 DEF AccountsNext, UsersApi, UserApi

LEMMA NextUser ==
  ASSUME AccountsInv, [AccountsNext]_accountVars
  PROVE  /\ user' \in [Accounts -> UserRows]
         /\ \A e \in Accounts : OwnVersion(e)
         /\ OwnersActive'
<1> USE DEF AccountsInv, AccountsTyped
<1>1. CASE UNCHANGED user
  BY <1>1 DEF OwnVersion, OwnersActive
<1>2. ASSUME NEW e \in Accounts, NEW row \in UserRows, user' = [user EXCEPT ![e] = row],
             \/ user[e] = NoUser /\ row.version = 1
             \/ user[e] # NoUser /\ row.version = user[e].version + 1,
             row.role = "owner" => row.status = "active"
      PROVE  /\ user' \in [Accounts -> UserRows]
             /\ \A f \in Accounts : OwnVersion(f)
             /\ OwnersActive'
  BY <1>2 DEF OwnVersion, OwnersActive
<1>3. CASE focus = "accounts" /\ \E a \in Attempts : BootstrapInsert(a) /\ EmailFree(admin)
  BY <1>2, <1>3, NewUserTyped, AdminAssumption DEF BootstrapInsert, EmailFree
<1>4. CASE focus = "accounts" /\ \E w \in Workers : InitializeInsert(w) /\ EmailFree(admin)
  <2> PICK w \in Workers : InitializeInsert(w) /\ EmailFree(admin)
    BY <1>4
  <2>1. user' = [user EXCEPT ![admin] = User("owner", change[w].password)]
        /\ change[w].password \in Secrets /\ admin \in Accounts
    BY <1>4 DEF InitializeInsert, Changes
  <2>2. User("owner", change[w].password) \in UserRows
        /\ User("owner", change[w].password).version = 1
        /\ User("owner", change[w].password).status = "active"
    BY <2>1 DEF User, UserRows, Secrets
  <2> QED
    BY <1>2, <2>1, <2>2 DEF EmailFree
<1>5. CASE focus = "accounts" /\ \E w \in Workers : CommitPassword(w) /\ Unchanged(user[change[w].session.email], change[w].before)
  <2> PICK w \in Workers : CommitPassword(w) /\ Unchanged(user[change[w].session.email], change[w].before)
    BY <1>5
  <2> DEFINE e == change[w].session.email
             row == PasswordSet(user[e], change[w].password, change[w].before.version + 1)
  <2>1. ChangeSound(w) /\ change[w].step = "hashed" /\ change[w] \in Changes
    BY DEF CommitPassword, AtChange
  <2>2. e \in Accounts /\ user[e] = change[w].before /\ user[e] # NoUser /\ user[e] \in UserRows
        /\ change[w].password \in Secrets
    BY <2>1 DEF ChangeSound, Proved, Past, Unchanged, Changes
  <2>3. user' = [user EXCEPT ![e] = row]
    BY <2>2 DEF CommitPassword, PasswordSet
  <2>4. row \in UserRows /\ row.version = user[e].version + 1 /\ row.role = user[e].role
        /\ row.status = user[e].status
    <3> HIDE DEF AccountsInv, AccountsTyped
    <3> PICK old \in UserRows, p \in Secrets : old = user[e] /\ p = change[w].password
      BY <2>2
    <3>1. old.version + 1 \in Nat /\ row = PasswordSet(old, p, old.version + 1)
      BY <2>2 DEF UserRows
    <3> QED
      BY <3>1, PasswordSetTyped
  <2> QED
    BY <1>2, <2>2, <2>3, <2>4
<1>6. CASE \E w \in Workers, e \in Accounts, p \in Passwords : CreateManagedUser(w, e, p)
  BY <1>2, <1>6, NewUserTyped DEF CreateManagedUser, EmailFree
<1>7. ASSUME NEW w \in Workers, NEW e \in Accounts, NEW status \in {"active", "disabled"},
             UpdateManagedUser(w, e, status)
      PROVE  /\ user' \in [Accounts -> UserRows]
             /\ \A f \in Accounts : OwnVersion(f)
             /\ OwnersActive'
  <2> DEFINE row == StatusSet(user[e], status, user[e].version + 1)
  <2>1. user' = [user EXCEPT ![e] = row] /\ user[e].role = "member" /\ user[e] \in UserRows
        /\ user[e] # NoUser
    BY <1>7 DEF UpdateManagedUser, NextVersion, StatusSet, NoUser, UserRows
  <2>2. row \in UserRows /\ row.version = user[e].version + 1 /\ row.role = "member"
    <3> HIDE DEF AccountsInv, AccountsTyped
    <3> PICK old \in UserRows : old = user[e]
      BY <2>1
    <3>1. old.version + 1 \in Nat /\ row = StatusSet(old, status, old.version + 1)
      BY DEF UserRows
    <3> QED
      BY <2>1, <3>1, StatusSetTyped
  <2> QED
    BY <1>2, <2>1, <2>2
<1> QED
  BY <1>1, <1>3, <1>4, <1>5, <1>6, <1>7, UserSteps DEF accountVars

-----------------------------------------------------------------------------
(* Every step preserves the invariant: logins.                             *)

\* A login moves by its own steps only.
LEMMA OtherLoginsStay ==
  ASSUME AccountsInv, IInv, NEW a \in Attempts, LoginApi(a), NEW c \in Attempts \ {a}
  PROVE  login'[c] = login[c] /\ pc'[c] = pc[c] /\ mine'[c] = mine[c]
<1> USE DEF AccountsInv, AccountsTyped, IInv, Typed
<1>1. CASE \E e \in Accounts, p \in Passwords : BeginLogin(a, e, p)
  BY <1>1 DEF BeginLogin, Begin
<1>2. CASE ReadAccount(a) \/ CountAccounts(a) \/ BootstrapCount(a)
  BY <1>2 DEF ReadAccount, CountAccounts, BootstrapCount, Again, Now, vars
<1>3. CASE CompareFirst(a) \/ Compare(a) \/ BootstrapInsert(a) \/ VerifyFails(a)
  BY <1>3 DEF CompareFirst, Compare, BootstrapInsert, VerifyFails, Again, Now, Verified, Verify, vars
<1>4. CASE LoginEnds(a)
  BY <1>4 DEF LoginEnds, Clear, End
<1>5. CASE Check(a) \/ SelectRows(a) \/ Retry(a) \/ Record(a) \/ Fail(a)
  BY <1>5 DEF LoginApi, Check, SelectRows, Retry, Record, Fail, End, BeginLogin, Begin, ReadAccount,
              CountAccounts, BootstrapCount, CompareFirst, Compare, BootstrapInsert, VerifyFails,
              LoginEnds, Clear, Again, Now, Verified, Verify, vars
<1> QED
  BY <1>1, <1>2, <1>3, <1>4, <1>5 DEF LoginApi

\* What a login was sound about stays so as long as it goes by what it has read.
LEMMA LoginKept ==
  ASSUME AccountsInv, IInv, [AccountsNext]_accountVars, focus = "accounts", NEW a \in Attempts,
         mine'[a] = mine[a], admin' = admin, login'[a] = login[a],
         pc'[a] = pc[a] \/ (pc[a] # "idle" /\ pc'[a] \notin {"idle", "clear"})
  PROVE  LoginSound(a)'
<1>1. LoginSound(a) /\ login[a].account \in UserRows
  BY DEF AccountsInv, AccountsTyped, Logins
<1>2. AccountOf(a)' = AccountOf(a)
  BY DEF AccountOf
<1>3. pc[a] # "idle" => Past(AccountOf(a), login[a].account)'
  <2> SUFFICES ASSUME pc[a] # "idle"
               PROVE  Past(AccountOf(a), login[a].account)'
    OBVIOUS
  <2> PICK e \in Accounts, row \in UserRows : e = AccountOf(a) /\ row = login[a].account
    <3>1. AccountOf(a) \in Accounts
      BY DEF AccountOf, IInv, Typed
    <3> QED
      BY <1>1, <3>1
  <2>1. Past(e, row) /\ user[e] \in UserRows /\ OwnVersion(e)
    BY <1>1, NextUser DEF LoginSound, AccountsInv, AccountsTyped
  <2>2. Past(e, row)'
    BY <2>1, PastKept
  <2> QED
    BY <1>2, <2>2 DEF Past
<1> QED
  BY <1>1, <1>2, <1>3 DEF LoginSound

LEMMA NextLogin ==
  ASSUME AccountsInv, IInv, [AccountsNext]_accountVars
  PROVE  /\ login' \in [Attempts -> Logins]
         /\ focus' = focus /\ admin' = admin
         /\ focus = "accounts" => \A a \in Attempts : LoginSound(a)'
<1>1. /\ login \in [Attempts -> Logins] /\ user \in [Accounts -> UserRows]
      /\ \A a \in Attempts : pc[a] # "idle" => AccountOf(a) \in Accounts
      /\ pc \in [Attempts -> States]
  BY DEF AccountsInv, AccountsTyped, AccountOf, IInv, Typed
<1>2. CASE UNCHANGED accountVars
  BY <1>1, <1>2, LoginKept DEF accountVars, vars
<1>3. CASE focus = "throttle" /\ UNCHANGED <<focus, admin, user, login, sessions, change>>
  BY <1>1, <1>3
<1>4. ASSUME NEW w \in Workers, AccountsNext,
             (\E s \in sessions : Authenticate(w, s)) \/ PasswordApi(w) \/ UsersApi(w)
             \/ UserApi(w) \/ RequestFails(w)
      PROVE  UNCHANGED <<vars, login, focus, admin>>
  BY <1>4 DEF Authenticate, PasswordApi, UsersApi, UserApi, RequestFails, InitializeCount,
              InitializeInsert, ReadBefore, CommitPassword, CreateManagedUser, UpdateManagedUser,
              Done, Set
<1>5. ASSUME UNCHANGED <<vars, login, focus, admin>>
      PROVE  /\ login' \in [Attempts -> Logins]
             /\ focus' = focus /\ admin' = admin
             /\ focus = "accounts" => \A a \in Attempts : LoginSound(a)'
  BY <1>1, <1>5, LoginKept DEF vars
<1>6. ASSUME NEW a \in Attempts, LoginApi(a), focus = "accounts"
      PROVE  /\ login' \in [Attempts -> Logins]
             /\ focus' = focus /\ admin' = admin
             /\ LoginSound(a)'
  <2>1. LoginSound(a) /\ login[a] \in Logins /\ admin \in Accounts
    BY <1>1, <1>6 DEF AccountsInv, AccountsTyped
  <2> DEFINE l == login[a]
  <2>2. ASSUME NEW new \in Logins, login' = [login EXCEPT ![a] = new], pc[a] = "verify",
               UNCHANGED <<vars, focus, admin, user>>,
               new.account = l.account \/ new.account = user[AccountOf(a)],
               new.step \in {"initialize", "insert"} =>
                 AccountOf(a) = admin /\ new.password = AdminPassword
        PROVE  /\ login' \in [Attempts -> Logins]
               /\ focus' = focus /\ admin' = admin
               /\ LoginSound(a)'
    <3>1. login'[a] = new /\ AccountOf(a)' = AccountOf(a) /\ pc'[a] = "verify"
      BY <1>1, <2>2 DEF AccountOf, vars
    <3>2. Past(AccountOf(a), new.account)
      <4>1. Past(AccountOf(a), l.account)
        BY <2>1, <2>2 DEF LoginSound
      <4>2. user[AccountOf(a)].version \in Nat
        BY <1>1, <2>2 DEF UserRows
      <4>3. Past(AccountOf(a), user[AccountOf(a)])
        BY <4>2 DEF Past
      <4> QED
        BY <2>2, <4>1, <4>3
    <3>3. Past(AccountOf(a), login[a].account)'
      BY <2>2, <3>1, <3>2 DEF Past
    <3> QED
      BY <1>1, <2>2, <3>1, <3>3 DEF LoginSound
  <2>3. CASE \E e \in Accounts, p \in Passwords : BeginLogin(a, e, p)
    <3> PICK p \in Passwords : login' = [login EXCEPT ![a].password = p] /\ pc[a] = "idle"
                               /\ pc'[a] = "check" /\ UNCHANGED <<focus, admin>>
      BY <1>1, <2>3 DEF BeginLogin, Begin
    <3>1. login'[a].account = NoUser /\ login'[a].step = "read" /\ login'[a] \in Logins
      BY <1>1, <2>1 DEF LoginSound, Logins, Secrets
    <3> QED
      BY <1>1, <3>1 DEF LoginSound, Past
  <2>4. CASE ReadAccount(a)
    <3> DEFINE new == [l EXCEPT !.account = user[AccountOf(a)],
                                !.step = IF l.retried THEN "compare" ELSE "count"]
    <3>1. user[AccountOf(a)] \in UserRows /\ pc[a] = "verify"
      BY <1>1, <2>4 DEF ReadAccount, AtLogin
    <3>2. new \in Logins /\ new.account = user[AccountOf(a)] /\ new.step \in {"compare", "count"}
      BY <2>1, <3>1 DEF Logins
    <3> QED
      BY <2>2, <2>4, <3>1, <3>2 DEF ReadAccount, Now
  <2>5. CASE CountAccounts(a)
    <3> DEFINE new == [l EXCEPT !.first = NoAccount, !.step = "compare"]
    <3>1. new \in Logins /\ new.account = l.account /\ new.step = "compare"
      BY <2>1 DEF Logins, NoAccount
    <3> QED
      BY <2>2, <2>5, <3>1 DEF CountAccounts, Now, AtLogin
  <2>6. ASSUME Again(a), pc[a] = "verify"
        PROVE  /\ login' \in [Attempts -> Logins]
               /\ focus' = focus /\ admin' = admin
               /\ LoginSound(a)'
    <3> DEFINE new == [l EXCEPT !.step = "read", !.first = FALSE, !.retried = TRUE]
    <3>1. new \in Logins /\ new.account = l.account /\ new.step = "read"
      BY <2>1 DEF Logins
    <3> QED
      BY <2>2, <2>6, <3>1 DEF Again, Now
  <2>7. ASSUME UNCHANGED <<login, focus, admin, user>>, mine' = mine,
               pc[a] # "idle", pc'[a] \notin {"idle", "clear"}
        PROVE  /\ login' \in [Attempts -> Logins]
               /\ focus' = focus /\ admin' = admin
               /\ LoginSound(a)'
    BY <1>1, <1>6, <2>7, LoginKept
  <2>8. CASE CompareFirst(a)
    <3>1. CASE AccountOf(a) = admin /\ l.password = AdminPassword
               /\ Now(a, [l EXCEPT !.step = "initialize"])
      <4> DEFINE new == [l EXCEPT !.step = "initialize"]
      <4>1. new \in Logins /\ new.account = l.account /\ new.password = l.password
        BY <2>1 DEF Logins
      <4> QED
        BY <2>2, <2>8, <3>1, <4>1 DEF CompareFirst, Now, AtLogin
    <3>2. CASE Verified(a, "record") /\ UNCHANGED <<user, login>>
      BY <2>7, <3>2 DEF Verified, Verify
    <3> QED
      BY <2>8, <3>1, <3>2 DEF CompareFirst
  <2>9. CASE Compare(a)
    <3>1. UNCHANGED <<login, focus, admin, user, mine>> /\ pc[a] = "verify"
          /\ pc'[a] = IF l.account.status = "active" /\ l.account.password = l.password
                      THEN "clear" ELSE "record"
      BY <2>9 DEF Compare, Verified, Verify
    <3>2. CASE l.account.status = "active" /\ l.account.password = l.password
      <4>1. l.account # NoUser
        BY <3>2 DEF NoUser
      <4>2. AccountOf(a)' = AccountOf(a)
        BY <3>1 DEF AccountOf
      <4>3. Past(AccountOf(a), login[a].account)'
        BY <2>1, <3>1, <4>2 DEF LoginSound, Past
      <4> QED
        BY <1>1, <2>1, <3>1, <3>2, <4>1, <4>2, <4>3 DEF LoginSound
    <3> QED
      BY <2>7, <3>1, <3>2
  <2>10. CASE BootstrapCount(a)
    <3> DEFINE new == [l EXCEPT !.step = "insert"]
    <3>1. new \in Logins /\ new.account = l.account /\ new.password = l.password
      BY <2>1 DEF Logins
    <3>2. l.step = "initialize" /\ pc[a] = "verify"
      BY <2>10 DEF BootstrapCount, AtLogin
    <3> QED
      BY <2>1, <2>2, <2>6, <2>10, <3>1, <3>2 DEF BootstrapCount, Now, LoginSound
  <2>11. CASE BootstrapInsert(a) /\ EmailFree(admin)
    <3>1. /\ user' = [user EXCEPT ![admin] = User("owner", AdminPassword)]
          /\ login' = [login EXCEPT ![a].account = User("owner", AdminPassword)]
          /\ UNCHANGED <<focus, admin, mine>> /\ pc'[a] = "clear"
          /\ l.step = "insert"
      BY <2>11 DEF BootstrapInsert, Verified, Verify, AtLogin
    <3> PICK row \in UserRows : row = User("owner", AdminPassword) /\ row # NoUser
                                /\ row.password = AdminPassword
      BY NewUserTyped, AdminAssumption
    <3>2. login'[a] \in Logins /\ login'[a].account = row /\ login'[a].password = l.password
          /\ login'[a].step = l.step
      <4> PICK old \in Logins : old = l
        BY <2>1
      <4>1. login'[a] = [old EXCEPT !.account = row] /\ login' = [login EXCEPT ![a] = login'[a]]
        BY <1>1, <3>1
      <4>2. [old EXCEPT !.account = row] \in Logins
            /\ [old EXCEPT !.account = row].account = row
            /\ [old EXCEPT !.account = row].password = old.password
            /\ [old EXCEPT !.account = row].step = old.step
        BY DEF Logins
      <4> QED
        BY <4>1, <4>2
    <3>3. AccountOf(a)' = AccountOf(a) /\ AccountOf(a) = admin /\ l.password = AdminPassword
      BY <2>1, <3>1 DEF AccountOf, LoginSound
    <3>4. user'[admin] = row
      BY <1>1, <2>1, <3>1
    <3>5. login' \in [Attempts -> Logins]
      BY <1>1, <3>1, <3>2
    <3>6. Past(AccountOf(a), login[a].account)'
      <4>1. row.version \in Nat
        BY DEF UserRows
      <4> QED
        BY <3>2, <3>3, <3>4, <4>1 DEF Past
    <3>7. pc'[a] = "clear"
      BY <1>1, <3>1
    <3> QED
      BY <3>1, <3>2, <3>3, <3>5, <3>6, <3>7 DEF LoginSound
  <2>12. CASE BootstrapInsert(a) /\ ~EmailFree(admin)
    BY <2>6, <2>12 DEF BootstrapInsert, AtLogin
  <2>13. CASE VerifyFails(a)
    BY <2>7, <2>13 DEF VerifyFails, Verified, Verify
  <2>14. CASE LoginEnds(a)
    BY <1>1, <2>7, <2>14 DEF LoginEnds, Clear, End
  <2>15. CASE /\ Check(a) \/ SelectRows(a) \/ Retry(a) \/ Record(a) \/ Fail(a)
              /\ UNCHANGED <<focus, admin, user, login, sessions, change>>
    BY <1>1, <2>7, <2>15 DEF Check, SelectRows, Retry, AfterDuplicate, Record, Fail, End
  <2> QED
    BY <1>6, <2>3, <2>4, <2>5, <2>8, <2>9, <2>10, <2>11, <2>12, <2>13, <2>14, <2>15 DEF LoginApi
<1>7. ASSUME NEW a \in Attempts, LoginApi(a), focus = "accounts"
      PROVE  /\ login' \in [Attempts -> Logins]
             /\ focus' = focus /\ admin' = admin
             /\ \A c \in Attempts : LoginSound(c)'
  BY <1>6, <1>7, OtherLoginsStay, LoginKept
<1> QED
  BY <1>2, <1>3, <1>4, <1>5, <1>7 DEF AccountsNext

-----------------------------------------------------------------------------
(* Every step preserves the invariant: sessions and changes.               *)

LEMMA SessionsKept ==
  ASSUME AccountsInv, [AccountsNext]_accountVars, NEW s \in Sessions, Proved(s)
  PROVE  Proved(s)'
BY NextUser, ProvedKept DEF AccountsInv, AccountsTyped

LEMMA NextSessions ==
  ASSUME AccountsInv, IInv, [AccountsNext]_accountVars
  PROVE  sessions' \subseteq Sessions /\ \A s \in sessions' : Proved(s)'
<1>1. /\ sessions \subseteq Sessions /\ \A s \in sessions : Proved(s)
      /\ user \in [Accounts -> UserRows] /\ change \in [Workers -> Changes]
      /\ login \in [Attempts -> Logins]
  BY DEF AccountsInv, AccountsTyped
<1>2. ASSUME sessions' = sessions
      PROVE  sessions' \subseteq Sessions /\ \A s \in sessions' : Proved(s)'
  BY <1>1, <1>2, SessionsKept
<1>3. ASSUME NEW s \in Sessions, sessions' = sessions \cup {s}, Proved(s)'
      PROVE  sessions' \subseteq Sessions /\ \A t \in sessions' : Proved(t)'
  BY <1>1, <1>3, SessionsKept
<1>4. ASSUME NEW a \in Attempts, LoginEnds(a), focus = "accounts"
      PROVE  sessions' \subseteq Sessions /\ \A t \in sessions' : Proved(t)'
  <2> DEFINE s == [email |-> AccountOf(a), version |-> SessionVersion(a),
                   password |-> login[a].password]
  <2>1. LoginSound(a) /\ pc[a] = "clear" /\ login[a] \in Logins
    BY <1>1, <1>4 DEF AccountsInv, LoginEnds, Clear
  <2>2. AccountOf(a) \in Accounts /\ login[a].account \in UserRows
    BY <2>1 DEF AccountOf, IInv, Typed, Logins
  <2>3. s \in Sessions
    BY <2>1, <2>2 DEF Sessions, SessionVersion, UserRows, Logins
  <2>4. Proved(s)
    BY <2>1, <2>2 DEF LoginSound, Past, Proved, SessionVersion
  <2>5. sessions' = sessions \/ sessions' = sessions \cup {s}
    BY <1>4 DEF LoginEnds
  <2> HIDE DEF s
  <2> QED
    BY <1>2, <1>3, <2>3, <2>4, <2>5, SessionsKept
<1>5. ASSUME NEW w \in Workers, InitializeInsert(w), EmailFree(admin), focus = "accounts"
      PROVE  sessions' \subseteq Sessions /\ \A t \in sessions' : Proved(t)'
  <2> PICK p \in Secrets : p = change[w].password
    BY <1>1 DEF Changes
  <2> PICK e \in Accounts : e = admin
    BY <1>5 DEF AccountsInv, AccountsTyped
  <2> DEFINE s == [email |-> e, version |-> 1, password |-> p]
  <2>1. user' = [user EXCEPT ![e] = User("owner", p)] /\ sessions' = sessions \cup {s}
    BY <1>5 DEF InitializeInsert
  <2>2. user'[e] = User("owner", p) /\ user'[e].version = 1 /\ user'[e].password = p
        /\ user'[e] # NoUser
    BY <1>1, <2>1 DEF User, NoUser
  <2>3. s \in Sessions /\ Proved(s)'
    BY <2>1, <2>2 DEF Sessions, Proved
  <2> HIDE DEF s
  <2> QED
    BY <1>3, <2>1, <2>3
<1>6. ASSUME NEW w \in Workers, CommitPassword(w),
             Unchanged(user[change[w].session.email], change[w].before)
      PROVE  sessions' \subseteq Sessions /\ \A t \in sessions' : Proved(t)'
  <2>1. ChangeSound(w) /\ change[w].step = "hashed" /\ change[w] \in Changes
    BY <1>1, <1>6 DEF AccountsInv, CommitPassword, AtChange
  <2> PICK e \in Accounts, p \in Secrets, old \in UserRows :
             e = change[w].session.email /\ p = change[w].password /\ old = user[e]
             /\ old = change[w].before
    BY <1>1, <1>6, <2>1 DEF ChangeSound, Proved, Past, Unchanged, Changes
  <2> DEFINE s == [email |-> e, version |-> old.version + 1, password |-> p]
  <2>2. sessions' = sessions \cup {s} /\ user' = [user EXCEPT ![e] = PasswordSet(old, p, old.version + 1)]
    BY <1>6 DEF CommitPassword, PasswordSet
  <2>3. old.version \in Nat /\ old.version + 1 # 0 /\ old.version + 1 \in Nat
    BY DEF UserRows
  <2>4. user'[e].version = old.version + 1 /\ user'[e].password = p /\ user'[e] # NoUser
    <3>1. user'[e] = PasswordSet(old, p, old.version + 1)
      BY <1>1, <2>2
    <3>2. user'[e].version = old.version + 1 /\ user'[e].password = p
      <4>1. PICK v \in Nat : v = old.version + 1
        BY <2>3
      <4>2. PasswordSet(old, p, v).version = v /\ PasswordSet(old, p, v).password = p
        BY PasswordSetTyped
      <4> QED
        BY ONLY <3>1, <4>1, <4>2
    <3>3. NoUser.version = 0
      BY DEF NoUser
    <3>4. user'[e] # NoUser
      BY ONLY <2>3, <3>2, <3>3
    <3> QED
      BY ONLY <3>2, <3>4
  <2>5. s \in Sessions /\ Proved(s)'
    BY <2>3, <2>4 DEF Sessions, Proved
  <2> HIDE DEF s
  <2> QED
    BY <1>3, <2>2, <2>5
<1>7. CASE UNCHANGED accountVars
  BY <1>2, <1>7 DEF accountVars
<1>8. ASSUME NEW a \in Attempts, LoginApi(a), ~LoginEnds(a)
      PROVE  sessions' = sessions
  BY <1>8 DEF LoginApi, BeginLogin, ReadAccount, CountAccounts, CompareFirst, Compare, BootstrapCount,
              BootstrapInsert, VerifyFails, Again, Now, Verified
<1>9. ASSUME NEW w \in Workers,
             ~(InitializeInsert(w) /\ EmailFree(admin)),
             ~(CommitPassword(w) /\ Unchanged(user[change[w].session.email], change[w].before)),
             \/ \E s \in sessions : Authenticate(w, s)
             \/ PasswordApi(w) \/ UsersApi(w) \/ UserApi(w) \/ RequestFails(w)
      PROVE  sessions' = sessions
  BY <1>9 DEF Authenticate, PasswordApi, UsersApi, UserApi, RequestFails, InitializeCount,
              InitializeInsert, ReadBefore, CommitPassword, CreateManagedUser, UpdateManagedUser
<1> QED
  BY <1>2, <1>4, <1>5, <1>6, <1>7, <1>8, <1>9 DEF AccountsNext

LEMMA NextChange ==
  ASSUME AccountsInv, [AccountsNext]_accountVars
  PROVE  change' \in [Workers -> Changes] /\ \A w \in Workers : ChangeSound(w)'
<1>1. /\ change \in [Workers -> Changes] /\ user \in [Accounts -> UserRows]
      /\ sessions \subseteq Sessions /\ \A w \in Workers : ChangeSound(w)
  BY DEF AccountsInv, AccountsTyped
<1>2. ASSUME NEW w \in Workers, change'[w] = change[w]
      PROVE  ChangeSound(w)'
  <2> PICK c \in Changes : c = change[w]
    BY <1>1
  <2>1. Proved(c.session)'
    BY <1>1, SessionsKept DEF ChangeSound, Changes
  <2>2. ASSUME c.step = "hashed"
        PROVE  Past(c.session.email, c.before)'
    <3>1. c.session.email \in Accounts /\ c.before \in UserRows /\ Past(c.session.email, c.before)
      BY <1>1, <2>2 DEF ChangeSound, Proved, Changes
    <3> QED
      BY <1>1, <3>1, NextUser, PastKept
  <2> QED
    BY <1>1, <1>2, <2>1, <2>2 DEF ChangeSound
<1>3. ASSUME NEW w \in Workers, NEW c \in Changes, change' = [change EXCEPT ![w] = c],
             Proved(c.session)',
             c.step = "hashed" => /\ c.session # Legacy
                                  /\ Past(c.session.email, c.before)'
                                  /\ c.before # NoUser /\ c.before.version = c.session.version
      PROVE  change' \in [Workers -> Changes] /\ \A v \in Workers : ChangeSound(v)'
  <2>1. change'[w] = c /\ \A v \in Workers \ {w} : change'[v] = change[v]
    BY <1>1, <1>3
  <2>2. ChangeSound(w)'
    BY <1>3, <2>1 DEF ChangeSound
  <2> QED
    BY <1>1, <1>2, <1>3, <2>1, <2>2
<1>4. NoChange \in Changes /\ NoChange.step = "idle" /\ Proved(NoChange.session)'
  BY NoUserTyped DEF NoChange, Changes, Legacy, Sessions, Secrets, Proved
<1>5. ASSUME NEW w \in Workers, Done(w)
      PROVE  change' \in [Workers -> Changes] /\ \A v \in Workers : ChangeSound(v)'
  BY <1>3, <1>4, <1>5 DEF Done, Set
<1>6. ASSUME NEW w \in Workers, NEW s \in sessions, Authenticate(w, s)
      PROVE  change' \in [Workers -> Changes] /\ \A v \in Workers : ChangeSound(v)'
  <2> DEFINE c == [NoChange EXCEPT !.step = "authenticated", !.session = s]
  <2>1. c \in Changes /\ c.session = s /\ c.step = "authenticated"
    BY <1>1, <1>4 DEF Changes
  <2>2. Proved(s)' /\ change' = [change EXCEPT ![w] = c]
    BY <1>1, <1>6, SessionsKept DEF AccountsInv, Authenticate, Set
  <2> HIDE DEF c
  <2> QED
    BY <1>3, <2>1, <2>2
<1>7. ASSUME NEW w \in Workers, NEW p \in Passwords, InitializeCount(w, p)
      PROVE  change' \in [Workers -> Changes] /\ \A v \in Workers : ChangeSound(v)'
  <2> PICK old \in Changes : old = change[w]
    BY <1>1
  <2> DEFINE c == [old EXCEPT !.step = "insert", !.password = p]
  <2>1. c \in Changes /\ c.session = old.session /\ c.step = "insert"
    BY DEF Changes, Secrets
  <2>2. Proved(old.session)'
    BY <1>1, SessionsKept DEF ChangeSound, Changes
  <2>3. Done(w) \/ change' = [change EXCEPT ![w] = c]
    BY <1>7 DEF InitializeCount, Set
  <2> HIDE DEF c
  <2> QED
    BY <1>3, <1>5, <2>1, <2>2, <2>3
<1>8. ASSUME NEW w \in Workers, NEW current \in Passwords, NEW p \in Passwords,
             ReadBefore(w, current, p)
      PROVE  change' \in [Workers -> Changes] /\ \A v \in Workers : ChangeSound(v)'
  <2> PICK old \in Changes : old = change[w]
    BY <1>1
  <2> DEFINE s == old.session
             c == [old EXCEPT !.step = "hashed", !.before = user[s.email], !.password = p]
  <2>1. Proved(s) /\ s # Legacy /\ s.email \in Accounts /\ s \in Sessions
    BY <1>1, <1>8 DEF ChangeSound, ReadBefore, Proved, Changes
  <2>2. Proved(s)' /\ user' = user
    BY <1>8, <2>1, SessionsKept DEF ReadBefore
  <2> PICK row \in UserRows : row = user[s.email]
    BY <1>1, <2>1
  <2>3. Done(w) \/ (change' = [change EXCEPT ![w] = c] /\ row.version = s.version)
    BY <1>8 DEF ReadBefore, Set
  <2>4. c \in Changes /\ c.session = s /\ c.before = row
    BY DEF Changes, Secrets
  <2>5. row # NoUser /\ Past(s.email, row)'
    <3>1. row.version \in Nat
      BY DEF UserRows
    <3>2. row # NoUser
      BY <2>1 DEF Proved
    <3> QED
      BY <2>2, <3>1, <3>2 DEF Past
  <2> HIDE DEF c
  <2> QED
    BY <1>3, <1>5, <2>1, <2>2, <2>3, <2>4, <2>5
<1>9. ASSUME change' = change
      PROVE  change' \in [Workers -> Changes] /\ \A v \in Workers : ChangeSound(v)'
  BY <1>1, <1>2, <1>9
<1>10. ASSUME NEW a \in Attempts, LoginApi(a)
       PROVE  change' = change
  BY <1>10 DEF LoginApi, BeginLogin, ReadAccount, CountAccounts, CompareFirst, Compare, BootstrapCount,
               BootstrapInsert, VerifyFails, LoginEnds, Again, Now, Verified
<1>11. ASSUME NEW w \in Workers, PasswordApi(w) \/ UsersApi(w) \/ UserApi(w) \/ RequestFails(w)
       PROVE  change' \in [Workers -> Changes] /\ \A v \in Workers : ChangeSound(v)'
  BY <1>5, <1>7, <1>8, <1>11 DEF PasswordApi, UsersApi, UserApi, RequestFails, InitializeInsert,
     CommitPassword, CreateManagedUser, UpdateManagedUser
<1> QED
  BY <1>6, <1>9, <1>10, <1>11 DEF AccountsNext, accountVars

LEMMA InitAccountsInv == AccountsInit => AccountsInv
<1> SUFFICES ASSUME AccountsInit PROVE AccountsInv
  OBVIOUS
<1>1. Legacy \in Sessions /\ NoLogin \in Logins /\ NoChange \in Changes
  BY NoUserTyped DEF Legacy, Sessions, NoLogin, Logins, NoChange, Changes, Secrets
<1>2. AccountsTyped
  BY <1>1, NoUserTyped DEF AccountsInit, AccountsTyped
<1>3. \A s \in sessions : Proved(s)
  BY DEF AccountsInit, Proved
<1>4. \A a \in Attempts : LoginSound(a)
  BY DEF AccountsInit, Init, LoginSound, NoLogin
<1>5. \A w \in Workers : ChangeSound(w)
  BY DEF AccountsInit, ChangeSound, NoChange, Proved
<1>6. \A e \in Accounts : user[e].role = "owner" => user[e].status = "active"
  BY DEF AccountsInit, NoUser
<1> QED
  BY <1>2, <1>3, <1>4, <1>5, <1>6 DEF AccountsInv

LEMMA AccountsInvHolds == AccountsSpec => []AccountsInv
<1>1. AccountsInv /\ IInv /\ [AccountsNext]_accountVars => AccountsInv'
  <2> SUFFICES ASSUME AccountsInv, IInv, [AccountsNext]_accountVars
               PROVE  AccountsInv'
    OBVIOUS
  <2>1. AccountsTyped'
    BY NextUser, NextLogin, NextSessions, NextChange DEF AccountsInv, AccountsTyped
  <2> QED
    BY <2>1, NextUser, NextLogin, NextSessions, NextChange DEF AccountsInv, OwnersActive
<1> QED
  BY <1>1, InitAccountsInv, ImplementsThrottle, IInvHolds, PTL DEF AccountsSpec

-----------------------------------------------------------------------------
(* Types, versions and the one owner.                                      *)

\* The first account is the administrator's, and its owner; nobody else becomes one.
OneOwner ==
  /\ \A e \in Accounts : user[e].role = "owner" => e = admin
  /\ ~NoAccount => admin \in Accounts /\ user[admin].role = "owner"

\* A version is set only after it was found below the bound.
Bounded ==
  /\ \A e \in Accounts : user[e].version <= MaxVersion
  /\ \A w \in Workers : change[w].step = "hashed" => change[w].before.version < MaxVersion

OwnersInv == OneOwner /\ Bounded

LEMMA NextOwners ==
  ASSUME AccountsInv, IInv, OwnersInv, [AccountsNext]_accountVars
  PROVE  OneOwner' /\ \A e \in Accounts : user'[e].version <= MaxVersion
<1>1. /\ user \in [Accounts -> UserRows] /\ user' \in [Accounts -> UserRows] /\ admin' = admin
      /\ \A w \in Workers : ChangeSound(w)
      /\ focus = "accounts" => admin \in Accounts
      /\ MaxVersion \in Nat /\ MaxVersion > 0
      /\ change \in [Workers -> Changes]
  BY NextUser, NextLogin, VersionAssumption DEF AccountsInv, AccountsTyped
<1>2. /\ \A e \in Accounts : user[e].role = "owner" => e = admin
      /\ (\E e \in Accounts : user[e] # NoUser) => admin \in Accounts /\ user[admin].role = "owner"
      /\ \A e \in Accounts : user[e].version <= MaxVersion
  BY DEF OwnersInv, OneOwner, Bounded, NoAccount
<1>3. CASE UNCHANGED user
  BY <1>1, <1>2, <1>3 DEF OneOwner, NoAccount
<1>4. ASSUME NEW e \in Accounts, NEW row, user' = [user EXCEPT ![e] = row],
             row.version <= MaxVersion,
             \/ e = admin /\ row.role = "owner"
             \/ row.role # "owner" /\ user[e].role # "owner" /\ \E f \in Accounts : user[f] # NoUser
      PROVE  OneOwner' /\ \A f \in Accounts : user'[f].version <= MaxVersion
  BY <1>1, <1>2, <1>4 DEF OneOwner, NoAccount
<1>5. ASSUME focus = "accounts", EmailFree(admin),
             \/ \E a \in Attempts : BootstrapInsert(a)
             \/ \E w \in Workers : InitializeInsert(w)
      PROVE  OneOwner' /\ \A e \in Accounts : user'[e].version <= MaxVersion
  <2> PICK p : user' = [user EXCEPT ![admin] = User("owner", p)]
    BY <1>5 DEF BootstrapInsert, InitializeInsert
  <2>1. User("owner", p).version <= MaxVersion /\ User("owner", p).role = "owner"
    BY <1>1 DEF User
  <2> HIDE DEF User
  <2> QED
    BY <1>1, <1>4, <1>5, <2>1
<1>6. ASSUME NEW w \in Workers, CommitPassword(w),
             Unchanged(user[change[w].session.email], change[w].before)
      PROVE  OneOwner' /\ \A e \in Accounts : user'[e].version <= MaxVersion
  <2>1. ChangeSound(w) /\ change[w].step = "hashed" /\ change[w] \in Changes
    BY <1>1, <1>6 DEF CommitPassword, AtChange
  <2> PICK e \in Accounts, p \in Secrets, old \in UserRows :
             e = change[w].session.email /\ p = change[w].password /\ old = user[e]
             /\ old = change[w].before /\ old # NoUser
    BY <1>1, <1>6, <2>1 DEF ChangeSound, Proved, Past, Unchanged, Changes
  <2> PICK row \in UserRows : row = PasswordSet(old, p, old.version + 1)
                              /\ row.version = old.version + 1 /\ row.role = old.role
    <3>1. old.version + 1 \in Nat
      BY DEF UserRows
    <3> QED
      BY <3>1, PasswordSetTyped
  <2>2. user' = [user EXCEPT ![e] = row]
    BY <1>6 DEF CommitPassword, PasswordSet
  <2>3. row.version <= MaxVersion
    BY <1>1, <2>1 DEF OwnersInv, Bounded, UserRows
  <2>4. \/ e = admin /\ row.role = "owner"
        \/ row.role # "owner" /\ user[e].role # "owner" /\ \E f \in Accounts : user[f] # NoUser
    BY <1>2
  <2> QED
    BY <1>4, <2>2, <2>3, <2>4
<1>7. ASSUME NEW w \in Workers, NEW e \in Accounts, NEW p \in Passwords, CreateManagedUser(w, e, p)
      PROVE  OneOwner' /\ \A f \in Accounts : user'[f].version <= MaxVersion
  <2>1. \E f \in Accounts : user[f] # NoUser
    BY <1>1, <1>7 DEF CreateManagedUser, Owner, ChangeSound, Proved
  <2>2. user[e].role # "owner" /\ User("member", p).version <= MaxVersion
        /\ User("member", p).role # "owner"
    BY <1>1, <1>7 DEF CreateManagedUser, EmailFree, NoUser, User
  <2> QED
    BY <1>4, <1>7, <2>1, <2>2 DEF CreateManagedUser
<1>8. ASSUME NEW w \in Workers, NEW e \in Accounts, NEW status \in {"active", "disabled"},
             UpdateManagedUser(w, e, status)
      PROVE  OneOwner' /\ \A f \in Accounts : user'[f].version <= MaxVersion
  <2> PICK old \in UserRows : old = user[e] /\ old.role = "member" /\ old.version < MaxVersion
    BY <1>1, <1>8 DEF UpdateManagedUser
  <2> DEFINE row == StatusSet(old, status, old.version + 1)
  <2>1. user' = [user EXCEPT ![e] = row]
    BY <1>8 DEF UpdateManagedUser, NextVersion, StatusSet
  <2>2. row.version = old.version + 1 /\ row.role = old.role
    <3>1. old.version + 1 \in Nat
      BY DEF UserRows
    <3> QED
      BY <3>1, StatusSetTyped
  <2> HIDE DEF row
  <2>3. row.version <= MaxVersion /\ user[e] # NoUser
    BY <1>1, <2>2 DEF UserRows, NoUser
  <2> QED
    BY <1>4, <2>1, <2>2, <2>3
<1> QED
  BY <1>3, <1>5, <1>6, <1>7, <1>8, UserSteps DEF accountVars

LEMMA NextBounded ==
  ASSUME AccountsInv, OwnersInv, [AccountsNext]_accountVars, NEW w \in Workers,
         change'[w].step = "hashed"
  PROVE  change'[w].before.version < MaxVersion
<1>1. change \in [Workers -> Changes]
      /\ (change[w].step = "hashed" => change[w].before.version < MaxVersion)
  BY DEF AccountsInv, AccountsTyped, OwnersInv, Bounded
<1>2. CASE change'[w] = change[w]
  BY <1>1, <1>2
<1>3. ASSUME NEW v \in Workers, NEW c, Set(v, c), c.step # "hashed" \/ c.before.version < MaxVersion
      PROVE  change'[w].before.version < MaxVersion
  BY <1>1, <1>3 DEF Set
<1>4. ASSUME NEW v \in Workers, Done(v)
      PROVE  change'[w].before.version < MaxVersion
  BY <1>3, <1>4 DEF Done, NoChange
<1>5. ASSUME NEW v \in Workers, NEW s \in sessions, Authenticate(v, s)
      PROVE  change'[w].before.version < MaxVersion
  <2>1. [NoChange EXCEPT !.step = "authenticated", !.session = s].step # "hashed"
    BY DEF NoChange
  <2> QED
    BY <1>3, <1>5, <2>1 DEF Authenticate
<1>6. ASSUME NEW v \in Workers, NEW p \in Passwords, InitializeCount(v, p)
      PROVE  change'[w].before.version < MaxVersion
  <2>1. [change[v] EXCEPT !.step = "insert", !.password = p].step # "hashed"
    BY <1>1 DEF Changes
  <2> QED
    BY <1>3, <1>4, <1>6, <2>1 DEF InitializeCount
<1>7. ASSUME NEW v \in Workers, NEW current \in Passwords, NEW p \in Passwords,
             ReadBefore(v, current, p)
      PROVE  change'[w].before.version < MaxVersion
  <2> DEFINE old == user[change[v].session.email]
             c == [change[v] EXCEPT !.step = "hashed", !.before = old, !.password = p]
  <2>1. c.before = old
    BY <1>1 DEF Changes
  <2>2. Done(v) \/ (Set(v, c) /\ old.version < MaxVersion)
    BY <1>7 DEF ReadBefore
  <2> HIDE DEF old, c
  <2> QED
    BY <1>3, <1>4, <2>1, <2>2
<1>8. ASSUME NEW a \in Attempts, LoginApi(a)
      PROVE  change' = change
  BY <1>8 DEF LoginApi, BeginLogin, ReadAccount, CountAccounts, CompareFirst, Compare, BootstrapCount,
              BootstrapInsert, VerifyFails, LoginEnds, Again, Now, Verified
<1> QED
  BY <1>2, <1>4, <1>5, <1>6, <1>7, <1>8 DEF AccountsNext, accountVars, PasswordApi, UsersApi, UserApi,
     RequestFails, InitializeInsert, CommitPassword, CreateManagedUser, UpdateManagedUser

LEMMA OwnersInvHolds == AccountsSpec => []OwnersInv
<1>1. AccountsInit => OwnersInv
  BY VersionAssumption DEF AccountsInit, OwnersInv, OneOwner, Bounded, NoAccount, NoUser, NoChange
<1>2. AccountsInv /\ IInv /\ OwnersInv /\ [AccountsNext]_accountVars => OwnersInv'
  BY NextOwners, NextBounded DEF OwnersInv, Bounded
<1> QED
  BY <1>1, <1>2, AccountsInvHolds, ImplementsThrottle, IInvHolds, PTL DEF AccountsSpec

-----------------------------------------------------------------------------
(* The theorems.                                                           *)

\* A session is accepted on the account's present password only, whatever changed
\* while the login compared it or a request hashed another.
THEOREM SessionsProvedHolds == AccountsSpec => []SessionsProved
<1>1. AccountsInv => SessionsProved
  BY DEF AccountsInv, AccountsTyped, Proved, SessionsProved, Accepted
<1> QED
  BY <1>1, AccountsInvHolds, PTL

\* Every change of an account brings a version of its own and so ends the sessions
\* given out before it (updateUserAccountPassword, updateManagedUserAccount).
THEOREM ChangesEndSessionsHolds == AccountsSpec => ChangesEndSessions
<1>1. AccountsInv /\ [AccountsNext]_accountVars =>
        [\A e \in Accounts : user[e] # NoUser /\ user'[e] # user[e] =>
           /\ user'[e].version = user[e].version + 1
           /\ \A s \in sessions : s.email = e => s.version <= user[e].version]_accountVars
  <2> SUFFICES ASSUME AccountsInv, [AccountsNext]_accountVars, NEW e \in Accounts,
                      user[e] # NoUser, user'[e] # user[e]
               PROVE  /\ user'[e].version = user[e].version + 1
                      /\ \A s \in sessions : s.email = e => s.version <= user[e].version
    OBVIOUS
  <2>1. user'[e].version = user[e].version + 1
    BY NextUser DEF OwnVersion
  <2>2. ASSUME NEW s \in sessions, s.email = e
        PROVE  s.version <= user[e].version
    BY <2>2 DEF AccountsInv, AccountsTyped, Proved, Legacy, UserRows
  <2> QED
    BY <2>1, <2>2
<1> QED
  BY <1>1, AccountsInvHolds, PTL DEF AccountsSpec, ChangesEndSessions

\* Nobody changes a password by a session that has ended meanwhile, or over a change
\* of others (changeAccountPassword compares again after hashing); and the owner
\* stays an active owner.
THEOREM NoLateChangeHolds == AccountsSpec => NoLateChange
<1> DEFINE Right == \A e \in Accounts : user[e] # NoUser =>
             /\ user'[e].password # user[e].password =>
                  \E w \in Workers : /\ change[w].session.email = e /\ Accepted(change[w].session)
                                     /\ change[w].before = user[e]
             /\ user[e].role = "owner" => user'[e].role = "owner" /\ user'[e].status = "active"
<1>1. AccountsInv /\ [AccountsNext]_accountVars => [Right]_accountVars
  <2> SUFFICES ASSUME AccountsInv, AccountsNext
               PROVE  Right
    OBVIOUS
  <2>1. user \in [Accounts -> UserRows] /\ change \in [Workers -> Changes]
        /\ \A e \in Accounts : user[e].role = "owner" => user[e].status = "active"
    BY DEF AccountsInv, AccountsTyped
  <2>2. CASE UNCHANGED user
    BY <2>1, <2>2
  <2>3. ASSUME NEW e \in Accounts, user[e] = NoUser, \E row : user' = [user EXCEPT ![e] = row]
        PROVE  Right
    BY <2>1, <2>3
  <2>4. ASSUME focus = "accounts", EmailFree(admin),
               \/ \E a \in Attempts : BootstrapInsert(a)
               \/ \E w \in Workers : InitializeInsert(w)
        PROVE  Right
    BY <2>3, <2>4 DEF AccountsInv, AccountsTyped, EmailFree, BootstrapInsert, InitializeInsert
  <2>5. ASSUME NEW w \in Workers, CommitPassword(w),
               Unchanged(user[change[w].session.email], change[w].before)
        PROVE  Right
    <3>1. ChangeSound(w) /\ change[w].step = "hashed" /\ change[w] \in Changes
      BY <2>1, <2>5 DEF AccountsInv, CommitPassword, AtChange
    <3> PICK e \in Accounts, p \in Secrets, old \in UserRows :
               e = change[w].session.email /\ p = change[w].password /\ old = user[e]
               /\ old = change[w].before
      BY <2>1, <2>5, <3>1 DEF ChangeSound, Proved, Past, Unchanged, Changes
    <3>2. Accepted(change[w].session)
      BY <2>5, <3>1 DEF ChangeSound, Unchanged, Accepted
    <3>3. user' = [user EXCEPT ![e] = PasswordSet(old, p, old.version + 1)]
      BY <2>5 DEF CommitPassword, PasswordSet
    <3>4. user'[e].role = user[e].role /\ user'[e].status = user[e].status
      <4>1. old.version + 1 \in Nat /\ user'[e] = PasswordSet(old, p, old.version + 1)
        BY <2>1, <3>3 DEF UserRows
      <4> QED
        BY <4>1, PasswordSetTyped
    <3>5. \A f \in Accounts \ {e} : user'[f] = user[f]
      BY <2>1, <3>3
    <3> QED
      BY <2>1, <3>2, <3>4, <3>5
  <2>6. CASE \E w \in Workers, e \in Accounts, p \in Passwords : CreateManagedUser(w, e, p)
    BY <2>3, <2>6 DEF CreateManagedUser, EmailFree
  <2>7. ASSUME NEW w \in Workers, NEW e \in Accounts, NEW status \in {"active", "disabled"},
               UpdateManagedUser(w, e, status)
        PROVE  Right
    <3> PICK old \in UserRows : old = user[e]
      BY <2>1
    <3>1. user' = [user EXCEPT ![e] = StatusSet(user[e], status, user[e].version + 1)]
          /\ user[e].role = "member"
      BY <2>7 DEF UpdateManagedUser, NextVersion, StatusSet
    <3>2. user'[e].password = user[e].password
      <4>1. old.version + 1 \in Nat
        BY DEF UserRows
      <4>2. user'[e] = StatusSet(old, status, old.version + 1)
        BY <2>1, <3>1
      <4>3. StatusSet(old, status, old.version + 1).password = old.password
        BY <4>1, StatusSetTyped
      <4> QED
        BY ONLY <4>2, <4>3, old = user[e]
    <3>3. \A f \in Accounts \ {e} : user'[f] = user[f]
      BY <2>1, <3>1
    <3> QED
      BY <2>1, <3>1, <3>2, <3>3
  <2> QED
    BY <2>2, <2>4, <2>5, <2>6, <2>7, UserSteps
<1> QED
  BY <1>1, AccountsInvHolds, PTL DEF AccountsSpec, NoLateChange

\* Both of the above: what no step may do to an account.
THEOREM ChangesProvedHolds == AccountsSpec => ChangesProved
BY NoLateChangeHolds, ChangesEndSessionsHolds DEF ChangesProved

\* What holds in every state: rows, sessions and the throttle's rows are of their types,
\* there is one owner once there is anyone (createBootstrapAccount and
\* initializeAccountFromLegacySession begin only the administrator's account, and
\* nothing makes a second owner or unmakes the first), and the throttle's evidence is
\* sound whatever logins do.
THEOREM AccountsSoundHolds == AccountsSpec => []AccountsSound
<1>1. IInv /\ EInv => TypeOK
  <2> SUFFICES ASSUME IInv, EInv PROVE TypeOK
    OBVIOUS
  <2> USE DEF IInv, Typed, EInv, InTime
  <2>1. clock \in 1..Horizon /\ Horizon \in Nat /\ Window \in Nat
    BY TimesNat
  <2>2. ASSUME NEW b \in Buckets
        PROVE  rows[b] \in RowsType
    <3> PICK row \in Rows : row = rows[b]
      OBVIOUS
    <3>1. CASE row = NoRow
      BY <2>1, <3>1 DEF NoRow, RowsType
    <3>2. CASE row # NoRow
      <4>1. Counts(row, b) /\ Dated(row)
        BY <3>2 DEF RowsCount, RowsDated, Exists
      <4>2. row.since \in 0..Horizon /\ row.at \in 0..Horizon /\ row.until \in 0..(Horizon + Window)
        BY <2>1, <4>1 DEF Counts, Dated, Rows
      <4> QED
        BY <4>2 DEF Rows, RowsType
    <3> QED
      BY <3>1, <3>2
  <2>3. now \in [Attempts -> 0..Horizon] /\ seen \in [Attempts -> 0..Horizon]
        /\ counted \in [Attempts -> 0..Horizon]
    BY <2>1 DEF Timed
  <2>4. \A a \in Attempts : held[a] # {} => pc[a] = "write"
    BY DEF HeldOpen, HoldsOpen
  <2> QED
    BY <2>1, <2>2, <2>3, <2>4 DEF TypeOK, States
<1>2. AccountsInv /\ OwnersInv => Cardinality({e \in Accounts : user[e].role = "owner"}) = IF NoAccount THEN 0 ELSE 1
  <2> SUFFICES ASSUME AccountsInv, OwnersInv
               PROVE  Cardinality({e \in Accounts : user[e].role = "owner"}) = IF NoAccount THEN 0 ELSE 1
    OBVIOUS
  <2>1. CASE NoAccount
    <3>1. {e \in Accounts : user[e].role = "owner"} = {}
      BY <2>1 DEF NoAccount, NoUser
    <3> QED
      BY <2>1, <3>1, FS_EmptySet
  <2>2. CASE ~NoAccount
    <3>1. {e \in Accounts : user[e].role = "owner"} = {admin}
      BY <2>2 DEF OwnersInv, OneOwner
    <3> QED
      BY <2>2, <3>1, FS_Singleton
  <2> QED
    BY <2>1, <2>2
<1>3. AccountsInv /\ OwnersInv =>
        user \in [Accounts -> [role : {"none", "owner", "member"}, status : {"active", "disabled"},
                               password : Passwords \cup {None}, version : 0..MaxVersion]]
  BY VersionAssumption DEF AccountsInv, AccountsTyped, OwnersInv, Bounded, UserRows, Secrets
<1>4. AccountsInv /\ OwnersInv =>
        sessions \subseteq [email : Accounts \cup {None}, version : 0..MaxVersion,
                            password : Passwords \cup {None}]
  <2> SUFFICES ASSUME AccountsInv, OwnersInv, NEW s \in sessions
               PROVE  s \in [email : Accounts \cup {None}, version : 0..MaxVersion,
                             password : Passwords \cup {None}]
    OBVIOUS
  <2>1. s \in Sessions /\ Proved(s) /\ MaxVersion \in Nat
    BY VersionAssumption DEF AccountsInv, AccountsTyped
  <2>2. s.version <= MaxVersion
    <3>1. CASE s = Legacy
      BY <2>1, <3>1 DEF Legacy
    <3>2. CASE s # Legacy
      BY <2>1, <3>2 DEF Proved, OwnersInv, Bounded, AccountsInv, AccountsTyped, UserRows, Sessions
    <3> QED
      BY <3>1, <3>2
  <2> QED
    BY <2>1, <2>2 DEF Sessions, Secrets
<1>5. IInv /\ EInv /\ AccountsInv /\ OwnersInv => AccountsTypeOK
  BY <1>1, <1>2, <1>3, <1>4 DEF AccountsTypeOK
<1>6. AccountsSpec => []IInv /\ []EInv
  BY ImplementsThrottle, IInvHolds, EInvHolds, PTL
<1> QED
  BY <1>5, <1>6, AccountsInvHolds, OwnersInvHolds, EvidenceSoundHolds, ImplementsThrottle, PTL
     DEF AccountsSound

-----------------------------------------------------------------------------
(* Screens.                                                                *)

\* What screens do: which records they create and edit, and how a creation is known.
ByBody == {"expenses", "categories", "cards", "accounts", "movements", "tax"}
ByOpening == {"payments", "partnership", "receipts", "visittasks"}
ByNature == {"projects", "contracts", "users"}
Forgetful == {"finance", "tasks", "customers"}
Creating == ByBody \cup ByOpening \cup ByNature \cup Forgetful
Editing == {"expenses", "cards", "accounts", "tax", "partnership", "projects", "tasks",
            "contracts", "plan", "useraccess", "lifecycle", "reversals", "profile", "monthplan",
            "settings"}
WithButtons == {"expenses", "cards", "tax", "tasks"}
Rereading == {"finance", "accounts", "movements"}
Distinct == {"categories", "tasks", "contracts", "tax", "accounts", "movements", "finance",
             "visittasks", "receipts", "lifecycle"}
Choosing == {"payments", "tax", "finance", "plan", "visittasks", "cashflow", "projectfinance",
             "taskreport"}

AnyText == Texts \cup {Nothing}
Answer == [id : Nat, version : Nat]
Call == [step : {"idle", "sent", "done", "reread"}, live : BOOLEAN, row : BOOLEAN, on : Nat,
         base : Nat, drawn : Nat, text : AnyText, key : Nat, intent : Nat, reply : Answer,
         for : Filters \cup {Nothing}, rows : Seq(Answer)]
ARecord == [key : Nat, text : AnyText, version : Nat, intent : Nat]
Reading == [n : Nat, for : Filters, step : {"asked", "read"}, rows : Seq(Answer)]

\* Types.
ScreenTyped ==
  /\ screen \in Visited /\ filter \in Filters
  /\ form \in [session : 0..MaxOpenings, open : BOOLEAN, on : Nat, base : Nat, text : AnyText]
  /\ ref \in [text : AnyText, key : 0..sends]
  /\ wish \in [text : AnyText, intent : 0..sends]
  /\ saving \in BOOLEAN /\ busy \in BOOLEAN
  /\ calls \in [Calls -> Call]
  /\ table \in Seq(ARecord) /\ Len(table) >= 1
  /\ shown \in [for : Filters, rows : Seq(Answer), ready : BOOLEAN]
  /\ loads \in SUBSET Reading
  /\ told \in SUBSET Answer
  /\ sends \in 0..MaxSends /\ asked \in Nat /\ others \in 0..MaxOthers

\* An answer, or a list of them, is about records, in a version that they have had.
Had(a) == a.id \in 1..Len(table) /\ a.version \in 1..table[a.id].version
Listing(list) == \A k \in 1..Len(list) : Had(list[k])
Full(list) == Len(list) >= 1 /\ Listing(list) /\ \A k \in 1..Len(list) : list[k].id = k

\* A draft, or a request, is for a new record, or for one in a version that it has had.
Drafted(on, version) ==
  /\ on \in 0..Len(table)
  /\ on = 0 => version = 0
  /\ on # 0 => version \in 1..table[on].version /\ screen \in Editing \cup WithButtons

\* The form has something to send, and no more records are known than were created.
FormSound ==
  /\ Drafted(form.on, form.base)
  /\ form.open => form.text \in Texts
  /\ form.on # 0 => screen \in Editing
  /\ form.open /\ form.on = 0 => screen \in Creating
  /\ screen \notin Creating => Len(table) = 1

Fresh == ~Unversioned /\ screen \notin {"projects", "payments", "reversals"}

\* A request knows the version that its draft was drawn from, and sends it where versions
\* are compared; its answer is about a record of the server.
CallSound(c) ==
  LET x == calls[c] IN
  /\ x.step = "idle" => x = NoCall
  /\ Drafted(x.on, x.drawn)
  /\ x.step # "idle" => x.for \in Filters /\ (~x.row => x.text \in Texts)
  /\ x.on # 0 => x.intent = 0 /\ (Fresh => x.base = x.drawn)
  /\ x.step # "idle" /\ x.on = 0 => screen \in Creating
  /\ x.step \in {"done", "reread"} => x.live
  /\ x.row => screen \in WithButtons /\ x.on # 0 /\ x.step # "reread"
  /\ x.reply # NoReply => Had(x.reply)
  /\ x.step = "reread" => screen \in Rereading /\ Full(x.rows) /\ x.reply # NoReply
  /\ x.step # "idle" /\ screen \notin Choosing => x.for = filter

CallsSound == \A c \in Calls : CallSound(c)

\* Each edit that is done was a request, or the other user's.
Pending == {c \in Calls : calls[c].step = "sent"}
Versions ==
  \A i \in 1..Len(table) :
    table[i].version >= 1 /\ table[i].version + Cardinality(Pending) <= 1 + sends + others

\* What is locked is locked by a request; where a form stays locked until its request is
\* answered, there is no second one.
Under(c) == calls[c].live /\ ~calls[c].row
Locks ==
  /\ saving => \E c \in Calls : Under(c)
  /\ busy => \E c \in Calls : calls[c].live /\ calls[c].row
  /\ screen \notin Forgetful =>
       /\ \A c \in Calls : Under(c) => saving
       /\ \A c, d \in Calls : Under(c) /\ Under(d) => c = d

\* Lists: those that were read, and the one on the screen.
Apart(list) == \A j, k \in 1..Len(list) : list[j].id = list[k].id => j = k
ListsKnown ==
  /\ Listing(shown.rows)
  /\ screen \in Distinct => Apart(shown.rows)
  /\ \A l \in loads : l.for = filter /\ (l.step = "read" => Full(l.rows))
  /\ screen # "finance" => (shown.ready => shown.for = filter)

\* What was meant, by whom a creation is told from others.
\* Requests and records of one intent have the same text and the same key.
Meaning(x) == [intent |-> x.intent, text |-> x.text, key |-> x.key]
Meant == {Meaning(calls[c]) : c \in Calls} \cup {Meaning(table[i]) : i \in 1..Len(table)}
         \cup {[intent |-> wish.intent, text |-> wish.text, key |-> ref.key]}

\* The key is for the text of the form, and a request that is waited for means what the
\* user wishes.
KeysFit ==
  /\ wish.text = Nothing <=> wish.intent = 0
  /\ ref.text # Nothing => ref.key # 0
  /\ screen \in ByBody => wish.text = ref.text
  /\ screen \notin ByBody \cup ByOpening => ref = NoRef
  /\ form.on # 0 => wish = NoWish
  /\ \A c \in Calls : Under(c) => \/ wish = NoWish
                                  \/ wish.text = calls[c].text /\ wish.intent = calls[c].intent

OnceMeant ==
  /\ \A x \in Meant : x.intent \in 0..sends /\ x.key \in 0..sends
  /\ \A x, y \in Meant : x.intent = y.intent /\ x.intent # 0 => x = y
  /\ \A x \in Meant : x.intent # 0 => x.text \in Texts
  /\ \A x \in Meant : x.intent # 0 /\ screen \in ByBody \cup ByOpening => x.key # 0
  /\ \A x \in Meant : x.intent # 0 => screen \in ByBody \cup ByOpening \cup ByNature

\* A key, and what is unique by nature, belongs to one record.
RecordsApart ==
  /\ \A i, j \in 1..Len(table) : table[i].key = table[j].key /\ table[i].key # 0 => i = j
  /\ UniqueByNature =>
       \A i, j \in 1..Len(table) : table[i].text = table[j].text => i = j

Creations == screen \notin Forgetful => KeysFit /\ OnceMeant

\* What was said to be saved.
Covers(list) ==
  \A t \in told : \E k \in 1..Len(list) : list[k].id = t.id /\ list[k].version >= t.version

\* Whatever list comes next to the screen has what was said to be saved: each list that was
\* read has it, and a request that is done has a version no older.
ToldSound ==
  /\ ~TellsWhatItShows => told = {}
  /\ \A t \in told : Had(t)
  /\ \A l \in loads : l.step = "read" => Covers(l.rows)
  /\ shown.ready /\ (At("contracts") \/ loads = {}) => Covers(shown.rows)
  /\ At("contracts") =>
       \A c \in Calls : calls[c].step = "done" /\ calls[c].reply # NoReply =>
         \A t \in told : t.id = calls[c].reply.id => calls[c].reply.version >= t.version

ScreenInv ==
  /\ ScreenTyped /\ FormSound /\ CallsSound /\ Versions /\ Locks
  /\ ListsKnown /\ Creations /\ RecordsApart /\ ToldSound

-----------------------------------------------------------------------------
(* The kinds of steps, whatever the screen.                                *)

Opens ==
  \E on \in Ids \cup {0}, nextRef \in {NoRef, ref}, nextSaving \in {saving, FALSE} :
    /\ Opening(on, nextRef, nextSaving)
    /\ screen \notin Forgetful => nextSaving = saving
    /\ screen \notin Forgetful \cup {"partnership"} => nextRef = NoRef
    /\ on # 0 => screen \in Editing
    /\ on = 0 => screen \in Creating
    /\ loads' = loads \/ (At("contracts") /\ loads' = {})

KeyFits(keyed) ==
  /\ screen \in ByBody => keyed = KeyOfBody
  /\ screen \in ByOpening => keyed = KeyOfOpening
  /\ screen \in Forgetful => keyed \in {KeyOfBody, NoRef}
  /\ screen \notin ByBody \cup ByOpening \cup Forgetful => keyed = NoRef

Sends ==
  \E keyed, base :
    /\ Send(keyed, base) /\ KeyFits(keyed)
    /\ base \in Nat
    /\ Fresh /\ form.on # 0 => base = form.base

Reloads == \E kept \in {{}, loads} : ReadAgain(kept)
Chooses ==
  /\ screen \in Choosing
  /\ \E f \in Filters, list \in {<<>>, shown.rows} : ChooseFilter(f, list)
  /\ UNCHANGED form \/ FormClosed
Fills == \E s : Fill(s)
Acts == screen \in WithButtons /\ \E i \in Ids : RowAction(i)
Served == \E l \in loads : LoadServed(l)
Answers == \E l \in loads : LoadAnswers(l)
Fails == \E l \in loads : LoadFails(l)

SavedRows(c, list) ==
  /\ screen \in {"tax", "lifecycle"} => list = shown.rows
  /\ screen = "visittasks" => list = <<>>
  /\ screen \in {"receipts", "tasks", "contracts"} => list = Replaced(c)
  /\ screen = "categories" => list = IF calls[c].reply.id \in Ids THEN shown.rows ELSE NewLast(c)
  /\ list \in {<<>>, shown.rows, InPlace(calls[c].reply), NewFirst(c), NewLast(c), Replaced(c)}

Saves(c) ==
  \E list :
    /\ Saved(c, list) /\ SavedRows(c, list)
    /\ screen \notin Rereading
    /\ \/ ~TellsWhatItShows /\ UNCHANGED <<loads, asked>>
       \/ At("contracts") /\ loads' = {} /\ UNCHANGED asked
       \/ ~At("contracts") /\ Fetch({}, filter)

CallStep(c) ==
  \/ ServeReplay(c) \/ SkipKnownWork(c) \/ ServeCreate(c) \/ ServeEdit(c)

Forms ==
  \/ Opens \/ Fills \/ CloseForm \/ Sends \/ Reloads \/ Chooses \/ Acts
  \/ Served \/ Answers \/ Fails
  \/ \E c \in Calls : \/ Serve(c) \/ Lost(c) \/ NeverArrives(c) \/ Refused(c) \/ Saves(c)
                      \/ ReadsAgain(c) \/ ListRead(c) \/ ListUnread(c) \/ RowSaved(c)
  \/ \E i \in 1..Len(table) : OtherEdit(i)

\* Each action of a screen is a step of one of these kinds.
LEMMA OpensForm == ScreenInv /\ Open => Opens
<1> SUFFICES ASSUME ScreenInv, Open PROVE Opens
  OBVIOUS
<1> USE DEF At, Untouched, NextGeneration, Editing, Creating, ByBody, ByOpening, ByNature,
            Forgetful
<1>1. ASSUME NEW on \in Ids \cup {0},
             OpenExpense(on) \/ OpenCard(on) \/ OpenAccount(on) \/ OpenTax(on)
       \/ OpenPartnership(on) \/ OpenProject(on)
      PROVE  Opens
  BY <1>1 DEF Opens, OpenExpense, OpenCard, OpenAccount, OpenTax, OpenPartnership, OpenProject
<1>2. ASSUME NEW on \in Ids \cup {0}, OpenTask(on) PROVE Opens
  BY <1>2 DEF Opens, OpenTask
<1>3. ASSUME NEW on \in Ids \cup {0},
             \/ OpenContract(on) \/ OpenLifecycle(on) \/ OpenProfile(on) \/ OpenVisit(on)
             \/ OpenMonthPlan(on) \/ OpenSettings(on) \/ OpenUserAccess(on)
      PROVE  Opens
  <2>1. saving = FALSE
    BY <1>3 DEF ScreenInv, ScreenTyped, OpenContract, OpenUserAccess, OpenLifecycle, OpenProfile,
                OpenMonthPlan, OpenSettings, OpenVisit
  <2> QED
    BY <1>3, <2>1 DEF Opens, OpenContract, OpenUserAccess, OpenLifecycle, OpenProfile,
                      OpenMonthPlan, OpenSettings, OpenVisit
<1>4. ASSUME OpenCategory \/ OpenMovement \/ OpenReceipt \/ OpenPayment PROVE Opens
  BY <1>4 DEF Opens, OpenCategory, OpenMovement, OpenReceipt, OpenPayment
<1>5. ASSUME OpenVisitTasks \/ OpenUser PROVE Opens
  <2>1. saving = FALSE
    BY <1>5 DEF ScreenInv, ScreenTyped, OpenVisitTasks, OpenUser
  <2> QED
    BY <1>5, <2>1 DEF Opens, OpenVisitTasks, OpenUser
<1>6. ASSUME OpenFinance \/ OpenCustomer PROVE Opens
  BY <1>6 DEF Opens, OpenFinance, OpenCustomer
<1> QED
  BY <1>1, <1>2, <1>3, <1>4, <1>5, <1>6 DEF Open

\* The version of a row is one that its record has had.
LEMMA VersionShown ==
  ASSUME ScreenInv, NEW i \in Ids
  PROVE  Had([id |-> i, version |-> ShownVersion(i)]) /\ ShownVersion(i) \in Nat
<1>1. PICK k \in 1..Len(shown.rows) : shown.rows[k].id = i
  BY DEF Ids
<1> DEFINE m == CHOOSE m \in 1..Len(shown.rows) : shown.rows[m].id = i
<1>2. m \in 1..Len(shown.rows) /\ shown.rows[m].id = i
  BY <1>1
<1>3. ShownVersion(i) = shown.rows[m].version
  BY DEF ShownVersion
<1> HIDE DEF m
<1>4. shown.rows[m] \in Answer
  BY <1>2 DEF ScreenInv, ScreenTyped
<1> QED
  BY <1>2, <1>3, <1>4 DEF ScreenInv, ListsKnown, Listing, Had, Answer

LEMMA SendsForm == ScreenInv /\ Submit => Sends
<1> SUFFICES ASSUME ScreenInv, Submit PROVE Sends
  OBVIOUS
<1> USE DEF At, Creating, ByBody, ByOpening, ByNature, Forgetful, KeyFits
<1>1. form.base \in Nat
  BY DEF ScreenInv, ScreenTyped
<1>2. form.on # 0 => screen \in Editing
  BY DEF ScreenInv, FormSound
<1>3. CASE \/ SubmitExpense \/ SubmitCard \/ SubmitAccount \/ SubmitTax
  BY <1>1, <1>3 DEF Sends, SubmitExpense, SubmitCard, SubmitAccount, SubmitTax, BaseOfDraft
<1>4. CASE SubmitPartnership \/ SubmitContract \/ SubmitTask \/ SubmitProfile
  BY <1>1, <1>4 DEF Sends, SubmitPartnership, SubmitContract, SubmitTask, SubmitProfile,
                    BaseOfDraft
<1>a. CASE SubmitLifecycle
  <2>1. CASE At("lifecycle") /\ Send(NoRef, BaseOfDraft)
    BY <1>1, <2>1 DEF Sends, BaseOfDraft
  <2>2. CASE At("reversals") /\ Send(NoRef, 0)
    BY <2>2 DEF Sends, Fresh
  <2> QED
    BY <1>a, <2>1, <2>2 DEF SubmitLifecycle
<1>b. CASE SubmitPayment
  <2> DEFINE base == ShownVersion(1)
  <2>1. base \in Nat /\ ~Fresh /\ Send(KeyOfOpening, base) /\ screen = "payments"
    BY <1>b, VersionShown DEF SubmitPayment, Fresh
  <2> HIDE DEF base
  <2> QED
    BY <2>1 DEF Sends
<1>5. CASE \/ SubmitFinance \/ SubmitVisitTasks \/ SubmitCustomer
           \/ SubmitCategory \/ SubmitMovement \/ SubmitReceipt
  <2>1. form.on = 0
    BY <1>2, <1>5 DEF Editing, SubmitFinance, SubmitVisitTasks, SubmitCustomer,
                      SubmitCategory, SubmitMovement, SubmitReceipt
  <2> QED
    BY <1>5, <2>1 DEF Sends, SubmitFinance, SubmitVisitTasks, SubmitCustomer,
                      SubmitCategory, SubmitMovement, SubmitReceipt
<1>6. CASE SubmitUserAccess \/ SubmitMonthPlan \/ SubmitSettings \/ SubmitVisit
  <2>1. ~Fresh
    BY <1>6 DEF Fresh, Unversioned, SubmitUserAccess, SubmitMonthPlan, SubmitSettings, SubmitVisit
  <2> QED
    BY <1>6, <2>1 DEF Sends, SubmitUserAccess, SubmitMonthPlan, SubmitSettings, SubmitVisit
<1>c. CASE SubmitUser
  <2>1. form.on = 0
    BY <1>2, <1>c DEF Editing, SubmitUser
  <2> QED
    BY <1>c, <2>1 DEF Sends, SubmitUser
<1>7. CASE SubmitProject
  <2>1. ~Fresh
    BY <1>7 DEF Fresh, SubmitProject
  <2> DEFINE base == IF form.on \in Ids THEN ShownVersion(form.on) ELSE form.base
  <2>2. base \in Nat
    BY <1>1, VersionShown
  <2>3. Send(NoRef, base) /\ screen = "projects"
    BY <1>7 DEF SubmitProject
  <2> QED
    BY <2>1, <2>2, <2>3 DEF Sends
<1> QED
  BY <1>3, <1>4, <1>5, <1>6, <1>7, <1>a, <1>b, <1>c DEF Submit

LEMMA SavesForm ==
  ASSUME NEW c \in Calls, Answered(c)
  PROVE  \/ Saves(c) \/ ReadsAgain(c) \/ ListRead(c) \/ ListUnread(c) \/ RowSaved(c)
         \/ Refused(c)
<1> USE DEF At, SavedRows, Rereading, TellsWhatItShows, Superseded, NextGeneration
<1>1. CASE ExpenseSaved(c) \/ PartnershipSaved(c)
  BY <1>1 DEF Saves, ExpenseSaved, PartnershipSaved
<1>2. CASE \/ UserSaved(c) \/ CardSaved(c) \/ ProjectSaved(c) \/ CustomerSaved(c)
  BY <1>2 DEF Saves, UserSaved, CardSaved, ProjectSaved, CustomerSaved
<1>3. CASE \/ ProfileSaved(c) \/ MonthPlanSaved(c) \/ SettingsSaved(c) \/ PaymentSaved(c)
           \/ UserAccessSaved(c)
  BY <1>3 DEF Saves, ProfileSaved, MonthPlanSaved, SettingsSaved, PaymentSaved, UserAccessSaved
<1>4. CASE CategorySaved(c)
  BY <1>4 DEF Saves, CategorySaved
<1>5. CASE ReceiptSaved(c) \/ TaskSaved(c) \/ ContractSaved(c)
  BY <1>5 DEF Saves, ReceiptSaved, TaskSaved, ContractSaved
<1>6. CASE TaxSaved(c) \/ LifecycleSaved(c)
  BY <1>6 DEF Saves, TaxSaved, LifecycleSaved
<1>7. CASE VisitSaved(c)
  BY <1>7 DEF Saves, VisitSaved
<1> QED
  BY <1>1, <1>2, <1>3, <1>4, <1>5, <1>6, <1>7 DEF Answered

LEMMA ScreenForms ==
  ASSUME ScreenInv, ScreenNext
  PROVE  Forms
<1>1. CASE Open
  BY <1>1, OpensForm DEF Forms
<1>2. CASE Submit
  BY <1>2, SendsForm DEF Forms
<1>3. CASE Type
  <2>1. Fills
    BY <1>3 DEF Type, Fills, FillExpense, FillVisit, FillCategory, FillCard, FillPayment,
                FillFinance, FillAccount, FillMovement, FillTax, FillPartnership, FillReceipt,
                FillVisitTasks, FillProject, FillContract, FillTask, FillCustomer, FillProfile,
                FillMonthPlan, FillUser, FillSettings, FillReason, FillUserAccess
  <2> QED
    BY <2>1 DEF Forms
<1>4. CASE Load
  <2>1. Reloads
    BY <1>4 DEF Load, Reloads, Reload, Superseded, LoadExpenses, LoadCards, LoadInstallments, LoadReceivables,
                LoadAccounts, LoadTaxes, LoadPartnership, LoadDay, LoadProjects, LoadContracts,
                LoadTasks, LoadCustomers, LoadProfile, LoadMonthPlan, LoadCashFlow, LoadSettings
  <2> QED
    BY <2>1 DEF Forms
<1>5. CASE \E i \in Ids : Act(i)
  <2>1. Acts
    BY <1>5 DEF Acts, Act, At, WithButtons, ChangePlanStatus, InactivateCard, MarkTaxPaid,
                ChangeTaskStatus
  <2> QED
    BY <2>1 DEF Forms
<1>6. CASE \E f \in Filters : Choose(f)
  <2>1. Chooses
    BY <1>6 DEF Chooses, Choose, At, Choosing, ChooseMonth, ChooseTaxPeriod, ChooseProject,
                ChooseDay, ChooseReport, ChooseReportMonth, ChooseTaskReport
  <2> QED
    BY <2>1 DEF Forms
<1>7. CASE \E c \in Calls : Serve(c) \/ Lost(c) \/ NeverArrives(c) \/ Answered(c)
  BY <1>7, SavesForm DEF Forms
<1>8. CASE \E l \in loads : LoadServed(l) \/ LoadAnswers(l) \/ LoadFails(l)
  BY <1>8 DEF Forms, Served, Answers, Fails
<1>9. CASE CloseForm
  BY <1>9 DEF Forms
<1>10. CASE \E i \in 1..Len(table) : OtherEdit(i)
  BY <1>10 DEF Forms
<1> QED
  BY <1>1, <1>2, <1>3, <1>4, <1>5, <1>6, <1>7, <1>8, <1>9, <1>10 DEF ScreenNext

-----------------------------------------------------------------------------
(* The list that an answer is not about.                                   *)

Keeps(g, list, id, N) ==
  g = [n \in 0..N |-> IF n = 0 THEN <<>>
                      ELSE IF list[n].id = id THEN g[n - 1]
                      ELSE Append(g[n - 1], list[n])]

LEMMA KeptExists ==
  ASSUME NEW list \in Seq(Answer), NEW id
  PROVE  \E g : Keeps(g, list, id, Len(list))
<1> DEFINE Bad == {n \in Nat : n <= Len(list) /\ ~\E g : Keeps(g, list, id, n)}
<1>a. Len(list) \in Nat
  OBVIOUS
<1> SUFFICES ASSUME Bad # {} PROVE FALSE
  <2>1. ASSUME Bad = {} PROVE \E g : Keeps(g, list, id, Len(list))
    <3>1. Len(list) \notin Bad
      BY <2>1
    <3> QED
      BY <3>1, <1>a
  <2> QED
    BY <2>1
<1>1. PICK n \in Bad : \A m \in Bad : n <= m
  <2>1. \A b \in Bad : b \in Nat
    OBVIOUS
  <2> HIDE DEF Bad
  <2> QED
    BY <2>1, LeastNat
<1>2. n \in Nat /\ n <= Len(list) /\ ~\E g : Keeps(g, list, id, n)
  OBVIOUS
<1>3. CASE n = 0
  <2>1. Keeps([m \in 0..0 |-> <<>>], list, id, 0)
    BY DEF Keeps
  <2> QED
    BY <1>2, <1>3, <2>1
<1>4. CASE n # 0
  <2>1. n - 1 \in Nat /\ n - 1 <= Len(list) /\ n - 1 \notin Bad
    <3>1. n - 1 \in Nat /\ n - 1 <= Len(list) /\ ~(n <= n - 1)
      BY <1>2, <1>4
    <3> HIDE DEF Bad
    <3> QED
      BY <1>1, <3>1
  <2>2. PICK h : Keeps(h, list, id, n - 1)
    BY <2>1
  <2> DEFINE g == [m \in 0..n |->
                    IF m = n THEN IF list[n].id = id THEN h[n - 1]
                                  ELSE Append(h[n - 1], list[n])
                    ELSE h[m]]
  <2>3. g = [m \in 0..n |-> IF m = 0 THEN <<>>
                      ELSE IF list[m].id = id THEN g[m - 1]
                      ELSE Append(g[m - 1], list[m])]
    <3>1. \A m \in 0..n - 1 : g[m] = h[m]
      BY <1>2, <1>4
    <3>2. g[n] = IF list[n].id = id THEN h[n - 1] ELSE Append(h[n - 1], list[n])
      BY <1>2
    <3>3. ASSUME NEW m \in 0..n
          PROVE  g[m] = IF m = 0 THEN <<>> ELSE IF list[m].id = id THEN g[m - 1]
                        ELSE Append(g[m - 1], list[m])
      <4> HIDE DEF g
      <4>1. CASE m = n
        <5>1. g[n - 1] = h[n - 1]
          BY <1>2, <1>4, <3>1
        <5> QED
          BY <1>4, <4>1, <3>2, <5>1
      <4>2. CASE m # n
        <5>1. m \in 0..n - 1 /\ (m # 0 => m - 1 \in 0..n - 1)
          BY <4>2, <1>2
        <5>2. h[m] = IF m = 0 THEN <<>> ELSE IF list[m].id = id THEN h[m - 1]
                     ELSE Append(h[m - 1], list[m])
          BY <2>2, <5>1 DEF Keeps
        <5> QED
          BY <5>1, <5>2, <3>1
      <4> QED
        BY <4>1, <4>2
    <3> QED
      BY <3>3
  <2>4. Keeps(g, list, id, n)
    BY <2>3 DEF Keeps
  <2> QED
    BY <2>4, <1>2
<1> QED
  BY <1>3, <1>4

LEMMA OthersSound ==
  ASSUME shown.rows \in Seq(Answer), NEW reply
  PROVE  /\ Others(reply) \in Seq(Answer)
         /\ \A k \in 1..Len(Others(reply)) : \E j \in 1..Len(shown.rows) :
              Others(reply)[k] = shown.rows[j] /\ shown.rows[j].id # reply.id
         /\ \A j \in 1..Len(shown.rows) : shown.rows[j].id # reply.id =>
              \E k \in 1..Len(Others(reply)) : Others(reply)[k] = shown.rows[j]
         /\ Apart(shown.rows) => Apart(Others(reply))
<1> DEFINE N == Len(shown.rows)
           kept == CHOOSE g : Keeps(g, shown.rows, reply.id, N)
<1>1. Keeps(kept, shown.rows, reply.id, N)
  <2>1. \E g : Keeps(g, shown.rows, reply.id, N)
    BY KeptExists
  <2> QED
    BY <2>1
<1>2. Others(reply) = kept[N]
  BY DEF Others, Keeps
<1> HIDE DEF kept
<1>3. \A n \in 0..N : kept[n] = IF n = 0 THEN <<>>
                                ELSE IF shown.rows[n].id = reply.id THEN kept[n - 1]
                                ELSE Append(kept[n - 1], shown.rows[n])
  BY <1>1 DEF Keeps
<1> DEFINE Good(n) ==
      /\ kept[n] \in Seq(Answer)
      /\ \A k \in 1..Len(kept[n]) : \E j \in 1..n :
              kept[n][k] = shown.rows[j] /\ shown.rows[j].id # reply.id
      /\ \A j \in 1..n : shown.rows[j].id # reply.id =>
              \E k \in 1..Len(kept[n]) : kept[n][k] = shown.rows[j]
      /\ Apart(shown.rows) => Apart(kept[n])
<1> DEFINE Bad == {n \in Nat : n <= N /\ ~Good(n)}
<1>n. N \in Nat
  OBVIOUS
<1>4. ASSUME Bad # {} PROVE FALSE
  <2>1. PICK n \in Bad : \A m \in Bad : n <= m
    <3>1. \A b \in Bad : b \in Nat
      OBVIOUS
    <3> HIDE DEF Bad
    <3> QED
      BY <3>1, <1>4, LeastNat
  <2>2. n \in Nat /\ n <= N /\ ~Good(n)
    OBVIOUS
  <2>3. CASE n = 0
    <3>1. kept[0] = <<>>
      BY <1>3
    <3>2. Good(0)
      BY <3>1 DEF Apart
    <3> QED
      BY <3>2, <2>2, <2>3
  <2>4. CASE n # 0
    <3>1. n - 1 \in Nat /\ n - 1 <= N /\ ~(n <= n - 1)
      BY <2>2, <2>4, <1>n
    <3>2. Good(n - 1)
      <4>1. n - 1 \notin Bad
        <5> HIDE DEF Bad
        <5> QED
          BY <2>1, <3>1
      <4> QED
        BY <4>1, <3>1
    <3> DEFINE old == kept[n - 1]
               new == kept[n]
    <3>3. new = IF shown.rows[n].id = reply.id THEN old ELSE Append(old, shown.rows[n])
      BY <1>3, <2>2, <2>4, <1>n
    <3>4. n \in 1..N /\ shown.rows[n] \in Answer
      BY <2>2, <2>4, <1>n
    <3>5. /\ old \in Seq(Answer)
          /\ \A k \in 1..Len(old) : \E j \in 1..n - 1 :
                old[k] = shown.rows[j] /\ shown.rows[j].id # reply.id
          /\ \A j \in 1..n - 1 : shown.rows[j].id # reply.id =>
                \E k \in 1..Len(old) : old[k] = shown.rows[j]
          /\ Apart(shown.rows) => Apart(old)
      BY <3>2
    <3> HIDE DEF old, new, N, Good, Bad
    <3>6. \A j \in 1..n : j \in 1..n - 1 \/ j = n
      BY <2>2
    <3>7. 1..n - 1 \subseteq 1..n /\ n \in 1..n
      BY <3>1, <3>4
    <3>8. CASE shown.rows[n].id = reply.id
      <4>1. new = old
        BY <3>3, <3>8
      <4>2. /\ new \in Seq(Answer)
            /\ \A k \in 1..Len(new) : \E j \in 1..n :
                  new[k] = shown.rows[j] /\ shown.rows[j].id # reply.id
            /\ Apart(shown.rows) => Apart(new)
        BY <4>1, <3>5, <3>7
      <4>3. \A j \in 1..n : shown.rows[j].id # reply.id =>
                  \E k \in 1..Len(new) : new[k] = shown.rows[j]
        BY <4>1, <3>5, <3>6, <3>8
      <4> QED
        BY <4>2, <4>3, <2>2 DEF Good, new
    <3>9. CASE shown.rows[n].id # reply.id
      <4>1. new = Append(old, shown.rows[n])
        BY <3>3, <3>9
      <4>2. /\ new \in Seq(Answer) /\ Len(new) = Len(old) + 1
            /\ \A k \in 1..Len(old) : new[k] = old[k]
            /\ new[Len(old) + 1] = shown.rows[n]
            /\ Len(old) \in Nat
        BY <4>1, <3>4, <3>5
      <4>3. \A k \in 1..Len(new) : k \in 1..Len(old) \/ k = Len(old) + 1
        BY <4>2
      <4>4. 1..Len(old) \subseteq 1..Len(new) /\ Len(old) + 1 \in 1..Len(new)
        BY <4>2
      <4>5. \A k \in 1..Len(new) : \E j \in 1..n :
                  new[k] = shown.rows[j] /\ shown.rows[j].id # reply.id
        <5> TAKE k \in 1..Len(new)
        <5>1. CASE k \in 1..Len(old)
          <6>1. PICK j \in 1..n - 1 : old[k] = shown.rows[j] /\ shown.rows[j].id # reply.id
            BY <5>1, <3>5
          <6> QED
            BY <6>1, <5>1, <4>2, <3>7
        <5>2. CASE k = Len(old) + 1
          BY <5>2, <4>2, <3>7, <3>9
        <5> QED
          BY <5>1, <5>2, <4>3
      <4>6. \A j \in 1..n : shown.rows[j].id # reply.id =>
                  \E k \in 1..Len(new) : new[k] = shown.rows[j]
        BY <4>2, <4>4, <3>5, <3>6, <3>9
      <4>7. ASSUME Apart(shown.rows) PROVE Apart(new)
        <5>1. \A k \in 1..Len(old) : new[k].id # new[Len(old) + 1].id
          <6> TAKE k \in 1..Len(old)
          <6>1. PICK j \in 1..n - 1 : old[k] = shown.rows[j]
            BY <3>5
          <6>2. j \in 1..N /\ n \in 1..N /\ j # n
            BY <3>4, <3>1, <1>n
          <6>3. shown.rows[j].id # shown.rows[n].id
            BY <6>2, <4>7 DEF Apart, N
          <6> QED
            BY <6>1, <6>3, <4>2
        <5> QED
          BY <5>1, <4>2, <4>3, <4>7, <3>5 DEF Apart
      <4> QED
        BY <4>2, <4>5, <4>6, <4>7, <2>2 DEF Good, new
    <3> QED
      BY <3>8, <3>9
  <2> QED
    BY <2>3, <2>4
<1>5. Good(N)
  <2>1. N \notin Bad
    BY <1>4
  <2> HIDE DEF Good, N
  <2> QED
    BY <2>1, <1>n
<1> QED
  BY <1>2, <1>5

-----------------------------------------------------------------------------
(* Types.                                                                  *)

LEMMA Nothings == NoReply \in Answer /\ NoCall \in Call /\ NoCall.reply = NoReply
  BY DEF NoReply, Answer, NoCall, Call, AnyText

LEMMA ListedFull ==
  ASSUME ScreenInv
  PROVE  Listed \in Seq(Answer) /\ Full(Listed) /\ Len(Listed) = Len(table)
<1>1. table \in Seq(ARecord) /\ Len(table) >= 1 /\ Len(table) \in Nat
  BY DEF ScreenInv, ScreenTyped
<1>2. \A i \in 1..Len(table) : table[i] \in ARecord /\ table[i].version >= 1
  <2>1. \A i \in 1..Len(table) : table[i] \in ARecord
    BY <1>1
  <2>2. \A i \in 1..Len(table) : table[i].version >= 1
    BY DEF ScreenInv, Versions
  <2> QED
    BY <2>1, <2>2
<1>6. \A i \in 1..Len(table) : table[i].version \in Nat /\ table[i].version \in 1..table[i].version
  BY <1>2 DEF ARecord
<1>3. \A i \in 1..Len(table) : [id |-> i, version |-> table[i].version] \in Answer
  BY <1>6 DEF Answer
<1>4. Listed \in Seq(Answer) /\ Len(Listed) = Len(table)
  BY <1>1, <1>3 DEF Listed
<1>5. \A i \in 1..Len(table) : Listed[i] = [id |-> i, version |-> table[i].version]
  BY DEF Listed
<1>7. \A i \in 1..Len(table) : Listed[i].id = i /\ Had(Listed[i])
  <2> TAKE i \in 1..Len(table)
  <2>1. Listed[i].id = i /\ Listed[i].version = table[i].version
    <3>1. Listed[i] = [id |-> i, version |-> table[i].version]
      BY <1>5
    <3> HIDE DEF Listed
    <3> QED
      BY <3>1
  <2>2. i \in 1..Len(table) /\ table[i].version \in 1..table[i].version
    BY <1>6
  <2>3. Listed[i].version \in 1..table[Listed[i].id].version
    BY <2>1, <2>2
  <2> QED
    BY <2>1, <2>2, <2>3 DEF Had
<1> QED
  BY <1>1, <1>4, <1>7 DEF Full, Listing

\* The list that a screen may have after an answer.
LEMMA RowsAfter ==
  ASSUME ScreenInv, NEW c \in Calls, calls[c].reply # NoReply, NEW list,
         list \in {<<>>, shown.rows, InPlace(calls[c].reply), NewFirst(c), NewLast(c), Replaced(c)}
  PROVE  list \in Seq(Answer) /\ Listing(list)
<1> DEFINE x == calls[c].reply
           s == shown.rows
<1>1. s \in Seq(Answer) /\ Listing(s) /\ x \in Answer /\ Had(x) /\ Len(s) \in Nat
  BY DEF ScreenInv, ScreenTyped, ListsKnown, CallsSound, CallSound, Call
<1>2. InPlace(x) \in Seq(Answer) /\ Listing(InPlace(x))
  <2>1. InPlace(x) = [k \in 1..Len(s) |-> IF s[k].id = x.id THEN x ELSE s[k]]
    BY DEF InPlace
  <2>2. \A k \in 1..Len(s) : s[k] \in Answer /\ Had(s[k])
    BY <1>1 DEF Listing
  <2> HIDE DEF x, s
  <2>3. InPlace(x) \in Seq(Answer) /\ Len(InPlace(x)) = Len(s)
    BY <2>1, <2>2, <1>1
  <2> QED
    BY <2>1, <2>2, <2>3, <1>1 DEF Listing
<1>3. Append(s, x) \in Seq(Answer) /\ Listing(Append(s, x))
  <2>2. \A k \in 1..Len(s) : Append(s, x)[k] = s[k] /\ Had(s[k])
    BY <1>1 DEF Listing
  <2>3. \A k \in 1..Len(Append(s, x)) : k \in 1..Len(s) \/ (k = Len(s) + 1 /\ Append(s, x)[k] = x)
    BY <1>1
  <2>4. Append(s, x) \in Seq(Answer)
    BY <1>1
  <2> HIDE DEF x, s
  <2> QED
    BY <2>2, <2>3, <2>4, <1>1 DEF Listing
<1>4. <<x>> \o s \in Seq(Answer) /\ Listing(<<x>> \o s)
  <2> HIDE DEF x, s
  <2>1. <<x>> \o s \in Seq(Answer) /\ Len(<<x>> \o s) = Len(s) + 1
    BY <1>1
  <2>2. \A k \in 1..Len(s) + 1 : (<<x>> \o s)[k] = IF k = 1 THEN x ELSE s[k - 1]
    BY <1>1
  <2>3. \A k \in 1..Len(s) + 1 : k = 1 \/ k - 1 \in 1..Len(s)
    BY <1>1
  <2> QED
    BY <2>1, <2>2, <2>3, <1>1 DEF Listing
<1>5. Replaced(c) \in Seq(Answer) /\ Listing(Replaced(c))
  <2> DEFINE o == Others(x)
  <2>1. Replaced(c) = Append(o, x)
    BY DEF Replaced
  <2>2. o \in Seq(Answer) /\ \A k \in 1..Len(o) : \E j \in 1..Len(s) : o[k] = s[j]
    BY <1>1, OthersSound
  <2> HIDE DEF o, x, s
  <2>3. \A k \in 1..Len(o) : Had(o[k])
    BY <2>2, <1>1 DEF Listing
  <2>4. Append(o, x) \in Seq(Answer) /\ Len(o) \in Nat
    BY <2>2, <1>1
  <2>5. \A k \in 1..Len(Append(o, x)) :
          (k \in 1..Len(o) /\ Append(o, x)[k] = o[k]) \/ Append(o, x)[k] = x
    BY <2>2, <1>1
  <2> QED
    BY <2>1, <2>3, <2>4, <2>5, <1>1 DEF Listing
<1>6. <<>> \in Seq(Answer) /\ Listing(<<>>)
  BY DEF Listing
<1> QED
  BY <1>1, <1>2, <1>3, <1>4, <1>5, <1>6 DEF NewFirst, NewLast

\* A request that is about the first record gives it a new version.
LEMMA TouchedKnown ==
  ASSUME ScreenInv
  PROVE  /\ Touched \in Seq(ARecord) /\ Len(Touched) = Len(table)
         /\ \A j \in 1..Len(table) :
              /\ Touched[j].version >= table[j].version /\ Touched[j].key = table[j].key
              /\ Touched[j].text = table[j].text /\ Touched[j].intent = table[j].intent
              /\ Touched[j].version = IF j = 1 THEN table[j].version + 1 ELSE table[j].version
<1>1. table \in Seq(ARecord) /\ Len(table) \in Nat /\ 1 \in 1..Len(table)
  BY DEF ScreenInv, ScreenTyped
<1>2. \A j \in 1..Len(table) : table[j] \in ARecord
  BY <1>1
<1>a. table[1] \in ARecord
  BY <1>1, <1>2
<1>3. [table[1] EXCEPT !.version = @ + 1] \in ARecord
  BY <1>a DEF ARecord
<1>4. Touched = [table EXCEPT ![1] = [table[1] EXCEPT !.version = @ + 1]]
  BY DEF Touched
<1>5. Touched \in Seq(ARecord) /\ Len(Touched) = Len(table)
  BY <1>1, <1>3, <1>4
<1>6. \A j \in 1..Len(table) : Touched[j] = IF j = 1 THEN [table[1] EXCEPT !.version = @ + 1]
                                             ELSE table[j]
  BY <1>1, <1>4
<1>7. \A j \in 1..Len(table) :
        /\ Touched[j].version = IF j = 1 THEN table[j].version + 1 ELSE table[j].version
        /\ Touched[j].key = table[j].key /\ Touched[j].text = table[j].text
        /\ Touched[j].intent = table[j].intent
  BY <1>2, <1>6 DEF ARecord
<1>8. \A j \in 1..Len(table) : table[j].version \in Nat
  BY <1>2 DEF ARecord
<1>9. \A j \in 1..Len(table) : Touched[j].version >= table[j].version
  BY <1>7, <1>8
<1> QED
  BY <1>5, <1>7, <1>9

\* What a request about the first record answers.
LEMMA OfRecordKnown == ScreenInv => OfRecord \in Answer
<1> SUFFICES ASSUME ScreenInv PROVE OfRecord \in Answer
  OBVIOUS
<1>1. table \in Seq(ARecord) /\ 1 \in 1..Len(table)
  BY DEF ScreenInv, ScreenTyped
<1>a. table[1] \in ARecord
  BY <1>1
<1>2. table[1].version \in Nat
  BY <1>a DEF ARecord
<1> QED
  BY <1>2 DEF OfRecord, Answer

\* A creation is refused, or there is one more record; the first one may have a new version.
Creates(c) ==
  /\ Len(table') = Len(table) + 1
  /\ table'[Len(table) + 1] = [key |-> calls[c].key, text |-> calls[c].text, version |-> 1,
                               intent |-> calls[c].intent]
  /\ \A j \in 1..Len(table) :
       /\ table'[j].version = IF OnRecord /\ j = 1 THEN table[j].version + 1
                              ELSE table[j].version
       /\ table'[j].key = table[j].key /\ table'[j].text = table[j].text
       /\ table'[j].intent = table[j].intent
       /\ ~OnRecord => table'[j] = table[j]
  /\ Replies(c, IF OnRecord THEN OfRecord ELSE [id |-> Len(table) + 1, version |-> 1])

LEMMA Creation ==
  ASSUME ScreenInv, NEW c \in Calls, ServeCreate(c)
  PROVE  (UNCHANGED table /\ Replies(c, NoReply)) \/ (Creates(c) /\ ~Unacceptable(c))
<1> DEFINE new == [key |-> calls[c].key, text |-> calls[c].text, version |-> 1,
                   intent |-> calls[c].intent]
           reply == IF OnRecord THEN OfRecord ELSE [id |-> Len(table) + 1, version |-> 1]
<1>1. table \in Seq(ARecord) /\ Len(table) \in Nat
  BY DEF ScreenInv, ScreenTyped
<1>2. \/ UNCHANGED table /\ Replies(c, NoReply)
      \/ ~Unacceptable(c) /\ table' = Append(IF OnRecord THEN Touched ELSE table, new) /\ Replies(c, reply)
  BY DEF ServeCreate
<1>3. ASSUME table' = Append(IF OnRecord THEN Touched ELSE table, new), Replies(c, reply)
      PROVE  Creates(c)
  <2> HIDE DEF new
  <2>1. CASE OnRecord
    <3>1. Touched \in Seq(ARecord) /\ Len(Touched) = Len(table)
      BY TouchedKnown
    <3>2. \A j \in 1..Len(table) :
            /\ Touched[j].version = IF j = 1 THEN table[j].version + 1 ELSE table[j].version
            /\ Touched[j].key = table[j].key /\ Touched[j].text = table[j].text
            /\ Touched[j].intent = table[j].intent
      BY TouchedKnown
    <3>3. table' = Append(Touched, new)
      BY <1>3, <2>1
    <3>4. Len(table') = Len(table) + 1 /\ table'[Len(table) + 1] = new
      BY <1>1, <3>1, <3>3
    <3>5. \A j \in 1..Len(table) : table'[j] = Touched[j]
      BY <1>1, <3>1, <3>3
    <3> QED
      BY <1>3, <2>1, <3>2, <3>4, <3>5 DEF Creates, new
  <2>2. CASE ~OnRecord
    <3>1. Len(table') = Len(table) + 1 /\ table'[Len(table) + 1] = new
          /\ \A j \in 1..Len(table) : table'[j] = table[j]
      BY <1>1, <1>3, <2>2
    <3> QED
      BY <1>3, <2>2, <3>1 DEF Creates, new
  <2> QED
    BY <2>1, <2>2
<1> QED
  BY <1>2, <1>3

\* What a step does to requests and records: these stay, their versions grow.
LEMMA Grows ==
  ASSUME ScreenInv, Forms
  PROVE  /\ Len(table') >= Len(table)
         /\ \A i \in 1..Len(table) :
              /\ table'[i].version >= table[i].version /\ table'[i].key = table[i].key
              /\ table'[i].text = table[i].text /\ table'[i].intent = table[i].intent
         /\ table' \in Seq(ARecord)
         /\ screen' = screen
<1>1. table \in Seq(ARecord) /\ Len(table) \in Nat /\ calls \in [Calls -> Call]
  BY DEF ScreenInv, ScreenTyped
<1>2. \A i \in 1..Len(table) : table[i] \in ARecord /\ table[i].version \in Nat
  <2>1. \A i \in 1..Len(table) : table[i] \in ARecord
    BY <1>1
  <2> QED
    BY <2>1 DEF ARecord
<1>3. ASSUME UNCHANGED table
      PROVE  /\ Len(table') >= Len(table)
             /\ \A i \in 1..Len(table) :
                  /\ table'[i].version >= table[i].version /\ table'[i].key = table[i].key
                  /\ table'[i].text = table[i].text /\ table'[i].intent = table[i].intent
             /\ table' \in Seq(ARecord)
  BY <1>1, <1>2, <1>3
<1>4. ASSUME NEW i \in 1..Len(table), table' = [table EXCEPT ![i].version = @ + 1]
      PROVE  /\ Len(table') >= Len(table)
             /\ \A j \in 1..Len(table) :
                  /\ table'[j].version >= table[j].version /\ table'[j].key = table[j].key
                  /\ table'[j].text = table[j].text /\ table'[j].intent = table[j].intent
             /\ table' \in Seq(ARecord)
  <2>1. [table[i] EXCEPT !.version = @ + 1] \in ARecord
    BY <1>2 DEF ARecord
  <2>2. table' = [table EXCEPT ![i] = [table[i] EXCEPT !.version = @ + 1]]
    BY <1>4
  <2>3. table' \in Seq(ARecord) /\ Len(table') = Len(table)
    BY <1>1, <2>1, <2>2
  <2>4. \A j \in 1..Len(table) : table'[j] = IF j = i THEN [table[i] EXCEPT !.version = @ + 1]
                                             ELSE table[j]
    BY <1>1, <2>2
  <2>5. \A j \in 1..Len(table) :
          /\ table'[j].version = IF j = i THEN table[j].version + 1 ELSE table[j].version
          /\ table'[j].key = table[j].key /\ table'[j].text = table[j].text
          /\ table'[j].intent = table[j].intent
    BY <2>4, <1>2 DEF ARecord
  <2> QED
    BY <1>1, <1>2, <2>3, <2>5
<1>5. ASSUME NEW c \in Calls, table' = Append(table, [key |-> calls[c].key,
                  text |-> calls[c].text, version |-> 1, intent |-> calls[c].intent])
      PROVE  /\ Len(table') >= Len(table)
             /\ \A j \in 1..Len(table) :
                  /\ table'[j].version >= table[j].version /\ table'[j].key = table[j].key
                  /\ table'[j].text = table[j].text /\ table'[j].intent = table[j].intent
             /\ table' \in Seq(ARecord)
  <2>1. [key |-> calls[c].key, text |-> calls[c].text, version |-> 1,
         intent |-> calls[c].intent] \in ARecord
    BY <1>1 DEF Call, ARecord
  <2>2. table' \in Seq(ARecord) /\ Len(table') = Len(table) + 1
    BY <2>1, <1>1, <1>5
  <2>3. \A j \in 1..Len(table) : table'[j] = table[j]
    BY <1>1, <1>5
  <2> QED
    BY <1>1, <1>2, <2>2, <2>3
<1>b. ASSUME NEW c \in Calls, table' = Append(Touched, [key |-> calls[c].key,
                  text |-> calls[c].text, version |-> 1, intent |-> calls[c].intent])
      PROVE  /\ Len(table') >= Len(table)
             /\ \A j \in 1..Len(table) :
                  /\ table'[j].version >= table[j].version /\ table'[j].key = table[j].key
                  /\ table'[j].text = table[j].text /\ table'[j].intent = table[j].intent
             /\ table' \in Seq(ARecord)
  <2>1. [key |-> calls[c].key, text |-> calls[c].text, version |-> 1,
         intent |-> calls[c].intent] \in ARecord
    BY <1>1 DEF Call, ARecord
  <2>2. /\ Touched \in Seq(ARecord) /\ Len(Touched) = Len(table)
        /\ \A j \in 1..Len(table) :
             /\ Touched[j].version >= table[j].version /\ Touched[j].key = table[j].key
             /\ Touched[j].text = table[j].text /\ Touched[j].intent = table[j].intent
    BY TouchedKnown
  <2>3. table' \in Seq(ARecord) /\ Len(table') = Len(table) + 1
    BY <2>1, <2>2, <1>1, <1>b
  <2>4. \A j \in 1..Len(table) : table'[j] = Touched[j]
    BY <1>1, <2>2, <1>b
  <2> QED
    BY <1>1, <2>2, <2>3, <2>4
<1>6. ASSUME NEW c \in Calls, Serve(c)
      PROVE  \/ UNCHANGED table
             \/ \E i \in 1..Len(table) : table' = [table EXCEPT ![i].version = @ + 1]
             \/ \E list \in {table, Touched} :
                  table' = Append(list, [key |-> calls[c].key,
                    text |-> calls[c].text, version |-> 1, intent |-> calls[c].intent])
  <2>1. ~IsNew(c) => calls[c].on \in 1..Len(table)
    BY DEF ScreenInv, CallsSound, CallSound, Drafted, IsNew
  <2>2. 1 \in 1..Len(table)
    BY <1>1 DEF ScreenInv, ScreenTyped
  <2>3. CASE SkipKnownWork(c)
    BY <2>2, <2>3 DEF SkipKnownWork, Touched
  <2>4. CASE ServeReplay(c) \/ ServeEdit(c)
    BY <2>1, <2>4 DEF ServeReplay, ServeEdit
  <2>5. CASE ServeCreate(c)
    BY <2>5 DEF ServeCreate
  <2> QED
    BY <1>6, <2>3, <2>4, <2>5 DEF Serve
<1>7. \/ UNCHANGED table
      \/ \E i \in 1..Len(table) : table' = [table EXCEPT ![i].version = @ + 1]
      \/ \E c \in Calls, list \in {table, Touched} :
           table' = Append(list, [key |-> calls[c].key,
                  text |-> calls[c].text, version |-> 1, intent |-> calls[c].intent])
  <2>1. ASSUME \/ Opens \/ Fills \/ CloseForm \/ Sends \/ Reloads \/ Chooses \/ Acts
               \/ Served \/ Answers \/ Fails
        PROVE  UNCHANGED table
    BY <2>1 DEF Opens, Opening, Fills, Fill, CloseForm, Close, Sends, Send, Reloads, ReadAgain,
                Chooses, ChooseFilter, Acts, RowAction, Served, LoadServed, Answers, LoadAnswers,
                Fails, LoadFails
  <2>2. ASSUME NEW c \in Calls, \/ Lost(c) \/ NeverArrives(c) \/ Refused(c) \/ Saves(c)
                      \/ ReadsAgain(c) \/ ListRead(c) \/ ListUnread(c) \/ RowSaved(c)
        PROVE  UNCHANGED table
    BY <2>2 DEF Lost, NeverArrives, Refused, Saves, Saved, ReadsAgain, ListRead, ListUnread,
                RowSaved
  <2>3. ASSUME NEW i \in 1..Len(table), OtherEdit(i)
        PROVE  table' = [table EXCEPT ![i].version = @ + 1]
    BY <2>3 DEF OtherEdit
  <2> QED
    BY <1>6, <2>1, <2>2, <2>3 DEF Forms
<1>8. screen' = screen
  <2>1. ASSUME \/ Opens \/ Fills \/ CloseForm \/ Sends \/ Reloads \/ Chooses \/ Acts
               \/ Served \/ Answers \/ Fails
        PROVE  UNCHANGED screen
    BY <2>1 DEF Opens, Opening, Fills, Fill, CloseForm, Close, Sends, Send, Reloads, ReadAgain,
                Chooses, ChooseFilter, Acts, RowAction, Served, LoadServed, Answers, LoadAnswers,
                Fails, LoadFails
  <2>2. ASSUME NEW c \in Calls, \/ Lost(c) \/ NeverArrives(c) \/ Refused(c) \/ Saves(c)
                      \/ ReadsAgain(c) \/ ListRead(c) \/ ListUnread(c) \/ RowSaved(c)
                      \/ Serve(c)
        PROVE  UNCHANGED screen
    BY <2>2 DEF Lost, NeverArrives, Refused, Saves, Saved, ReadsAgain, ListRead, ListUnread,
                RowSaved, Serve
  <2>3. ASSUME NEW i \in 1..Len(table), OtherEdit(i)
        PROVE  UNCHANGED screen
    BY <2>3 DEF OtherEdit
  <2> QED
    BY <2>1, <2>2, <2>3 DEF Forms
<1> QED
  BY <1>3, <1>4, <1>5, <1>b, <1>7, <1>8

HadNext(a) == a.id \in 1..Len(table') /\ a.version \in 1..table'[a.id].version

LEMMA HadStays ==
  ASSUME ScreenInv, Forms, NEW a, Had(a)
  PROVE  HadNext(a)
<1>1. table \in Seq(ARecord) /\ Len(table) \in Nat /\ table' \in Seq(ARecord) /\ Len(table') \in Nat
      /\ Len(table') >= Len(table)
  BY Grows DEF ScreenInv, ScreenTyped
<1>2. a.id \in 1..Len(table) /\ a.version \in 1..table[a.id].version
  BY DEF Had
<1>3. table'[a.id].version >= table[a.id].version
  BY <1>2, Grows
<1>4. a.id \in 1..Len(table')
  BY <1>1, <1>2
<1>5. table[a.id] \in ARecord /\ table'[a.id] \in ARecord
  BY <1>1, <1>2, <1>4
<1>6. table[a.id].version \in Nat /\ table'[a.id].version \in Nat
  BY <1>5 DEF ARecord
<1> QED
  BY <1>2, <1>3, <1>4, <1>6 DEF HadNext

LEMMA CallOf ==
  ASSUME ScreenInv, NEW c \in Calls
  PROVE  calls[c] \in Call /\ CallSound(c)
  BY DEF ScreenInv, ScreenTyped, CallsSound

LEMMA TypedStep ==
  ASSUME ScreenInv, Forms
  PROVE  ScreenTyped'
<1>1. ScreenTyped
  BY DEF ScreenInv
<1>2. table' \in Seq(ARecord) /\ Len(table') >= 1 /\ screen' = screen
  <2>1. Len(table') >= Len(table) /\ Len(table) >= 1 /\ Len(table) \in Nat /\ table' \in Seq(ARecord)
    BY <1>1, Grows DEF ScreenTyped
  <2> QED
    BY <2>1, Grows
<1>a. Nothing \in AnyText /\ Texts \subseteq AnyText /\ NoRef \in [text : AnyText, key : 0..sends]
  /\ NoWish \in [text : AnyText, intent : 0..sends] /\ <<>> \in Seq(Answer) /\ 0 \in Nat
  BY <1>1 DEF AnyText, NoRef, NoWish, ScreenTyped
<1>b. MaxOpenings \in Nat /\ MaxSends \in Nat /\ MaxOthers \in Nat /\ sends \in Nat
  BY <1>1, BoundsAssumption DEF ScreenTyped
<1>c. ASSUME NEW f \in Filters, NEW n \in Nat
      PROVE  [n |-> n + 1, for |-> f, step |-> "asked", rows |-> <<>>] \in Reading
  BY <1>c, <1>a DEF Reading
<1>3. CASE Opens
  <2>1. PICK on \in Ids \cup {0}, nextRef \in {NoRef, ref}, nextSaving \in {saving, FALSE} :
          /\ Opening(on, nextRef, nextSaving)
          /\ loads' = loads \/ loads' = {}
    BY <1>3 DEF Opens
  <2>2. on \in Nat /\ (on # 0 => ShownVersion(on) \in Nat)
    BY <2>1, VersionShown DEF Had
  <2>3. form' \in [session : 0..MaxOpenings, open : BOOLEAN, on : Nat, base : Nat, text : AnyText]
    <3>1. form.session \in 0..MaxOpenings /\ form.session < MaxOpenings
      BY <2>1, <1>1 DEF Opening, ScreenTyped
    <3>2. form.session + 1 \in 0..MaxOpenings
      BY <3>1, <1>b
    <3> QED
      BY <2>1, <2>2, <3>2, <1>a DEF Opening
  <2> QED
    BY <1>1, <1>2, <1>a, <2>1, <2>3 DEF Opening, ScreenTyped
<1>4. CASE Fills \/ CloseForm
  <2>1. form' \in [session : 0..MaxOpenings, open : BOOLEAN, on : Nat, base : Nat, text : AnyText]
    BY <1>1, <1>4, <1>a DEF Fills, Fill, CloseForm, Close, ScreenTyped
  <2> QED
    BY <1>1, <1>2, <1>4, <2>1 DEF Fills, Fill, CloseForm, Close, ScreenTyped
<1>5. CASE Sends
  <2>1. PICK keyed, base : Send(keyed, base) /\ KeyFits(keyed) /\ base \in Nat
    BY <1>5 DEF Sends
  <2>2. form.text \in AnyText /\ form.on \in Nat /\ form.base \in Nat
    BY <1>1 DEF ScreenTyped
  <2>3. sends' = sends + 1 /\ sends < MaxSends /\ sends + 1 \in 0..MaxSends
    BY <2>1, <1>b DEF Send
  <2>4. keyed \in [text : AnyText, key : 0..sends + 1] /\ keyed.key \in Nat
    <3>1. keyed \in {ref, NoRef, [text |-> form.text, key |-> sends + 1]}
      BY <2>1 DEF KeyFits, KeyOfBody, KeyOfOpening
    <3>2. ref \in [text : AnyText, key : 0..sends + 1]
      BY <1>1, <1>b DEF ScreenTyped
    <3> QED
      BY <3>1, <3>2, <2>2, <1>b, <1>a DEF NoRef
  <2>5. ref' \in [text : AnyText, key : 0..sends + 1]
    <3>1. ref' \in {keyed, ref}
      BY <2>1 DEF Send
    <3>2. ref \in [text : AnyText, key : 0..sends + 1]
      BY <1>1, <1>b DEF ScreenTyped
    <3> QED
      BY <3>1, <3>2, <2>4
  <2>6. wish' \in [text : AnyText, intent : 0..sends + 1]
    <3>1. wish' \in {wish, [text |-> form.text, intent |-> sends + 1]}
      BY <2>1 DEF Send
    <3>2. wish \in [text : AnyText, intent : 0..sends + 1]
      BY <1>1, <1>b DEF ScreenTyped
    <3> QED
      BY <3>1, <3>2, <2>2, <1>b
  <2>7. calls' \in [Calls -> Call]
    <3>1. PICK c \in Calls, k \in Nat, n \in Nat :
            calls' = [calls EXCEPT ![c] =
                  [step |-> "sent", live |-> TRUE, row |-> FALSE, on |-> form.on, base |-> base,
                   drawn |-> form.base, text |-> form.text, key |-> k, intent |-> n,
                   reply |-> NoReply, for |-> filter, rows |-> <<>>]]
      <4>1. wish'.intent \in Nat
        BY <2>6, <1>b
      <4> QED
        BY <2>1, <2>4, <4>1 DEF Send, Request
    <3>2. [step |-> "sent", live |-> TRUE, row |-> FALSE, on |-> form.on, base |-> base,
                   drawn |-> form.base, text |-> form.text, key |-> k, intent |-> n,
                   reply |-> NoReply, for |-> filter, rows |-> <<>>] \in Call
      BY <2>1, <2>2, <1>a, <1>1, Nothings DEF Call, ScreenTyped
    <3> QED
      BY <3>1, <3>2, <1>1 DEF ScreenTyped
  <2> QED
    BY <1>1, <1>2, <2>1, <2>3, <2>5, <2>6, <2>7 DEF Send, ScreenTyped
<1>6. CASE Reloads \/ Chooses
  <2>1. PICK f \in Filters : /\ loads' \subseteq loads \cup
                                    {[n |-> asked + 1, for |-> f, step |-> "asked", rows |-> <<>>]}
                             /\ asked' = asked + 1 /\ filter' = f
    BY <1>1, <1>6 DEF Reloads, ReadAgain, Chooses, ChooseFilter, Fetch, Superseded, ScreenTyped
  <2>2. loads' \in SUBSET Reading /\ asked' \in Nat
    BY <2>1, <1>1, <1>c DEF ScreenTyped
  <2>3. shown' \in [for : Filters, rows : Seq(Answer), ready : BOOLEAN]
    BY <1>1, <1>6, <1>a DEF Reloads, ReadAgain, Chooses, ChooseFilter, ScreenTyped
  <2>4. form' \in [session : 0..MaxOpenings, open : BOOLEAN, on : Nat, base : Nat, text : AnyText]
    <3>1. form' = form \/ FormClosed
      BY <1>6 DEF Reloads, ReadAgain, Chooses
    <3> QED
      BY <1>1, <3>1 DEF FormClosed, ScreenTyped
  <2> QED
    BY <1>1, <1>2, <1>6, <2>1, <2>2, <2>3, <2>4 DEF Reloads, ReadAgain, Chooses, ChooseFilter, ScreenTyped
<1>7. CASE Acts
  <2>1. PICK i \in Ids : RowAction(i)
    BY <1>7 DEF Acts
  <2>2. i \in Nat /\ ShownVersion(i) \in Nat
    BY VersionShown DEF Had
  <2>3. sends' = sends + 1 /\ sends + 1 \in 0..MaxSends
    BY <2>1, <1>b DEF RowAction
  <2>4. calls' \in [Calls -> Call]
    <3>1. PICK c \in Calls :
            calls' = [calls EXCEPT ![c] =
                  [step |-> "sent", live |-> TRUE, row |-> TRUE, on |-> i,
                   base |-> ShownVersion(i), drawn |-> ShownVersion(i), text |-> Nothing,
                   key |-> 0, intent |-> 0, reply |-> NoReply, for |-> filter, rows |-> <<>>]]
      BY <2>1 DEF RowAction, Request
    <3>2. [step |-> "sent", live |-> TRUE, row |-> TRUE, on |-> i,
                   base |-> ShownVersion(i), drawn |-> ShownVersion(i), text |-> Nothing,
                   key |-> 0, intent |-> 0, reply |-> NoReply, for |-> filter, rows |-> <<>>] \in Call
      BY <2>2, <1>a, <1>1, Nothings DEF Call, ScreenTyped
    <3> QED
      BY <3>1, <3>2, <1>1 DEF ScreenTyped
  <2>5. ref' \in [text : AnyText, key : 0..sends'] /\ wish' \in [text : AnyText, intent : 0..sends']
    BY <2>1, <2>3, <1>1, <1>b DEF RowAction, ScreenTyped
  <2> QED
    BY <1>1, <1>2, <2>1, <2>3, <2>4, <2>5 DEF RowAction, ScreenTyped
<1>8. CASE Served
  <2>1. PICK l \in loads : LoadServed(l)
    BY <1>8 DEF Served
  <2>2. l \in Reading /\ Listed \in Seq(Answer)
    BY <1>1, ListedFull DEF ScreenTyped
  <2>3. [l EXCEPT !.step = "read", !.rows = Listed] \in Reading
    BY <2>2 DEF Reading
  <2>4. loads' \in SUBSET Reading
    BY <2>1, <2>3, <1>1 DEF LoadServed, ScreenTyped
  <2> QED
    BY <1>1, <1>2, <2>1, <2>4 DEF LoadServed, ScreenTyped
<1>9. CASE Answers
  <2>1. PICK l \in loads : LoadAnswers(l)
    BY <1>9 DEF Answers
  <2>2. l \in Reading /\ l.rows \in Seq(Answer) /\ l.for \in Filters
    BY <1>1 DEF Reading, ScreenTyped
  <2>3. shown' \in [for : Filters, rows : Seq(Answer), ready : BOOLEAN]
    <3>1. shown' = shown \/ shown' = [for |-> l.for, rows |-> l.rows, ready |-> TRUE]
      BY <2>1 DEF LoadAnswers
    <3>2. CASE shown' = shown
      BY <3>2, <1>1 DEF ScreenTyped
    <3>3. CASE shown' = [for |-> l.for, rows |-> l.rows, ready |-> TRUE]
      BY <3>3, <2>2
    <3> QED
      BY <3>1, <3>2, <3>3
  <2>4. form' \in [session : 0..MaxOpenings, open : BOOLEAN, on : Nat, base : Nat, text : AnyText]
    <3>1. ASSUME At("profile"), form.open PROVE l.rows[form.on].version \in Nat
      <4>1. form.on = 1
        <5>1. screen \notin Creating
          BY <3>1 DEF At, Creating, ByBody, ByOpening, ByNature, Forgetful
        <5>2. Len(table) = 1 /\ form.on \in 0..Len(table) /\ form.on # 0
          BY <5>1, <3>1 DEF ScreenInv, FormSound, Drafted
        <5> QED
          BY <5>2
      <4>2. Len(l.rows) >= 1
        BY <2>1 DEF ScreenInv, ListsKnown, Full, LoadAnswers
      <4>3. l.rows[1] \in Answer
        BY <4>2, <2>2
      <4> QED
        BY <4>1, <4>3 DEF Answer
    <3>2. CASE form' = form
      BY <3>2, <1>1 DEF ScreenTyped
    <3>3. CASE At("profile") /\ form.open /\ DraftReplaced(l)
      <4>1. PICK t \in Texts : form' = [form EXCEPT !.base = l.rows[form.on].version, !.text = t]
        BY <3>3 DEF DraftReplaced
      <4>2. t \in AnyText /\ form \in [session : 0..MaxOpenings, open : BOOLEAN, on : Nat, base : Nat, text : AnyText]
        BY <1>a, <1>1 DEF ScreenTyped
      <4> QED
        BY <4>1, <4>2, <3>1, <3>3
    <3> QED
      BY <2>1, <3>2, <3>3 DEF LoadAnswers
  <2>5. loads' \in SUBSET Reading
    BY <2>1, <1>1 DEF LoadAnswers, ScreenTyped
  <2> QED
    BY <1>1, <1>2, <2>1, <2>3, <2>4, <2>5 DEF LoadAnswers, ScreenTyped
<1>10. CASE Fails
  <2>1. shown' \in [for : Filters, rows : Seq(Answer), ready : BOOLEAN] /\ loads' \in SUBSET Reading
    BY <1>1, <1>10, <1>a DEF Fails, LoadFails, ScreenTyped
  <2> QED
    BY <1>1, <1>2, <1>10, <2>1 DEF Fails, LoadFails, ScreenTyped
<1>11. ASSUME NEW c \in Calls, Serve(c)
       PROVE  ScreenTyped'
  <2>1. calls' \in [Calls -> Call]
    <3>1. PICK reply \in Answer : Replies(c, reply)
      <4>1. CASE ServeReplay(c)
        <5>1. \A i \in 1..Len(table) : Listed[i] \in Answer
          BY ListedFull
        <5>2. 1 \in 1..Len(table)
          BY <1>1 DEF ScreenTyped
        <5> QED
          BY <4>1, <5>1, <5>2, Nothings DEF ServeReplay
      <4>4. CASE SkipKnownWork(c)
        BY <4>4, OfRecordKnown DEF SkipKnownWork
      <4>2. CASE ServeCreate(c)
        <5>1. [id |-> Len(table) + 1, version |-> 1] \in Answer
          BY <1>1 DEF Answer, ScreenTyped
        <5> QED
          BY <4>2, <5>1, OfRecordKnown, Nothings DEF ServeCreate
      <4>3. CASE ServeEdit(c)
        <5>1. calls[c].on \in 1..Len(table)
          BY <4>3, CallOf DEF CallSound, Drafted, ServeEdit, IsNew
        <5>2. table[calls[c].on] \in ARecord
          BY <5>1, <1>1 DEF ScreenTyped
        <5>3. table[calls[c].on].version \in Nat /\ calls[c].on \in Nat
          BY <5>1, <5>2 DEF ARecord
        <5>4. [id |-> calls[c].on, version |-> table[calls[c].on].version + 1] \in Answer
          BY <5>3 DEF Answer
        <5> QED
          BY <4>3, <5>4, Nothings DEF ServeEdit
      <4> QED
        BY <1>11, <4>1, <4>2, <4>3, <4>4 DEF Serve
    <3>2. [calls[c] EXCEPT !.step = "done", !.reply = reply] \in Call
      BY CallOf DEF Call
    <3>3. calls' = [calls EXCEPT ![c] = [calls[c] EXCEPT !.step = "done", !.reply = reply]]
          \/ calls' = [calls EXCEPT ![c] = NoCall]
      BY <3>1 DEF Replies
    <3> QED
      BY <3>2, <3>3, <1>1, Nothings DEF ScreenTyped
  <2> QED
    BY <1>1, <1>2, <1>11, <2>1 DEF Serve, ScreenTyped
<1>12. ASSUME NEW c \in Calls, Lost(c) \/ NeverArrives(c) \/ Refused(c)
       PROVE  ScreenTyped'
  <2>1. calls' \in [Calls -> Call]
    <3>1. [calls[c] EXCEPT !.live = FALSE] \in Call
      BY CallOf DEF Call
    <3> QED
      BY <1>1, <1>12, <3>1, Nothings DEF Lost, NeverArrives, Refused, ScreenTyped
  <2>2. saving' \in BOOLEAN /\ busy' \in BOOLEAN
    BY <1>1, <1>12 DEF Lost, NeverArrives, Refused, ScreenTyped, Unlocked
  <2>3. form' \in [session : 0..MaxOpenings, open : BOOLEAN, on : Nat, base : Nat, text : AnyText]
    BY <1>1, <1>12 DEF Lost, NeverArrives, Refused, FormClosed, ScreenTyped
  <2> QED
    BY <1>1, <1>2, <1>12, <2>1, <2>2, <2>3 DEF Lost, NeverArrives, Refused, ScreenTyped
<1>d. ASSUME NEW c \in Calls, FormDone(c)
      PROVE  /\ form' \in [session : 0..MaxOpenings, open : BOOLEAN, on : Nat, base : Nat, text : AnyText]
             /\ ref' \in [text : AnyText, key : 0..sends]
             /\ wish' \in [text : AnyText, intent : 0..sends]
             /\ saving' \in BOOLEAN
             /\ calls' \in [Calls -> Call]
             /\ told' \in SUBSET Answer
  <2>1. calls[c].reply \in Answer
    BY CallOf DEF Call
  <2> QED
    BY <1>1, <1>d, <2>1, <1>a, Nothings DEF FormDone, ScreenTyped
<1>13. ASSUME NEW c \in Calls, Saves(c)
       PROVE  ScreenTyped'
  <2>1. PICK list : /\ Saved(c, list) /\ SavedRows(c, list)
                    /\ \/ UNCHANGED <<loads, asked>>
                       \/ loads' = {} /\ UNCHANGED asked
                       \/ Fetch({}, filter)
    BY <1>13 DEF Saves
  <2>2. list \in Seq(Answer)
    BY <2>1, RowsAfter DEF Saved, SavedRows
  <2>3. shown' \in [for : Filters, rows : Seq(Answer), ready : BOOLEAN]
    BY <2>1, <2>2, <1>1 DEF Saved, ScreenTyped
  <2>4. loads' \in SUBSET Reading /\ asked' \in Nat
    BY <2>1, <1>1, <1>c DEF Fetch, ScreenTyped
  <2>5. FormDone(c)
    BY <2>1 DEF Saved
  <2> QED
    BY <1>1, <1>2, <2>1, <2>3, <2>4, <2>5, <1>d DEF Saved, ScreenTyped
<1>14. ASSUME NEW c \in Calls, ReadsAgain(c)
       PROVE  ScreenTyped'
  <2>1. calls' = [calls EXCEPT ![c] = [calls[c] EXCEPT !.step = "reread", !.rows = Listed]]
    BY <1>14, <1>1 DEF ReadsAgain, ScreenTyped
  <2>2. [calls[c] EXCEPT !.step = "reread", !.rows = Listed] \in Call
    BY CallOf, ListedFull DEF Call
  <2>3. calls' \in [Calls -> Call]
    BY <1>1, <2>1, <2>2 DEF ScreenTyped
  <2> QED
    BY <1>1, <1>2, <1>14, <2>3 DEF ReadsAgain, ScreenTyped
<1>15. ASSUME NEW c \in Calls, ListRead(c)
       PROVE  ScreenTyped'
  <2>1. FormDone(c)
    BY <1>15 DEF ListRead
  <2>2. calls[c].rows \in Seq(Answer) /\ calls[c].for \in Filters
    BY <1>15, CallOf DEF Call, CallSound, ListRead
  <2>3. shown' \in [for : Filters, rows : Seq(Answer), ready : BOOLEAN]
    BY <1>15, <2>2 DEF ListRead
  <2> QED
    BY <1>1, <1>2, <1>15, <2>1, <2>3, <1>d DEF ListRead, ScreenTyped
<1>16. ASSUME NEW c \in Calls, ListUnread(c)
       PROVE  ScreenTyped'
  BY <1>1, <1>2, <1>16, Nothings DEF ListUnread, KeyAfterListUnread, ScreenTyped
<1>17. ASSUME NEW c \in Calls, RowSaved(c)
       PROVE  ScreenTyped'
  <2>1. calls[c].reply \in Answer /\ calls' \in [Calls -> Call]
    BY <1>1, <1>17, Nothings, CallOf DEF Call, RowSaved, ScreenTyped
  <2>2. InPlace(calls[c].reply) \in Seq(Answer)
    BY <1>17, RowsAfter DEF RowSaved
  <2>3. shown' \in [for : Filters, rows : Seq(Answer), ready : BOOLEAN]
    BY <1>1, <1>17, <2>2 DEF RowSaved, ScreenTyped
  <2>4. loads' \in SUBSET Reading /\ asked' \in Nat
    BY <1>17, <1>1, <1>c DEF RowSaved, Superseded, Fetch, ScreenTyped
  <2>5. told' \in SUBSET Answer
    BY <1>1, <1>17, <2>1 DEF RowSaved, ScreenTyped
  <2> QED
    BY <1>1, <1>2, <1>17, <2>1, <2>3, <2>4, <2>5 DEF RowSaved, ScreenTyped
<1>18. ASSUME NEW i \in 1..Len(table), OtherEdit(i)
       PROVE  ScreenTyped'
  BY <1>1, <1>2, <1>18, <1>b DEF OtherEdit, ScreenTyped
<1> QED
  BY <1>3, <1>4, <1>5, <1>6, <1>7, <1>8, <1>9, <1>10, <1>11, <1>12, <1>13, <1>14, <1>15,
     <1>16, <1>17, <1>18 DEF Forms

-----------------------------------------------------------------------------
(* Forms.                                                                  *)

DraftedNext(on, version) ==
  /\ on \in 0..Len(table')
  /\ on = 0 => version = 0
  /\ on # 0 => version \in 1..table'[on].version /\ screen \in Editing \cup WithButtons

LEMMA DraftStays ==
  ASSUME ScreenInv, Forms, NEW on, NEW version, Drafted(on, version)
  PROVE  DraftedNext(on, version)
<1>1. Len(table) \in Nat /\ Len(table') \in Nat /\ Len(table') >= Len(table)
  BY Grows DEF ScreenInv, ScreenTyped
<1>2. CASE on = 0
  BY <1>1, <1>2 DEF Drafted, DraftedNext
<1>3. CASE on # 0
  <2> DEFINE a == [id |-> on, version |-> version]
  <2>1. Had(a)
    BY <1>3, <1>1 DEF Drafted, Had
  <2>2. HadNext(a)
    BY <2>1, HadStays
  <2> QED
    BY <1>1, <1>3, <2>2 DEF HadNext, Drafted, DraftedNext
<1> QED
  BY <1>2, <1>3

\* A draft or a request is of what was shown.
LEMMA ShownDraft ==
  ASSUME ScreenInv, Forms, NEW i \in Ids, screen \in Editing \cup WithButtons
  PROVE  DraftedNext(i, ShownVersion(i)) /\ i # 0
<1>1. Had([id |-> i, version |-> ShownVersion(i)])
  BY VersionShown
<1>2. i \in 1..Len(table) /\ ShownVersion(i) \in 1..table[i].version
  BY <1>1 DEF Had
<1>3. Len(table) \in Nat
  BY DEF ScreenInv, ScreenTyped
<1>4. Drafted(i, ShownVersion(i)) /\ i # 0
  BY <1>2, <1>3 DEF Drafted
<1> QED
  BY <1>4, DraftStays

LEMMA FormStep ==
  ASSUME ScreenInv, Forms
  PROVE  FormSound'
<1>1. ScreenTyped /\ FormSound /\ screen' = screen
  BY Grows DEF ScreenInv
<1>2. screen \notin Creating => Len(table') = 1
  <2> SUFFICES ASSUME screen \notin Creating PROVE Len(table') = 1
    OBVIOUS
  <2>1. Len(table) = 1 /\ table \in Seq(ARecord)
    BY <1>1 DEF FormSound, ScreenTyped
  <2>2. ASSUME NEW c \in Calls, Serve(c) PROVE Len(table') = 1
    <3>1. ~ (calls[c].step = "sent" /\ IsNew(c))
      BY CallOf DEF CallSound, IsNew
    <3>2. ~SkipKnownWork(c)
      BY DEF SkipKnownWork, Creating, ByBody, ByOpening, At
    <3> QED
      BY <2>1, <2>2, <3>1, <3>2 DEF Serve, ServeReplay, ServeCreate, ServeEdit
  <2>3. ASSUME NEW i \in 1..Len(table), OtherEdit(i) PROVE Len(table') = 1
    BY <2>1, <2>3 DEF OtherEdit
  <2>4. ASSUME \/ Opens \/ Fills \/ CloseForm \/ Sends \/ Reloads \/ Chooses \/ Acts
               \/ Served \/ Answers \/ Fails
        PROVE  UNCHANGED table
    BY <2>4 DEF Opens, Opening, Fills, Fill, CloseForm, Close, Sends, Send, Reloads, ReadAgain,
                Chooses, ChooseFilter, Acts, RowAction, Served, LoadServed, Answers, LoadAnswers,
                Fails, LoadFails
  <2>5. ASSUME NEW c \in Calls, \/ Lost(c) \/ NeverArrives(c) \/ Refused(c) \/ Saves(c)
                      \/ ReadsAgain(c) \/ ListRead(c) \/ ListUnread(c) \/ RowSaved(c)
        PROVE  UNCHANGED table
    BY <2>5 DEF Lost, NeverArrives, Refused, Saves, Saved, ReadsAgain, ListRead, ListUnread,
                RowSaved
  <2> QED
    BY <2>1, <2>2, <2>3, <2>4, <2>5 DEF Forms
<1>3. ASSUME form' = form PROVE FormSound'
  <2>1. DraftedNext(form.on, form.base)
    BY <1>1, DraftStays DEF FormSound
  <2> QED
    BY <1>1, <1>2, <1>3, <2>1 DEF FormSound, DraftedNext, Drafted
<1>4. ASSUME form'.on = form.on, form'.base = form.base, form'.open => form.open /\ form'.text \in Texts
      PROVE  FormSound'
  <2>1. DraftedNext(form.on, form.base)
    BY <1>1, DraftStays DEF FormSound
  <2> QED
    BY <1>1, <1>2, <1>4, <2>1 DEF FormSound, DraftedNext, Drafted
<1>5. CASE Opens
  <2>1. PICK on \in Ids \cup {0}, nextRef \in {NoRef, ref}, nextSaving \in {saving, FALSE} :
          /\ Opening(on, nextRef, nextSaving)
          /\ on # 0 => screen \in Editing
          /\ on = 0 => screen \in Creating
    BY <1>5 DEF Opens
  <2>2. /\ form'.on = on /\ form'.base = (IF on = 0 THEN 0 ELSE ShownVersion(on))
        /\ form'.text \in Texts
    BY <2>1 DEF Opening
  <2>3. on # 0 => DraftedNext(on, ShownVersion(on))
    BY <2>1, ShownDraft
  <2>4. DraftedNext(0, 0)
    BY <1>1, Grows DEF DraftedNext, ScreenTyped
  <2>5. DraftedNext(form'.on, form'.base)
    BY <2>2, <2>3, <2>4
  <2> QED
    BY <1>1, <1>2, <2>1, <2>2, <2>5 DEF FormSound, Drafted, DraftedNext
<1>a. ASSUME form' = form \/ FormClosed PROVE FormSound'
  <2>1. CASE FormClosed
    BY <1>1, <1>4, <2>1 DEF FormClosed, ScreenTyped
  <2> QED
    BY <1>3, <1>a, <2>1
<1>6. CASE Fills \/ CloseForm
  <2>1. /\ form'.on = form.on /\ form'.base = form.base
        /\ form'.open => form.open /\ form'.text \in Texts
    BY <1>1, <1>6 DEF Fills, Fill, CloseForm, Close, ScreenTyped
  <2> QED
    BY <1>4, <2>1
<1>b. CASE Chooses
  BY <1>a, <1>b DEF Chooses
<1>7. CASE Sends \/ Reloads \/ Acts \/ Served \/ Fails
  BY <1>3, <1>7 DEF Sends, Send, Reloads, ReadAgain, Acts, RowAction, Served, LoadServed, Fails,
                    LoadFails
<1>8. CASE Answers
  <2>1. PICK l \in loads : LoadAnswers(l)
    BY <1>8 DEF Answers
  <2>2. CASE form' = form
    BY <1>3, <2>2
  <2>3. CASE At("profile") /\ form.open /\ DraftReplaced(l)
    <3>1. form.on = 1 /\ screen \in Editing
      <4>1. screen \notin Creating /\ screen \in Editing
        BY <2>3 DEF At, Creating, ByBody, ByOpening, ByNature, Forgetful, Editing
      <4>2. Len(table) = 1 /\ form.on \in 0..Len(table) /\ form.on # 0
        BY <4>1, <2>3, <1>1 DEF FormSound, Drafted
      <4> QED
        BY <4>1, <4>2
    <3>2. Full(l.rows)
      BY <2>1 DEF ScreenInv, ListsKnown, LoadAnswers
    <3>3. l \in Reading
      BY <1>1 DEF ScreenTyped
    <3>4. 1 \in 1..Len(l.rows)
      BY <3>2, <3>3 DEF Full, Reading
    <3>5. l.rows[1].id = 1 /\ Had(l.rows[1])
      BY <3>2, <3>4 DEF Full, Listing
    <3>6. Drafted(1, l.rows[1].version)
      BY <3>1, <3>5, <1>1 DEF Had, Drafted, ScreenTyped
    <3>7. DraftedNext(1, l.rows[1].version)
      BY <3>6, DraftStays
    <3>8. PICK t \in Texts : form' = [form EXCEPT !.base = l.rows[form.on].version, !.text = t]
      BY <2>3 DEF DraftReplaced
    <3>9. form'.on = 1 /\ form'.base = l.rows[1].version /\ form'.text \in Texts /\ form'.open = form.open
      BY <3>1, <3>8, <1>1 DEF ScreenTyped
    <3> QED
      BY <1>1, <1>2, <3>1, <3>7, <3>9 DEF FormSound, Drafted, DraftedNext
  <2> QED
    BY <2>1, <2>2, <2>3 DEF LoadAnswers
<1>9. ASSUME NEW c \in Calls, \/ Serve(c) \/ Lost(c) \/ NeverArrives(c) \/ Refused(c)
                              \/ ReadsAgain(c) \/ ListUnread(c) \/ RowSaved(c)
      PROVE  FormSound'
  BY <1>a, <1>9 DEF Serve, Lost, NeverArrives, Refused, ReadsAgain, ListUnread, RowSaved
<1>10. ASSUME NEW c \in Calls, Saves(c) \/ ListRead(c)
       PROVE  FormSound'
  <2>1. form' = [form EXCEPT !.open = FALSE]
    BY <1>10 DEF Saves, Saved, ListRead, FormDone
  <2> QED
    BY <1>1, <1>4, <2>1 DEF ScreenTyped
<1>11. ASSUME NEW i \in 1..Len(table), OtherEdit(i)
       PROVE  FormSound'
  BY <1>3, <1>11 DEF OtherEdit
<1> QED
  BY <1>5, <1>6, <1>7, <1>8, <1>9, <1>10, <1>11, <1>b DEF Forms

-----------------------------------------------------------------------------
(* Requests.                                                               *)

FullNext(list) ==
  Len(list) >= 1 /\ \A k \in 1..Len(list) : HadNext(list[k]) /\ list[k].id = k

LEMMA FullStays ==
  ASSUME ScreenInv, Forms, NEW list, Full(list)
  PROVE  FullNext(list)
  BY HadStays DEF Full, Listing, FullNext

SoundNext(x) ==
  /\ x.step = "idle" => x = NoCall
  /\ DraftedNext(x.on, x.drawn)
  /\ x.step # "idle" => x.for \in Filters /\ (~x.row => x.text \in Texts)
  /\ x.on # 0 => x.intent = 0 /\ (Fresh => x.base = x.drawn)
  /\ x.step # "idle" /\ x.on = 0 => screen \in Creating
  /\ x.step \in {"done", "reread"} => x.live
  /\ x.row => screen \in WithButtons /\ x.on # 0 /\ x.step # "reread"
  /\ x.reply # NoReply => HadNext(x.reply)
  /\ x.step = "reread" => screen \in Rereading /\ FullNext(x.rows) /\ x.reply # NoReply
  /\ x.step # "idle" /\ screen \notin Choosing => x.for = filter'

LEMMA FilterStays ==
  ASSUME ScreenInv, Forms, screen \notin Choosing
  PROVE  filter' = filter
<1>1. ASSUME \/ Opens \/ Fills \/ CloseForm \/ Sends \/ Reloads \/ Acts
             \/ Served \/ Answers \/ Fails
      PROVE  UNCHANGED filter
  BY <1>1 DEF Opens, Opening, Fills, Fill, CloseForm, Close, Sends, Send, Reloads, ReadAgain,
              Acts, RowAction, Served, LoadServed, Answers, LoadAnswers, Fails, LoadFails
<1>2. ASSUME NEW c \in Calls, \/ Lost(c) \/ NeverArrives(c) \/ Refused(c) \/ Saves(c)
                    \/ ReadsAgain(c) \/ ListRead(c) \/ ListUnread(c) \/ RowSaved(c) \/ Serve(c)
      PROVE  UNCHANGED filter
  BY <1>2 DEF Lost, NeverArrives, Refused, Saves, Saved, ReadsAgain, ListRead, ListUnread,
              RowSaved, Serve
<1>3. ASSUME NEW i \in 1..Len(table), OtherEdit(i)
      PROVE  UNCHANGED filter
  BY <1>3 DEF OtherEdit
<1> QED
  BY <1>1, <1>2, <1>3 DEF Forms, Chooses

LEMMA CallStays ==
  ASSUME ScreenInv, Forms, NEW c \in Calls
  PROVE  SoundNext(calls[c])
<1>1. CallSound(c)
  BY CallOf
<1>2. DraftedNext(calls[c].on, calls[c].drawn)
  BY <1>1, DraftStays DEF CallSound
<1>3. calls[c].reply # NoReply => HadNext(calls[c].reply)
  BY <1>1, HadStays DEF CallSound
<1>4. calls[c].step = "reread" => FullNext(calls[c].rows)
  BY <1>1, FullStays DEF CallSound
<1>5. calls[c].step # "idle" /\ screen \notin Choosing => calls[c].for = filter'
  BY <1>1, FilterStays DEF CallSound
<1> QED
  BY <1>1, <1>2, <1>3, <1>4, <1>5 DEF CallSound, SoundNext

LEMMA NoCallStays ==
  ASSUME ScreenInv, Forms
  PROVE  SoundNext(NoCall)
<1>1. DraftedNext(0, 0)
  BY Grows DEF DraftedNext, ScreenInv, ScreenTyped
<1> QED
  BY <1>1 DEF SoundNext, NoCall

\* Each request of the next state is sound, so all are.
LEMMA CallsNext ==
  ASSUME ScreenInv, Forms, \A c \in Calls : SoundNext(calls'[c])
  PROVE  CallsSound'
<1>1. screen' = screen
  BY Grows
<1>2. Fresh' <=> Fresh
  BY <1>1 DEF Fresh, Unversioned
<1> QED
  BY <1>1, <1>2 DEF CallsSound, CallSound, SoundNext, DraftedNext, Drafted, HadNext, Had,
                    FullNext, Full, Listing

LEMMA CallsStep ==
  ASSUME ScreenInv, Forms
  PROVE  CallsSound'
<1>1. calls \in [Calls -> Call] /\ screen' = screen
  BY Grows DEF ScreenInv, ScreenTyped
<1>2. ASSUME UNCHANGED calls PROVE CallsSound'
  BY <1>2, CallStays, CallsNext
<1>3. ASSUME NEW c \in Calls, NEW x, calls' = [calls EXCEPT ![c] = x], SoundNext(x)
      PROVE  CallsSound'
  <2>1. \A d \in Calls : calls'[d] = IF d = c THEN x ELSE calls[d]
    BY <1>1, <1>3
  <2> QED
    BY <2>1, <1>3, CallStays, CallsNext
<1>4. CASE \/ Opens \/ Fills \/ CloseForm \/ Reloads \/ Chooses \/ Served \/ Answers \/ Fails
  BY <1>2, <1>4 DEF Opens, Opening, Fills, Fill, CloseForm, Close, Reloads, ReadAgain, Chooses,
                    ChooseFilter, Served, LoadServed, Answers, LoadAnswers, Fails, LoadFails
<1>5. CASE Sends
  <2>1. PICK keyed, base : Send(keyed, base) /\ (Fresh /\ form.on # 0 => base = form.base)
    BY <1>5 DEF Sends
  <2>2. PICK c \in Calls, n \in {0, wish'.intent}, k \in {0, keyed.key} :
            /\ calls' = [calls EXCEPT ![c] =
                  [step |-> "sent", live |-> TRUE, row |-> FALSE, on |-> form.on, base |-> base,
                   drawn |-> form.base, text |-> form.text, key |-> k, intent |-> n,
                   reply |-> NoReply, for |-> filter, rows |-> <<>>]]
            /\ form.on # 0 => n = 0
    BY <2>1 DEF Send, Request
  <2> DEFINE x == [step |-> "sent", live |-> TRUE, row |-> FALSE, on |-> form.on, base |-> base,
                   drawn |-> form.base, text |-> form.text, key |-> k, intent |-> n,
                   reply |-> NoReply, for |-> filter, rows |-> <<>>]
  <2>3. SoundNext(x)
    <3>1. FormSound /\ form.open /\ filter \in Filters
      BY <2>1 DEF ScreenInv, Send, ScreenTyped
    <3>2. DraftedNext(form.on, form.base)
      BY <3>1, DraftStays DEF FormSound
    <3>3. filter' = filter
      BY <2>1 DEF Send
    <3> QED
      BY <2>1, <2>2, <3>1, <3>2, <3>3 DEF SoundNext, FormSound
  <2> QED
    BY <1>3, <2>2, <2>3
<1>6. CASE Acts
  <2>1. PICK i \in Ids : RowAction(i) /\ screen \in WithButtons
    BY <1>6 DEF Acts
  <2>2. PICK c \in Calls :
            calls' = [calls EXCEPT ![c] =
                  [step |-> "sent", live |-> TRUE, row |-> TRUE, on |-> i,
                   base |-> ShownVersion(i), drawn |-> ShownVersion(i), text |-> Nothing,
                   key |-> 0, intent |-> 0, reply |-> NoReply, for |-> filter, rows |-> <<>>]]
    BY <2>1 DEF RowAction, Request
  <2> DEFINE x == [step |-> "sent", live |-> TRUE, row |-> TRUE, on |-> i,
                   base |-> ShownVersion(i), drawn |-> ShownVersion(i), text |-> Nothing,
                   key |-> 0, intent |-> 0, reply |-> NoReply, for |-> filter, rows |-> <<>>]
  <2>3. SoundNext(x)
    <3>1. DraftedNext(i, ShownVersion(i)) /\ i # 0
      BY <2>1, ShownDraft
    <3>2. filter' = filter /\ filter \in Filters
      BY <2>1 DEF RowAction, ScreenInv, ScreenTyped
    <3> QED
      BY <2>1, <3>1, <3>2 DEF SoundNext
  <2> QED
    BY <1>3, <2>2, <2>3
<1>7. ASSUME NEW c \in Calls, Serve(c) PROVE CallsSound'
  <2>1. PICK reply : Replies(c, reply) /\ (reply # NoReply => HadNext(reply)) /\ calls[c].step = "sent"
    <3>0. Len(table) \in Nat /\ table \in Seq(ARecord) /\ Len(table) >= 1
      BY DEF ScreenInv, ScreenTyped
    <3>1. CASE ServeReplay(c)
      <4>1. \A i \in 1..Len(table) : HadNext(Listed[i])
        BY ListedFull, HadStays DEF Full, Listing
      <4>2. 1 \in 1..Len(table)
        BY <3>0
      <4> QED
        BY <4>1, <4>2, <3>1 DEF ServeReplay
    <3>4. ASSUME Len(table') >= Len(table), table'[1].version = table[1].version + 1
          PROVE  HadNext(OfRecord)
      <4>1. 1 \in 1..Len(table) /\ table[1] \in ARecord /\ Len(table') \in Nat
        BY <3>0, Grows
      <4>2. table[1].version \in Nat
        BY <4>1 DEF ARecord
      <4>3. 1 \in 1..Len(table') /\ table[1].version + 1 \in 1..table'[1].version
        BY <3>0, <3>4, <4>1, <4>2
      <4> QED
        BY <4>3 DEF OfRecord, HadNext
    <3>5. CASE SkipKnownWork(c)
      <4>1. table' = Touched /\ Replies(c, OfRecord) /\ calls[c].step = "sent"
        BY <3>5 DEF SkipKnownWork
      <4>2. Len(table') >= Len(table) /\ table'[1].version = table[1].version + 1
        BY <3>0, <4>1, TouchedKnown
      <4> QED
        BY <3>4, <4>1, <4>2
    <3>2. CASE ServeCreate(c)
      <4>1. CASE UNCHANGED table /\ Replies(c, NoReply)
        BY <4>1, <3>2 DEF ServeCreate
      <4>2. CASE Creates(c)
        <5>1. Len(table') = Len(table) + 1 /\ table'[Len(table) + 1].version = 1
          BY <4>2, <3>0 DEF Creates
        <5>2. HadNext([id |-> Len(table) + 1, version |-> 1])
          BY <5>1, <3>0 DEF HadNext
        <5>3. OnRecord => HadNext(OfRecord)
          BY <3>0, <3>4, <4>2 DEF Creates
        <5> DEFINE reply == IF OnRecord THEN OfRecord ELSE [id |-> Len(table) + 1, version |-> 1]
        <5>4. Replies(c, reply) /\ HadNext(reply)
          BY <4>2, <5>2, <5>3 DEF Creates
        <5> HIDE DEF reply
        <5> QED
          BY <5>4, <3>2 DEF ServeCreate
      <4> QED
        BY <3>2, <4>1, <4>2, Creation
    <3>3. CASE ServeEdit(c)
      <4> DEFINE i == calls[c].on
      <4>1. CASE UNCHANGED table /\ Replies(c, NoReply)
        BY <4>1, <3>3 DEF ServeEdit
      <4>2. CASE /\ table' = [table EXCEPT ![i].version = @ + 1]
                 /\ Replies(c, [id |-> i, version |-> table[i].version + 1])
        <5>1. i \in 1..Len(table)
          BY <3>0, <3>3, CallOf DEF CallSound, Drafted, ServeEdit, IsNew
        <5>2. table[i] \in ARecord
          BY <3>0, <5>1
        <5>3. table[i].version \in Nat
          BY <5>2 DEF ARecord
        <5>4. Len(table') = Len(table) /\ table'[i] = [table[i] EXCEPT !.version = @ + 1]
          BY <4>2, <3>0, <5>1
        <5>5. table'[i].version = table[i].version + 1
          BY <5>4, <5>2 DEF ARecord
        <5>6. HadNext([id |-> i, version |-> table[i].version + 1])
          <6>1. i \in 1..Len(table')
            BY <5>1, <5>4
          <6>2. table[i].version + 1 \in 1..table'[i].version
            BY <5>3, <5>5
          <6> QED
            BY <6>1, <6>2 DEF HadNext
        <5> QED
          BY <4>2, <5>6, <3>3 DEF ServeEdit
      <4> QED
        BY <3>3, <4>1, <4>2 DEF ServeEdit
    <3> QED
      BY <1>7, <3>1, <3>2, <3>3, <3>5 DEF Serve
  <2>2. CASE calls[c].live
    <3> DEFINE x == [calls[c] EXCEPT !.step = "done", !.reply = reply]
    <3>1. calls' = [calls EXCEPT ![c] = x]
      BY <2>1, <2>2 DEF Replies
    <3>2. SoundNext(x)
      <4>1. calls[c] \in Call /\ SoundNext(calls[c])
        BY CallOf, CallStays
      <4>2. /\ x.step = "done" /\ x.reply = reply /\ x.live = TRUE
            /\ x.row = calls[c].row /\ x.on = calls[c].on /\ x.base = calls[c].base
            /\ x.drawn = calls[c].drawn /\ x.text = calls[c].text
            /\ x.intent = calls[c].intent /\ x.for = calls[c].for /\ x.rows = calls[c].rows
        BY <4>1, <2>2 DEF Call
      <4> HIDE DEF x
      <4> QED
        BY <4>1, <4>2, <2>1 DEF SoundNext
    <3> QED
      BY <1>3, <3>1, <3>2
  <2>3. CASE ~calls[c].live
    <3>1. calls' = [calls EXCEPT ![c] = NoCall]
      BY <2>1, <2>3 DEF Replies
    <3> QED
      BY <1>3, <3>1, NoCallStays
  <2> QED
    BY <2>2, <2>3
<1>8. ASSUME NEW c \in Calls, \/ NeverArrives(c) \/ Refused(c) \/ Saves(c) \/ ListRead(c)
                              \/ ListUnread(c) \/ RowSaved(c)
      PROVE  CallsSound'
  <2>1. calls' = [calls EXCEPT ![c] = NoCall]
    BY <1>8 DEF NeverArrives, Refused, Saves, Saved, FormDone, ListRead, ListUnread, RowSaved
  <2> QED
    BY <1>3, <2>1, NoCallStays
<1>9. ASSUME NEW c \in Calls, Lost(c) PROVE CallsSound'
  <2>1. CASE calls' = [calls EXCEPT ![c] = NoCall]
    BY <1>3, <2>1, NoCallStays
  <2>2. CASE calls[c].step = "sent" /\ calls' = [calls EXCEPT ![c] = [calls[c] EXCEPT !.live = FALSE]]
    <3> DEFINE x == [calls[c] EXCEPT !.live = FALSE]
    <3>1. SoundNext(x)
      <4>1. calls[c] \in Call /\ SoundNext(calls[c])
        BY CallOf, CallStays
      <4>2. /\ x.step = "sent" /\ x.reply = calls[c].reply
            /\ x.row = calls[c].row /\ x.on = calls[c].on /\ x.base = calls[c].base
            /\ x.drawn = calls[c].drawn /\ x.text = calls[c].text
            /\ x.intent = calls[c].intent /\ x.for = calls[c].for /\ x.rows = calls[c].rows
        BY <4>1, <2>2 DEF Call
      <4> HIDE DEF x
      <4> QED
        BY <4>1, <4>2, <2>2 DEF SoundNext
    <3> QED
      BY <1>3, <2>2, <3>1
  <2> QED
    BY <1>9, <1>1, <2>1, <2>2 DEF Lost
<1>10. ASSUME NEW c \in Calls, ReadsAgain(c) PROVE CallsSound'
  <2> DEFINE x == [calls[c] EXCEPT !.step = "reread", !.rows = Listed]
  <2>1. calls' = [calls EXCEPT ![c] = x]
    BY <1>1, <1>10 DEF ReadsAgain
  <2>2. SoundNext(x)
    <3>1. calls[c] \in Call /\ SoundNext(calls[c])
      BY CallOf, CallStays
    <3>2. /\ x.step = "reread" /\ x.reply = calls[c].reply /\ x.live = calls[c].live
          /\ x.row = calls[c].row /\ x.on = calls[c].on /\ x.base = calls[c].base
          /\ x.drawn = calls[c].drawn /\ x.text = calls[c].text
          /\ x.intent = calls[c].intent /\ x.for = calls[c].for /\ x.rows = Listed
      BY <3>1 DEF Call
    <3>3. FullNext(Listed)
      BY ListedFull, FullStays
    <3>4. calls[c].step = "done" /\ calls[c].reply # NoReply /\ screen \in Rereading
      BY <1>10 DEF ReadsAgain, Rereading
    <3>5. ~calls[c].row
      BY <3>1, <3>4 DEF SoundNext, Rereading, WithButtons
    <3> HIDE DEF x
    <3> QED
      BY <3>1, <3>2, <3>3, <3>4, <3>5 DEF SoundNext
  <2> QED
    BY <1>3, <2>1, <2>2
<1>11. ASSUME NEW i \in 1..Len(table), OtherEdit(i) PROVE CallsSound'
  BY <1>2, <1>11 DEF OtherEdit
<1> QED
  BY <1>4, <1>5, <1>6, <1>7, <1>8, <1>9, <1>10, <1>11 DEF Forms

-----------------------------------------------------------------------------
(* Locks.                                                                  *)

\* A request that nobody waits for any more unlocks what it locked.
Ends(c) ==
  /\ calls[c].live
  /\ \E x : calls' = [calls EXCEPT ![c] = x] /\ ~x.live
  /\ Unlocked(c)

LEMMA EndsUnlock ==
  ASSUME ScreenInv, Forms, NEW c \in Calls, Ends(c)
  PROVE  Locks'
<1>1. calls \in [Calls -> Call] /\ screen' = screen
  BY Grows DEF ScreenInv, ScreenTyped
<1>2. Locks
  BY DEF ScreenInv
<1>3. \A d \in Calls : d # c => calls'[d] = calls[d]
  BY <1>1 DEF Ends
<1>4. ~calls'[c].live /\ calls[c].live
  BY <1>1 DEF Ends
<1>5. calls[c].row \in BOOLEAN
  BY <1>1 DEF Call
<1>6. CASE calls[c].row
  <2>1. busy' = FALSE /\ saving' = saving
    BY <1>6 DEF Ends, Unlocked
  <2>2. \A d \in Calls : Under(d)' <=> Under(d)
    BY <1>3, <1>4, <1>6 DEF Under
  <2> QED
    BY <1>1, <1>2, <2>1, <2>2 DEF Locks
<1>7. CASE ~calls[c].row
  <2>1. saving' = FALSE /\ busy' = busy
    BY <1>7 DEF Ends, Unlocked
  <2>2. \A d \in Calls : Under(d)' <=> (Under(d) /\ d # c)
    BY <1>3, <1>4 DEF Under
  <2>3. Under(c)
    BY <1>4, <1>7 DEF Under
  <2>4. \A d \in Calls : calls[d].live /\ calls[d].row => calls'[d].live /\ calls'[d].row
    BY <1>3, <1>7
  <2> QED
    BY <1>1, <1>2, <2>1, <2>2, <2>3, <2>4 DEF Locks
<1> QED
  BY <1>5, <1>6, <1>7

LEMMA EndForms ==
  ASSUME ScreenInv, Forms, NEW c \in Calls,
         \/ Lost(c) \/ Refused(c) \/ Saves(c) \/ ListRead(c) \/ ListUnread(c) \/ RowSaved(c)
  PROVE  Ends(c)
<1>1. calls[c] \in Call /\ CallSound(c) /\ calls \in [Calls -> Call]
  BY CallOf DEF ScreenInv, ScreenTyped
<1>2. calls[c].live
  BY <1>1 DEF Lost, Refused, Saves, Saved, ListRead, ListUnread, RowSaved, CallSound
<1>3. ~NoCall.live /\ ~[calls[c] EXCEPT !.live = FALSE].live
  BY <1>1 DEF NoCall, Call
<1>4. CASE Lost(c) \/ Refused(c)
  BY <1>1, <1>2, <1>3, <1>4 DEF Lost, Refused, Ends
<1>5. CASE Saves(c)
  BY <1>2, <1>3, <1>5 DEF Saves, Saved, FormDone, Ends, Unlocked
<1>6. CASE ListRead(c) \/ ListUnread(c)
  <2>1. ~calls[c].row
    BY <1>1, <1>6 DEF ListRead, ListUnread, CallSound
  <2> QED
    BY <1>2, <1>3, <1>6, <2>1 DEF ListRead, ListUnread, FormDone, Ends, Unlocked
<1>7. CASE RowSaved(c)
  BY <1>2, <1>3, <1>7 DEF RowSaved, Ends, Unlocked
<1> QED
  BY <1>4, <1>5, <1>6, <1>7

LEMMA IdleCall ==
  ASSUME ScreenInv, NEW c \in Calls, calls[c].step = "idle"
  PROVE  ~calls[c].live /\ ~calls[c].row /\ calls[c] = NoCall
<1>1. calls[c] = NoCall
  BY CallOf DEF CallSound
<1>2. ~NoCall.live /\ ~NoCall.row
  BY DEF NoCall
<1> QED
  BY <1>1, <1>2

\* What is sent, from the form and from a row.
FormCall(base, key, intent) ==
  [step |-> "sent", live |-> TRUE, row |-> FALSE, on |-> form.on, base |-> base,
   drawn |-> form.base, text |-> form.text, key |-> key, intent |-> intent,
   reply |-> NoReply, for |-> filter, rows |-> <<>>]
RowCall(i) ==
  [step |-> "sent", live |-> TRUE, row |-> TRUE, on |-> i, base |-> ShownVersion(i),
   drawn |-> ShownVersion(i), text |-> Nothing, key |-> 0, intent |-> 0,
   reply |-> NoReply, for |-> filter, rows |-> <<>>]

LEMMA FormCalls ==
  ASSUME NEW keyed, NEW base, Send(keyed, base)
  PROVE  \E c \in Calls :
           /\ calls[c].step = "idle"
           /\ calls' = [calls EXCEPT ![c] =
                         FormCall(base, IF form.on = 0 THEN keyed.key ELSE 0,
                                  IF form.on = 0 THEN wish'.intent ELSE 0)]
  BY DEF Send, Request, FormCall

LEMMA RowCalls ==
  ASSUME NEW i, RowAction(i)
  PROVE  \E c \in Calls : calls[c].step = "idle" /\ calls' = [calls EXCEPT ![c] = RowCall(i)]
  BY DEF RowAction, Request, RowCall

LEMMA LocksStep ==
  ASSUME ScreenInv, Forms
  PROVE  Locks'
<1>1. calls \in [Calls -> Call] /\ screen' = screen /\ Locks /\ saving \in BOOLEAN
  BY Grows DEF ScreenInv, ScreenTyped
<1>2. ASSUME \A d \in Calls : calls'[d].live = calls[d].live /\ (calls[d].live => calls'[d].row = calls[d].row),
             saving' = saving, busy' = busy
      PROVE  Locks'
  <2>1. \A d \in Calls : Under(d)' <=> Under(d)
    BY <1>2 DEF Under
  <2> QED
    BY <1>1, <1>2, <2>1 DEF Locks
<1>3. CASE \/ Fills \/ CloseForm \/ Reloads \/ Chooses \/ Served \/ Answers \/ Fails
           \/ \E i \in 1..Len(table) : OtherEdit(i)
  BY <1>2, <1>3 DEF Fills, Fill, CloseForm, Close, Reloads, ReadAgain, Chooses, ChooseFilter,
              Served, LoadServed, Answers, LoadAnswers, Fails, LoadFails, OtherEdit
<1>4. CASE Opens
  <2>1. /\ calls' = calls /\ busy' = busy /\ saving' \in {saving, FALSE}
        /\ screen \notin Forgetful => saving' = saving
    BY <1>4 DEF Opens, Opening
  <2>2. \A d \in Calls : Under(d)' <=> Under(d)
    BY <2>1 DEF Under
  <2>3. CASE saving' = saving
    BY <1>1, <2>1, <2>2, <2>3 DEF Locks
  <2>4. CASE saving' = FALSE /\ screen \in Forgetful
    BY <1>1, <2>1, <2>2, <2>4 DEF Locks
  <2> QED
    BY <2>1, <2>3, <2>4
<1>5. CASE Sends
  <2>1. PICK keyed, base : Send(keyed, base)
    BY <1>5 DEF Sends
  <2>2. PICK c \in Calls : /\ calls[c].step = "idle"
                           /\ \E x : calls' = [calls EXCEPT ![c] = x] /\ x.live /\ ~x.row
    <3>1. \A k, n : FormCall(base, k, n).live /\ ~FormCall(base, k, n).row
      BY DEF FormCall
    <3> QED
      BY <2>1, <3>1, FormCalls
  <2>3. calls'[c].live /\ ~calls'[c].row /\ \A d \in Calls : d # c => calls'[d] = calls[d]
    BY <1>1, <2>2
  <2>4. saving' = TRUE /\ busy' = busy /\ ~saving
    BY <2>1 DEF Send
  <2>5. \A d \in Calls : Under(d)' <=> (Under(d) \/ d = c)
    BY <2>3, <2>2, IdleCall DEF Under
  <2>6. \A d \in Calls : calls[d].live /\ calls[d].row => calls'[d].live /\ calls'[d].row
    BY <2>3, <2>2, IdleCall
  <2> QED
    BY <1>1, <2>4, <2>5, <2>6 DEF Locks
<1>6. CASE Acts
  <2>1. PICK i \in Ids : RowAction(i)
    BY <1>6 DEF Acts
  <2>2. PICK c \in Calls : /\ calls[c].step = "idle"
                           /\ \E x : calls' = [calls EXCEPT ![c] = x] /\ x.live /\ x.row
    <3>1. RowCall(i).live /\ RowCall(i).row
      BY DEF RowCall
    <3> QED
      BY <2>1, <3>1, RowCalls
  <2>3. calls'[c].live /\ calls'[c].row /\ \A d \in Calls : d # c => calls'[d] = calls[d]
    BY <1>1, <2>2
  <2>4. saving' = saving /\ busy' = TRUE
    BY <2>1 DEF RowAction
  <2>5. \A d \in Calls : Under(d)' <=> Under(d)
    BY <2>3, <2>2, IdleCall DEF Under
  <2> QED
    BY <1>1, <2>3, <2>4, <2>5 DEF Locks
<1>7. ASSUME NEW c \in Calls, Serve(c) \/ NeverArrives(c) \/ ReadsAgain(c)
      PROVE  Locks'
  <2>1. calls[c] \in Call
    BY <1>1
  <2>2. \/ \E reply : Replies(c, reply)
        \/ calls' = [calls EXCEPT ![c] = NoCall] /\ ~calls[c].live
        \/ calls' = [calls EXCEPT ![c] = [calls[c] EXCEPT !.step = "reread", !.rows = Listed]]
    <3>1. CASE Serve(c)
      BY <3>1 DEF Serve, ServeReplay, SkipKnownWork, ServeCreate, ServeEdit
    <3>2. CASE NeverArrives(c)
      BY <3>2 DEF NeverArrives
    <3>3. CASE ReadsAgain(c)
      BY <3>3, <1>1 DEF ReadsAgain
    <3> QED
      BY <1>7, <3>1, <3>2, <3>3
  <2>3. \/ calls' = [calls EXCEPT ![c] = NoCall] /\ ~calls[c].live
        \/ \E x : /\ calls' = [calls EXCEPT ![c] = x]
                  /\ x.live = calls[c].live /\ x.row = calls[c].row
    <3>1. ASSUME NEW reply
          PROVE  /\ [calls[c] EXCEPT !.step = "done", !.reply = reply].live = calls[c].live
                 /\ [calls[c] EXCEPT !.step = "done", !.reply = reply].row = calls[c].row
      BY <2>1 DEF Call
    <3>2. /\ [calls[c] EXCEPT !.step = "reread", !.rows = Listed].live = calls[c].live
          /\ [calls[c] EXCEPT !.step = "reread", !.rows = Listed].row = calls[c].row
      BY <2>1 DEF Call
    <3> QED
      BY <2>2, <3>1, <3>2 DEF Replies
  <2>4. ~NoCall.live /\ NoCall.live = FALSE
    BY DEF NoCall
  <2>5. calls[c].live \in BOOLEAN
    BY <2>1 DEF Call
  <2>6. saving' = saving /\ busy' = busy
    BY <1>7 DEF Serve, NeverArrives, ReadsAgain
  <2> QED
    BY <1>1, <1>2, <2>3, <2>4, <2>5, <2>6
<1>8. ASSUME NEW c \in Calls, \/ Lost(c) \/ Refused(c) \/ Saves(c)
                      \/ ListRead(c) \/ ListUnread(c) \/ RowSaved(c)
      PROVE  Locks'
  BY <1>8, EndForms, EndsUnlock
<1> QED
  BY <1>3, <1>4, <1>5, <1>6, <1>7, <1>8 DEF Forms

-----------------------------------------------------------------------------
(* Versions.                                                               *)

\* Requests under way were sent.
LEMMA PendingSize ==
  ASSUME ScreenInv
  PROVE  /\ IsFiniteSet(Pending) /\ Cardinality(Pending) \in Nat
         /\ Cardinality(Pending) <= sends + others
<1>1. IsFiniteSet(Pending)
  BY CallsAssumption, FS_Subset DEF Pending
<1>2. Cardinality(Pending) \in Nat
  BY <1>1, FS_CardinalityType
<1>3. 1 \in 1..Len(table) /\ table[1] \in ARecord /\ sends \in Nat /\ others \in Nat
  BY DEF ScreenInv, ScreenTyped
<1>4. table[1].version \in Nat
  BY <1>3 DEF ARecord
<1>5. table[1].version >= 1 /\ table[1].version + Cardinality(Pending) <= 1 + sends + others
  BY <1>3 DEF ScreenInv, Versions
<1> QED
  BY <1>1, <1>2, <1>3, <1>4, <1>5

LEMMA VersionsStep ==
  ASSUME ScreenInv, Forms
  PROVE  Versions'
<1>1. /\ calls \in [Calls -> Call] /\ Versions /\ sends \in Nat /\ others \in Nat
      /\ table \in Seq(ARecord) /\ Len(table) \in Nat
  BY DEF ScreenInv, ScreenTyped
<1>2. IsFiniteSet(Pending) /\ Cardinality(Pending) \in Nat /\ Cardinality(Pending) <= sends + others
  BY PendingSize
<1>3. \A i \in 1..Len(table) :
         /\ table[i].version \in Nat /\ table[i].version >= 1
         /\ table[i].version + Cardinality(Pending) <= 1 + sends + others
  <2>1. \A i \in 1..Len(table) : table[i] \in ARecord
    BY <1>1
  <2>2. \A i \in 1..Len(table) : table[i].version \in Nat
    BY <2>1 DEF ARecord
  <2> QED
    BY <2>2, <1>1 DEF Versions
<1>4. ASSUME Pending' \subseteq Pending
      PROVE  Cardinality(Pending') <= Cardinality(Pending) /\ Cardinality(Pending') \in Nat
  BY <1>2, <1>4, FS_Subset, FS_CardinalityType
<1>5. ASSUME Pending' \subseteq Pending, UNCHANGED <<table, sends, others>>
      PROVE  Versions'
  <2>1. Cardinality(Pending') <= Cardinality(Pending) /\ Cardinality(Pending') \in Nat
    BY <1>4, <1>5
  <2>2. \A i \in 1..Len(table') : table'[i].version >= 1
              /\ table'[i].version + Cardinality(Pending') <= 1 + sends' + others'
    BY <1>1, <1>2, <1>3, <1>5, <2>1
  <2> QED
    BY <2>2 DEF Versions
<1>6. ASSUME NEW c \in Calls, calls[c].step = "idle", sends' = sends + 1, UNCHANGED <<table, others>>,
             \A d \in Calls : d # c => calls'[d] = calls[d]
      PROVE  Versions'
  <2>1. Pending' \subseteq Pending \cup {c} /\ c \notin Pending
    BY <1>6 DEF Pending
  <2>2. Cardinality(Pending \cup {c}) = Cardinality(Pending) + 1 /\ IsFiniteSet(Pending \cup {c})
    BY <1>2, <2>1, FS_AddElement
  <2>3. Cardinality(Pending') <= Cardinality(Pending) + 1 /\ Cardinality(Pending') \in Nat
    BY <2>1, <2>2, FS_Subset, FS_CardinalityType
  <2>4. \A i \in 1..Len(table') : table'[i].version >= 1
              /\ table'[i].version + Cardinality(Pending') <= 1 + sends' + others'
    BY <1>1, <1>2, <1>3, <1>6, <2>3
  <2> QED
    BY <2>4 DEF Versions
<1>7. ASSUME NEW i \in 1..Len(table), table' = [table EXCEPT ![i].version = @ + 1]
      PROVE  \A j \in 1..Len(table') : /\ j \in 1..Len(table)
               /\ table'[j].version = IF j = i THEN table[j].version + 1 ELSE table[j].version
  <2>1. Len(table') = Len(table)
    BY <1>1, <1>7
  <2>2. \A j \in 1..Len(table) : table'[j] = IF j = i THEN [table[i] EXCEPT !.version = @ + 1]
                                             ELSE table[j]
    BY <1>1, <1>7
  <2>3. \A j \in 1..Len(table) : table[j] \in ARecord
    BY <1>1
  <2> QED
    BY <2>1, <2>2, <2>3 DEF ARecord
<1>8. CASE \/ Opens \/ Fills \/ CloseForm \/ Reloads \/ Chooses \/ Served \/ Answers \/ Fails
  <2>1. UNCHANGED <<calls, table, sends, others>>
    BY <1>8 DEF Opens, Opening, Fills, Fill, CloseForm, Close, Reloads, ReadAgain, Chooses,
                    ChooseFilter, Served, LoadServed, Answers, LoadAnswers, Fails, LoadFails
  <2>2. Pending' = Pending
    BY <2>1 DEF Pending
  <2> QED
    BY <1>5, <2>1, <2>2
<1>9. CASE Sends
  <2>1. PICK keyed, base : Send(keyed, base)
    BY <1>9 DEF Sends
  <2>2. PICK c \in Calls : calls[c].step = "idle" /\ \E x : calls' = [calls EXCEPT ![c] = x]
    BY <2>1, FormCalls
  <2>3. \A d \in Calls : d # c => calls'[d] = calls[d]
    BY <1>1, <2>2
  <2> QED
    BY <2>1, <2>2, <2>3, <1>6 DEF Send
<1>10. CASE Acts
  <2>1. PICK i \in Ids : RowAction(i)
    BY <1>10 DEF Acts
  <2>2. PICK c \in Calls : calls[c].step = "idle" /\ \E x : calls' = [calls EXCEPT ![c] = x]
    BY <2>1, RowCalls
  <2>3. \A d \in Calls : d # c => calls'[d] = calls[d]
    BY <1>1, <2>2
  <2> QED
    BY <2>1, <2>2, <2>3, <1>6 DEF RowAction
<1>11. ASSUME NEW c \in Calls, Serve(c)
       PROVE  Versions'
  <2>1. calls[c].step = "sent" /\ \E reply : Replies(c, reply)
    BY <1>11 DEF Serve, ServeReplay, SkipKnownWork, ServeCreate, ServeEdit
  <2>2. calls'[c].step # "sent" /\ \A d \in Calls : d # c => calls'[d] = calls[d]
    <3>1. \A reply : [calls[c] EXCEPT !.step = "done", !.reply = reply].step = "done"
      BY <1>1 DEF Call
    <3>2. NoCall.step = "idle"
      BY DEF NoCall
    <3> QED
      BY <1>1, <2>1, <3>1, <3>2 DEF Replies
  <2>3. Pending' = Pending \ {c} /\ c \in Pending
    BY <2>1, <2>2 DEF Pending
  <2>4. Cardinality(Pending') = Cardinality(Pending) - 1 /\ Cardinality(Pending') \in Nat
    BY <2>3, <1>2, FS_RemoveElement, FS_CardinalityType
  <2>5. UNCHANGED <<sends, others>>
    BY <1>11 DEF Serve
  <2>6. CASE UNCHANGED table
    BY <1>5, <2>3, <2>5, <2>6
  <2>7. CASE ServeCreate(c) /\ ~UNCHANGED table
    <3>2. Len(table') = Len(table) + 1 /\ table'[Len(table) + 1].version = 1
          /\ \A i \in 1..Len(table) : table'[i].version \in {table[i].version, table[i].version + 1}
      <4>1. Creates(c)
        BY <2>7, Creation
      <4>2. [key |-> calls[c].key, text |-> calls[c].text, version |-> 1,
             intent |-> calls[c].intent].version = 1
        OBVIOUS
      <4>3. \A i \in 1..Len(table) : table'[i].version = IF OnRecord /\ i = 1
              THEN table[i].version + 1 ELSE table[i].version
        BY <4>1 DEF Creates
      <4>4. Len(table') = Len(table) + 1 /\ table'[Len(table) + 1].version = 1
        BY <4>1, <4>2 DEF Creates
      <4> QED
        BY <4>3, <4>4
    <3>3. \A i \in 1..Len(table') : i \in 1..Len(table) \/ i = Len(table) + 1
      BY <3>2, <1>1
    <3>4. ASSUME NEW i \in 1..Len(table')
          PROVE  table'[i].version >= 1
              /\ table'[i].version + Cardinality(Pending') <= 1 + sends' + others'
      <4>1. CASE i \in 1..Len(table)
        <5>1. table'[i].version \in {table[i].version, table[i].version + 1}
          BY <4>1, <3>2
        <5>2. /\ table[i].version \in Nat /\ table[i].version >= 1
              /\ table[i].version + Cardinality(Pending) <= 1 + sends + others
          BY <4>1, <1>3
        <5> QED
          BY <5>1, <5>2, <1>1, <1>2, <2>4, <2>5
      <4>2. CASE i = Len(table) + 1
        BY <4>2, <3>2, <1>1, <1>2, <2>4, <2>5
      <4> QED
        BY <4>1, <4>2, <3>3
    <3> QED
      BY <3>4 DEF Versions
  <2>8. CASE ServeEdit(c) /\ ~UNCHANGED table
    <3> DEFINE i == calls[c].on
    <3>1. i \in 1..Len(table)
      BY <1>1, <2>8, CallOf DEF CallSound, Drafted, ServeEdit, IsNew
    <3>2. table' = [table EXCEPT ![i].version = @ + 1]
      BY <2>8 DEF ServeEdit
    <3>3. \A j \in 1..Len(table') : /\ j \in 1..Len(table)
               /\ table'[j].version = IF j = i THEN table[j].version + 1 ELSE table[j].version
      BY <3>1, <3>2, <1>7
    <3> HIDE DEF i
    <3>4. ASSUME NEW j \in 1..Len(table')
          PROVE  table'[j].version >= 1
              /\ table'[j].version + Cardinality(Pending') <= 1 + sends' + others'
      <4>1. j \in 1..Len(table) /\ table'[j].version \in {table[j].version, table[j].version + 1}
        BY <3>3
      <4>2. /\ table[j].version \in Nat /\ table[j].version >= 1
            /\ table[j].version + Cardinality(Pending) <= 1 + sends + others
        BY <4>1, <1>3
      <4> QED
        BY <4>1, <4>2, <1>1, <1>2, <2>4, <2>5
    <3> QED
      BY <3>4 DEF Versions
  <2>9. CASE ServeReplay(c) /\ ~UNCHANGED table
    BY <2>9 DEF ServeReplay
  <2>10. CASE SkipKnownWork(c)
    <3>1. table' = Touched
      BY <2>10 DEF SkipKnownWork
    <3>2. Len(table') = Len(table)
          /\ \A j \in 1..Len(table) : table'[j].version \in {table[j].version, table[j].version + 1}
      BY <3>1, TouchedKnown
    <3>3. ASSUME NEW j \in 1..Len(table')
          PROVE  table'[j].version >= 1
              /\ table'[j].version + Cardinality(Pending') <= 1 + sends' + others'
      <4>1. j \in 1..Len(table) /\ table'[j].version \in {table[j].version, table[j].version + 1}
        BY <3>2
      <4>2. /\ table[j].version \in Nat /\ table[j].version >= 1
            /\ table[j].version + Cardinality(Pending) <= 1 + sends + others
        BY <4>1, <1>3
      <4> QED
        BY <4>1, <4>2, <1>1, <1>2, <2>4, <2>5
    <3> QED
      BY <3>3 DEF Versions
  <2> QED
    BY <1>11, <2>6, <2>7, <2>8, <2>9, <2>10 DEF Serve
<1>12. ASSUME NEW i \in 1..Len(table), OtherEdit(i)
       PROVE  Versions'
  <2>1. /\ table' = [table EXCEPT ![i].version = @ + 1] /\ others' = others + 1
        /\ UNCHANGED <<calls, sends>>
    BY <1>12 DEF OtherEdit
  <2>2. Pending' = Pending
    BY <2>1 DEF Pending
  <2>3. \A j \in 1..Len(table') : /\ j \in 1..Len(table)
               /\ table'[j].version = IF j = i THEN table[j].version + 1 ELSE table[j].version
    BY <2>1, <1>7
  <2>4. ASSUME NEW j \in 1..Len(table')
        PROVE  table'[j].version >= 1
              /\ table'[j].version + Cardinality(Pending') <= 1 + sends' + others'
    <3> DEFINE n == Cardinality(Pending)
               v == table[j].version
    <3>1. j \in 1..Len(table) /\ table'[j].version = IF j = i THEN v + 1 ELSE v
      BY <2>3
    <3>2. v \in Nat /\ v >= 1 /\ v + n <= 1 + sends + others
      BY <1>3, <3>1
    <3>3. n \in Nat /\ sends \in Nat /\ others \in Nat
      BY <1>1, <1>2
    <3>4. Cardinality(Pending') = n
      BY <2>2
    <3>5. others' = others + 1 /\ sends' = sends
      BY <2>1
    <3> HIDE DEF n, v
    <3> QED
      BY ONLY <3>1, <3>2, <3>3, <3>4, <3>5
  <2> QED
    BY <2>4 DEF Versions
<1>13. ASSUME NEW c \in Calls, \/ Lost(c) \/ NeverArrives(c) \/ Refused(c) \/ Saves(c)
                      \/ ReadsAgain(c) \/ ListRead(c) \/ ListUnread(c) \/ RowSaved(c)
       PROVE  Versions'
  <2>1. UNCHANGED <<table, sends, others>>
    BY <1>13 DEF Lost, NeverArrives, Refused, Saves, Saved, ReadsAgain, ListRead, ListUnread,
                 RowSaved
  <2>2. \E x : calls' = [calls EXCEPT ![c] = x] /\ (x.step = "sent" => calls[c].step = "sent")
    <3>1. NoCall.step = "idle"
      BY DEF NoCall
    <3>2. /\ [calls[c] EXCEPT !.live = FALSE].step = calls[c].step
          /\ [calls[c] EXCEPT !.step = "reread", !.rows = Listed].step = "reread"
      BY <1>1 DEF Call
    <3>3. CASE Lost(c)
      BY <3>1, <3>2, <3>3, <1>1 DEF Lost
    <3>4. CASE ReadsAgain(c)
      BY <3>2, <3>4, <1>1 DEF ReadsAgain
    <3>5. CASE \/ NeverArrives(c) \/ Refused(c) \/ Saves(c) \/ ListRead(c) \/ ListUnread(c)
               \/ RowSaved(c)
      BY <3>1, <3>5 DEF NeverArrives, Refused, Saves, Saved, FormDone, ListRead, ListUnread, RowSaved
    <3> QED
      BY <1>13, <3>3, <3>4, <3>5
  <2>3. Pending' \subseteq Pending
    BY <1>1, <2>2 DEF Pending
  <2> QED
    BY <1>5, <2>1, <2>3
<1> QED
  BY <1>8, <1>9, <1>10, <1>11, <1>12, <1>13 DEF Forms

-----------------------------------------------------------------------------
(* Lists.                                                                  *)

LEMMA FullApart == ASSUME NEW list, Full(list) PROVE Apart(list)
  BY DEF Full, Apart

LEMMA ApartAfter ==
  ASSUME ScreenInv, NEW c \in Calls, Apart(shown.rows)
  PROVE  /\ Apart(InPlace(calls[c].reply)) /\ Apart(Replaced(c))
         /\ calls[c].reply.id \notin Ids => Apart(NewLast(c))
<1> DEFINE x == calls[c].reply
           s == shown.rows
<1>1. s \in Seq(Answer) /\ x \in Answer /\ Len(s) \in Nat
  <2>1. s \in Seq(Answer)
    BY DEF ScreenInv, ScreenTyped
  <2>2. calls[c] \in Call
    BY CallOf
  <2>3. x \in Answer
    BY ONLY <2>2 DEF Call
  <2> HIDE DEF s, x
  <2> QED
    BY ONLY <2>1, <2>3
<1>2. Apart(InPlace(x))
  <2>1. InPlace(x) = [k \in 1..Len(s) |-> IF s[k].id = x.id THEN x ELSE s[k]]
    BY DEF InPlace
  <2> HIDE DEF x, s
  <2>2. InPlace(x) \in Seq(Answer) /\ Len(InPlace(x)) = Len(s)
    BY <2>1, <1>1
  <2>3. \A k \in 1..Len(s) : InPlace(x)[k].id = s[k].id
    BY <2>1
  <2> QED
    BY <2>2, <2>3, <1>1 DEF Apart, s
<1>3. ASSUME NEW o \in Seq(Answer), Apart(o), \A k \in 1..Len(o) : o[k].id # x.id
      PROVE  Apart(Append(o, x))
  <2> HIDE DEF x
  <2>1. Append(o, x) \in Seq(Answer) /\ Len(Append(o, x)) = Len(o) + 1 /\ Len(o) \in Nat
    BY <1>1
  <2>2. /\ \A k \in 1..Len(o) : Append(o, x)[k] = o[k]
        /\ Append(o, x)[Len(o) + 1] = x
    BY <1>1
  <2>3. \A k \in 1..Len(Append(o, x)) : k \in 1..Len(o) \/ k = Len(o) + 1
    BY <2>1
  <2>4. \A k \in 1..Len(o) : Append(o, x)[k].id # Append(o, x)[Len(o) + 1].id
    BY <2>2, <1>3
  <2> QED
    BY <2>2, <2>3, <2>4, <1>3 DEF Apart
<1>4. Apart(Replaced(c))
  <2>1. /\ Others(x) \in Seq(Answer) /\ Apart(Others(x))
        /\ \A k \in 1..Len(Others(x)) : Others(x)[k].id # x.id
    <3>1. /\ Others(x) \in Seq(Answer) /\ Apart(Others(x))
          /\ \A k \in 1..Len(Others(x)) : \E j \in 1..Len(s) :
               Others(x)[k] = s[j] /\ s[j].id # x.id
      <4> HIDE DEF x
      <4> QED
        BY <1>1, OthersSound
    <3> HIDE DEF x, s
    <3> QED
      BY <3>1
  <2> QED
    BY <1>3, <2>1 DEF Replaced
<1>5. ASSUME x.id \notin Ids PROVE Apart(NewLast(c))
  <2>1. \A k \in 1..Len(s) : s[k].id # x.id
    BY <1>5 DEF Ids
  <2>2. Apart(Append(s, x))
    BY <1>1, <1>3, <2>1
  <2> QED
    BY <1>2, <2>2 DEF NewLast
<1> QED
  BY <1>2, <1>4, <1>5

LEMMA ApartStep ==
  ASSUME ScreenInv, Forms, screen \in Distinct
  PROVE  Apart(shown'.rows)
<1>1. Apart(shown.rows) /\ ListsKnown /\ ScreenTyped
  BY DEF ScreenInv, ListsKnown
<1>n. Apart(<<>>)
  BY DEF Apart
<1>a. CASE Chooses
  <2>1. shown'.rows \in {<<>>, shown.rows}
    BY <1>1, <1>a DEF Chooses, ChooseFilter, ScreenTyped
  <2> QED
    BY <1>1, <1>n, <2>1
<1>2. CASE \/ Opens \/ Fills \/ CloseForm \/ Sends \/ Reloads \/ Acts \/ Served
           \/ \E i \in 1..Len(table) : OtherEdit(i)
  <2>1. shown'.rows = shown.rows
    BY <1>1, <1>2 DEF Opens, Opening, Fills, Fill, CloseForm, Close, Sends, Send, Reloads, ReadAgain,
              Acts, RowAction, Served, LoadServed, OtherEdit, ScreenTyped
  <2> QED
    BY <1>1, <2>1
<1>3. CASE Answers
  <2>1. PICK l \in loads : LoadAnswers(l)
    BY <1>3 DEF Answers
  <2>2. shown'.rows = shown.rows \/ (shown'.rows = l.rows /\ Full(l.rows))
    BY <2>1, <1>1 DEF LoadAnswers, ListsKnown
  <2> QED
    BY <1>1, <2>2, FullApart
<1>4. CASE Fails
  <2>1. shown'.rows \in {<<>>, shown.rows}
    BY <1>1, <1>4 DEF Fails, LoadFails, ScreenTyped
  <2> QED
    BY <1>1, <1>n, <2>1
<1>5. ASSUME NEW c \in Calls, \/ Lost(c) \/ NeverArrives(c) \/ Refused(c)
                    \/ ReadsAgain(c) \/ ListUnread(c) \/ Serve(c)
      PROVE  Apart(shown'.rows)
  BY <1>1, <1>5 DEF Lost, NeverArrives, Refused, ReadsAgain, ListUnread, Serve
<1>6. ASSUME NEW c \in Calls, ListRead(c)
      PROVE  Apart(shown'.rows)
  BY <1>6, CallOf, FullApart DEF ListRead, CallSound
<1>7. ASSUME NEW c \in Calls, RowSaved(c)
      PROVE  Apart(shown'.rows)
  <2>1. shown' = shown \/ shown' = [shown EXCEPT !.rows = InPlace(calls[c].reply)]
    BY <1>7 DEF RowSaved
  <2> QED
    BY <2>1, <1>1, ApartAfter DEF ScreenTyped
<1>8. ASSUME NEW c \in Calls, Saves(c)
      PROVE  Apart(shown'.rows)
  <2>1. PICK list : Saved(c, list) /\ SavedRows(c, list) /\ screen \notin Rereading
    BY <1>8 DEF Saves
  <2>2. shown'.rows = list
    BY <2>1, <1>1 DEF Saved, ScreenTyped
  <2>3. \/ list = shown.rows \/ list = Replaced(c) \/ list = <<>>
        \/ (calls[c].reply.id \notin Ids /\ list = NewLast(c))
    BY <2>1 DEF SavedRows, Distinct, Rereading
  <2> QED
    BY <1>1, <1>n, <2>2, <2>3, ApartAfter
<1> QED
  BY <1>a, <1>2, <1>3, <1>4, <1>5, <1>6, <1>7, <1>8 DEF Forms

LEMMA ShownStep ==
  ASSUME ScreenInv, Forms
  PROVE  \A k \in 1..Len(shown'.rows) : HadNext(shown'.rows[k])
<1>1. Listing(shown.rows) /\ ListsKnown /\ ScreenTyped
  BY DEF ScreenInv, ListsKnown
<1>2. ASSUME Listing(shown'.rows) PROVE \A k \in 1..Len(shown'.rows) : HadNext(shown'.rows[k])
  BY <1>2, HadStays DEF Listing
<1>n. Listing(<<>>)
  BY DEF Listing
<1>a. CASE Chooses
  <2>1. shown'.rows \in {<<>>, shown.rows}
    BY <1>1, <1>a DEF Chooses, ChooseFilter, ScreenTyped
  <2> QED
    BY <1>1, <1>2, <1>n, <2>1
<1>3. CASE \/ Opens \/ Fills \/ CloseForm \/ Sends \/ Reloads \/ Acts \/ Served
           \/ \E i \in 1..Len(table) : OtherEdit(i)
  <2>1. shown'.rows = shown.rows
    BY <1>1, <1>3 DEF Opens, Opening, Fills, Fill, CloseForm, Close, Sends, Send, Reloads, ReadAgain,
              Acts, RowAction, Served, LoadServed, OtherEdit, ScreenTyped
  <2> QED
    BY <1>1, <1>2, <2>1
<1>4. CASE Answers
  <2>1. PICK l \in loads : LoadAnswers(l)
    BY <1>4 DEF Answers
  <2>2. shown'.rows = shown.rows \/ (shown'.rows = l.rows /\ Full(l.rows))
    BY <2>1, <1>1 DEF LoadAnswers, ListsKnown
  <2> QED
    BY <1>1, <1>2, <2>2 DEF Full
<1>5. CASE Fails
  <2>1. shown'.rows \in {<<>>, shown.rows}
    BY <1>1, <1>5 DEF Fails, LoadFails, ScreenTyped
  <2> QED
    BY <1>1, <1>2, <1>n, <2>1
<1>6. ASSUME NEW c \in Calls, \/ Lost(c) \/ NeverArrives(c) \/ Refused(c)
                    \/ ReadsAgain(c) \/ ListUnread(c) \/ Serve(c)
      PROVE  \A k \in 1..Len(shown'.rows) : HadNext(shown'.rows[k])
  BY <1>1, <1>2, <1>6 DEF Lost, NeverArrives, Refused, ReadsAgain, ListUnread, Serve
<1>7. ASSUME NEW c \in Calls, ListRead(c)
      PROVE  \A k \in 1..Len(shown'.rows) : HadNext(shown'.rows[k])
  BY <1>7, <1>2, CallOf DEF ListRead, CallSound, Full
<1>8. ASSUME NEW c \in Calls, RowSaved(c)
      PROVE  \A k \in 1..Len(shown'.rows) : HadNext(shown'.rows[k])
  <2>1. shown' = shown \/ shown' = [shown EXCEPT !.rows = InPlace(calls[c].reply)]
    BY <1>8 DEF RowSaved
  <2>2. Listing(InPlace(calls[c].reply))
    BY <1>8, RowsAfter DEF RowSaved
  <2> QED
    BY <2>1, <2>2, <1>1, <1>2 DEF ScreenTyped
<1>9. ASSUME NEW c \in Calls, Saves(c)
      PROVE  \A k \in 1..Len(shown'.rows) : HadNext(shown'.rows[k])
  <2>1. PICK list : Saved(c, list) /\ SavedRows(c, list)
    BY <1>9 DEF Saves
  <2>2. shown'.rows = list
    BY <2>1, <1>1 DEF Saved, ScreenTyped
  <2>3. Listing(list)
    BY <2>1, RowsAfter DEF SavedRows, Saved
  <2> QED
    BY <2>2, <2>3, <1>2
<1> QED
  BY <1>a, <1>3, <1>4, <1>5, <1>6, <1>7, <1>8, <1>9 DEF Forms

\* Reads under way are for the filter that is chosen, and what they bring is whole.
LEMMA LoadsStep ==
  ASSUME ScreenInv, Forms
  PROVE  \A l \in loads' : l.for = filter' /\ (l.step = "read" => FullNext(l.rows))
<1>1. \A l \in loads : l.for = filter /\ l \in Reading /\ (l.step = "read" => FullNext(l.rows))
  BY FullStays DEF ScreenInv, ListsKnown, ScreenTyped
<1>2. CASE \/ Opens \/ Fills \/ CloseForm \/ Sends \/ Acts \/ Answers \/ Fails
           \/ \E i \in 1..Len(table) : OtherEdit(i)
  <2>1. loads' \subseteq loads /\ filter' = filter
    BY <1>2 DEF Opens, Opening, Fills, Fill, CloseForm, Close, Sends, Send,
              Acts, RowAction, Answers, LoadAnswers, Fails, LoadFails, OtherEdit
  <2> QED
    BY <1>1, <2>1
<1>3. CASE Chooses
  <2>1. loads' = {[n |-> asked + 1, for |-> filter', step |-> "asked", rows |-> <<>>]}
    BY <1>3 DEF Chooses, ChooseFilter, Fetch, Superseded
  <2> QED
    BY <2>1
<1>a. CASE Reloads
  <2>1. /\ loads' \subseteq loads \cup {[n |-> asked + 1, for |-> filter, step |-> "asked", rows |-> <<>>]}
        /\ filter' = filter
    BY <1>a DEF Reloads, ReadAgain, Fetch
  <2> QED
    BY <1>1, <2>1
<1>4. CASE Served
  <2>1. PICK l \in loads : LoadServed(l)
    BY <1>4 DEF Served
  <2> DEFINE m == [l EXCEPT !.step = "read", !.rows = Listed]
  <2>2. loads' \subseteq loads \cup {m} /\ filter' = filter
    BY <2>1 DEF LoadServed
  <2>3. m.for = filter /\ m.rows = Listed
    BY <1>1 DEF Reading
  <2>4. FullNext(Listed)
    BY ListedFull, FullStays
  <2> QED
    BY <1>1, <2>2, <2>3, <2>4
<1>5. ASSUME NEW c \in Calls, \/ Lost(c) \/ NeverArrives(c) \/ Refused(c)
                    \/ ReadsAgain(c) \/ ListUnread(c) \/ Serve(c) \/ ListRead(c)
      PROVE  loads' = loads /\ filter' = filter
  BY <1>5 DEF Lost, NeverArrives, Refused, ReadsAgain, ListUnread, Serve, ListRead
<1>6. ASSUME NEW c \in Calls, RowSaved(c) \/ Saves(c)
      PROVE  /\ \/ loads' \subseteq loads
                \/ loads' = {[n |-> asked + 1, for |-> filter, step |-> "asked", rows |-> <<>>]}
             /\ filter' = filter
  BY <1>6 DEF RowSaved, Saves, Saved, Fetch, Superseded
<1> QED
  BY <1>1, <1>2, <1>3, <1>a, <1>4, <1>5, <1>6 DEF Forms

LEMMA ForFilterStep ==
  ASSUME ScreenInv, Forms, screen # "finance"
  PROVE  shown'.ready => shown'.for = filter'
<1>1. (shown.ready => shown.for = filter) /\ ListsKnown /\ ScreenTyped
  BY DEF ScreenInv, ListsKnown
<1>2. CASE \/ Opens \/ Fills \/ CloseForm \/ Sends \/ Reloads \/ Acts \/ Served
           \/ \E i \in 1..Len(table) : OtherEdit(i)
  BY <1>1, <1>2 DEF Opens, Opening, Fills, Fill, CloseForm, Close, Sends, Send, Reloads, ReadAgain,
              Acts, RowAction, Served, LoadServed, OtherEdit
<1>3. CASE Chooses \/ Fails
  <2>1. ~shown'.ready
    BY <1>1, <1>3 DEF Chooses, ChooseFilter, Fails, LoadFails, ScreenTyped
  <2> QED
    BY <2>1
<1>4. CASE Answers
  <2>1. PICK l \in loads : LoadAnswers(l)
    BY <1>4 DEF Answers
  <2>2. filter' = filter /\ (shown' = shown \/ shown'.for = l.for)
    BY <2>1 DEF LoadAnswers
  <2> QED
    BY <1>1, <2>2 DEF ListsKnown
<1>5. ASSUME NEW c \in Calls, \/ Lost(c) \/ NeverArrives(c) \/ Refused(c)
                    \/ ReadsAgain(c) \/ ListUnread(c) \/ Serve(c)
      PROVE  shown'.ready => shown'.for = filter'
  BY <1>1, <1>5 DEF Lost, NeverArrives, Refused, ReadsAgain, ListUnread, Serve
<1>6. ASSUME NEW c \in Calls, ListRead(c)
      PROVE  shown'.ready => shown'.for = filter'
  <2>1. calls[c].step = "reread" /\ screen \in Rereading
    BY <1>6, CallOf DEF ListRead, CallSound
  <2>2. calls[c].for = filter
    BY <2>1, CallOf DEF CallSound, Rereading, Choosing
  <2> QED
    BY <1>6, <2>2 DEF ListRead
<1>7. ASSUME NEW c \in Calls, RowSaved(c) \/ Saves(c)
      PROVE  shown'.ready => shown'.for = filter'
  <2>1. filter' = filter /\ shown'.ready = shown.ready /\ shown'.for = shown.for
    BY <1>1, <1>7 DEF RowSaved, Saves, Saved, ScreenTyped
  <2> QED
    BY <1>1, <2>1
<1> QED
  BY <1>2, <1>3, <1>4, <1>5, <1>6, <1>7 DEF Forms

LEMMA ListsStep ==
  ASSUME ScreenInv, Forms
  PROVE  ListsKnown'
<1>1. screen' = screen
  BY Grows
<1>2. Listing(shown.rows)'
  BY ShownStep DEF HadNext, Listing, Had
<1>3. (\A l \in loads : l.for = filter /\ (l.step = "read" => Full(l.rows)))'
  BY LoadsStep DEF FullNext, HadNext, Full, Listing, Had
<1>4. (screen \in Distinct => Apart(shown.rows))'
  BY <1>1, ApartStep DEF Apart
<1>5. (screen # "finance" => (shown.ready => shown.for = filter))'
  BY <1>1, ForFilterStep
<1> QED
  BY <1>2, <1>3, <1>4, <1>5 DEF ListsKnown

-----------------------------------------------------------------------------
(* Creations.                                                              *)

LEMMA MeaningEq ==
  \A x, y : x.intent = y.intent /\ x.text = y.text /\ x.key = y.key => Meaning(x) = Meaning(y)
  BY DEF Meaning

LEMMA MeaningFields ==
  \A x : Meaning(x).intent = x.intent /\ Meaning(x).text = x.text /\ Meaning(x).key = x.key
  BY DEF Meaning

LEMMA Wished == [intent |-> wish.intent, text |-> wish.text, key |-> ref.key] \in Meant
  BY DEF Meant

LEMMA CallMeant == ASSUME NEW c \in Calls PROVE Meaning(calls[c]) \in Meant
  BY DEF Meant

LEMMA RowMeant == ASSUME NEW i \in 1..Len(table) PROVE Meaning(table[i]) \in Meant
  BY DEF Meant

\* Nothing is meant that was not, or it is new, or it is no creation.
OnlyNew(new) ==
  \A m \in Meant' : m \in Meant \/ (m.intent = 0 /\ m.key \in 0..sends') \/ m = new

LEMMA OnceStays ==
  ASSUME ScreenInv, Forms, screen \notin Forgetful, OnceMeant, sends' >= sends, sends' \in Nat,
         NEW new, OnlyNew(new),
         new \in Meant \/ (/\ new.intent \in sends + 1..sends' /\ new.key \in 0..sends' /\ new.text \in Texts
                           /\ (screen \in ByBody \cup ByOpening => new.key # 0)
                           /\ screen \in ByBody \cup ByOpening \cup ByNature)
  PROVE  OnceMeant'
<1>1. screen' = screen /\ sends \in Nat
  BY Grows DEF ScreenInv, ScreenTyped
<1>2. \A m \in Meant' : m \in Meant \/ (m.intent = 0 /\ m.key \in 0..sends')
         \/ (m = new /\ m.intent \in sends + 1..sends' /\ m.key \in 0..sends' /\ m.text \in Texts
                           /\ (screen \in ByBody \cup ByOpening => m.key # 0)
                           /\ screen \in ByBody \cup ByOpening \cup ByNature)
  BY DEF OnlyNew
<1>3. \A m \in Meant : m.intent \in 0..sends /\ m.key \in 0..sends
  BY DEF OnceMeant
<1>4. \A m \in Meant' : m.intent \in 0..sends' /\ m.key \in 0..sends'
  BY <1>1, <1>2, <1>3
<1>5. ASSUME NEW x \in Meant', NEW y \in Meant', x.intent = y.intent, x.intent # 0
      PROVE  x = y
  <2>1. CASE x \in Meant /\ y \in Meant
    BY <1>5, <2>1 DEF OnceMeant
  <2>2. CASE x \notin Meant
    <3>1. x = new /\ x.intent \in sends + 1..sends'
      BY <1>2, <1>5, <2>2
    <3>2. y \notin Meant
      BY <1>1, <1>3, <1>5, <3>1
    <3> QED
      BY <1>2, <1>5, <3>1, <3>2
  <2>3. CASE y \notin Meant
    <3>1. y = new /\ y.intent \in sends + 1..sends'
      BY <1>2, <1>5, <2>3
    <3>2. x \notin Meant
      BY <1>1, <1>3, <1>5, <3>1
    <3> QED
      BY <1>2, <1>5, <3>1, <3>2
  <2> QED
    BY <2>1, <2>2, <2>3
<1> QED
  BY <1>1, <1>2, <1>4, <1>5 DEF OnceMeant

LEMMA RowsMeant ==
  ASSUME ScreenInv, Forms
  PROVE  \A i \in 1..Len(table') : Meaning(table'[i]) \in Meant
<1>1. table \in Seq(ARecord) /\ Len(table) \in Nat
  BY DEF ScreenInv, ScreenTyped
<1>2. \A i \in 1..Len(table) : Meaning(table'[i]) = Meaning(table[i])
  BY Grows, MeaningEq
<1>3. ASSUME Len(table') = Len(table) PROVE \A i \in 1..Len(table') : Meaning(table'[i]) \in Meant
  BY <1>2, <1>3, RowMeant
<1>4. ASSUME UNCHANGED table PROVE \A i \in 1..Len(table') : Meaning(table'[i]) \in Meant
  BY <1>3, <1>4
<1>5. ASSUME \/ Opens \/ Fills \/ CloseForm \/ Sends \/ Reloads \/ Chooses \/ Acts
             \/ Served \/ Answers \/ Fails
      PROVE  UNCHANGED table
  BY <1>5 DEF Opens, Opening, Fills, Fill, CloseForm, Close, Sends, Send, Reloads, ReadAgain,
              Chooses, ChooseFilter, Acts, RowAction, Served, LoadServed, Answers, LoadAnswers,
              Fails, LoadFails
<1>6. ASSUME NEW c \in Calls, \/ Lost(c) \/ NeverArrives(c) \/ Refused(c) \/ Saves(c)
                    \/ ReadsAgain(c) \/ ListRead(c) \/ ListUnread(c) \/ RowSaved(c)
      PROVE  UNCHANGED table
  BY <1>6 DEF Lost, NeverArrives, Refused, Saves, Saved, ReadsAgain, ListRead, ListUnread,
              RowSaved
<1>7. ASSUME NEW i \in 1..Len(table), OtherEdit(i) PROVE Len(table') = Len(table)
  BY <1>1, <1>7 DEF OtherEdit
<1>8. ASSUME NEW c \in Calls, Serve(c)
      PROVE  \A i \in 1..Len(table') : Meaning(table'[i]) \in Meant
  <2> DEFINE row == [key |-> calls[c].key, text |-> calls[c].text, version |-> 1,
                     intent |-> calls[c].intent]
  <2>1. CASE UNCHANGED table
    BY <1>4, <2>1
  <2>2. CASE Creates(c)
    <3>1. Len(table') = Len(table) + 1 /\ table'[Len(table) + 1] = row
      BY <2>2 DEF Creates
    <3>2. Meaning(row) = Meaning(calls[c])
      BY DEF Meaning
    <3>3. \A i \in 1..Len(table') : i \in 1..Len(table) \/ i = Len(table) + 1
      BY <1>1, <3>1
    <3> HIDE DEF row
    <3> QED
      BY <1>2, <3>1, <3>2, <3>3, RowMeant, CallMeant
  <2>3. CASE \E i \in 1..Len(table) : table' = [table EXCEPT ![i].version = @ + 1]
    BY <1>1, <1>3, <2>3
  <2>4. ~IsNew(c) => calls[c].on \in 1..Len(table)
    BY <1>1, CallOf DEF CallSound, Drafted, IsNew
  <2>5. CASE SkipKnownWork(c)
    BY <1>3, <2>5, TouchedKnown DEF SkipKnownWork
  <2>6. CASE ServeCreate(c)
    BY <2>1, <2>2, <2>6, Creation
  <2>7. CASE ServeReplay(c) \/ ServeEdit(c)
    BY <2>1, <2>3, <2>4, <2>7 DEF ServeReplay, ServeEdit
  <2> QED
    BY <1>8, <2>5, <2>6, <2>7 DEF Serve
<1> QED
  BY <1>4, <1>5, <1>6, <1>7, <1>8, <1>3 DEF Forms

\* Requests change, the wish and the key stay.
LEMMA WishStays ==
  ASSUME ScreenInv, Forms, Creations, wish' = wish, ref' = ref, form'.on = form.on,
         sends' >= sends, sends' \in Nat,
         \A c \in Calls :
           /\ Meaning(calls'[c]) \in {Meaning(calls[c]), [intent |-> 0, text |-> Nothing, key |-> 0]}
           /\ Under(c)' => Under(c) /\ calls'[c].text = calls[c].text
                                    /\ calls'[c].intent = calls[c].intent
  PROVE  Creations'
<1> SUFFICES ASSUME screen \notin Forgetful PROVE KeysFit' /\ OnceMeant'
  BY Grows DEF Creations
<1>1. KeysFit /\ OnceMeant /\ screen' = screen
  BY Grows DEF Creations
<1>2. KeysFit'
  BY <1>1 DEF KeysFit
<1> DEFINE new == [intent |-> wish.intent, text |-> wish.text, key |-> ref.key]
           none == [intent |-> 0, text |-> Nothing, key |-> 0]
<1>3. \A m \in Meant' : m \in Meant \/ m = none
  <2>1. new \in Meant
    BY Wished
  <2>2. \A c \in Calls : Meaning(calls'[c]) \in Meant \cup {none}
    BY CallMeant
  <2>3. \A i \in 1..Len(table') : Meaning(table'[i]) \in Meant
    BY RowsMeant
  <2>4. Meant' = {Meaning(calls'[c]) : c \in Calls} \cup {Meaning(table'[i]) : i \in 1..Len(table')}
         \cup {new}
    BY DEF Meant, Meaning
  <2> HIDE DEF new, none
  <2> QED
    BY <2>1, <2>2, <2>3, <2>4
<1>4. OnlyNew(new)
  BY <1>3 DEF OnlyNew
<1>5. new \in Meant
  BY Wished
<1> QED
  BY <1>1, <1>2, <1>4, <1>5, OnceStays

\* The form is opened again, or what it was for is done.
LEMMA WishEnds ==
  ASSUME ScreenInv, Forms, Creations, wish' = NoWish,
         ref' = NoRef \/ (ref' = ref /\ screen \notin ByBody),
         sends' >= sends, sends' \in Nat,
         \A c \in Calls : Meaning(calls'[c]) \in {Meaning(calls[c]), [intent |-> 0, text |-> Nothing, key |-> 0]}
  PROVE  Creations'
<1> SUFFICES ASSUME screen \notin Forgetful PROVE KeysFit' /\ OnceMeant'
  BY Grows DEF Creations
<1>1. KeysFit /\ OnceMeant /\ screen' = screen
  BY Grows DEF Creations
<1>2. KeysFit'
  BY <1>1 DEF KeysFit, NoWish, NoRef
<1> DEFINE new == [intent |-> wish.intent, text |-> wish.text, key |-> ref.key]
           none == [intent |-> 0, text |-> Nothing, key |-> 0]
           last == [intent |-> wish'.intent, text |-> wish'.text, key |-> ref'.key]
<1>3. \A m \in Meant' : m \in Meant \/ (m.intent = 0 /\ m.key \in 0..sends')
  <2>1. last.intent = 0 /\ last.key \in 0..sends' /\ none.intent = 0 /\ none.key \in 0..sends'
    <3>1. NoRef.key = 0 /\ NoWish.intent = 0
      BY DEF NoRef, NoWish
    <3>2. ref.key \in 0..sends /\ sends \in Nat
      BY DEF ScreenInv, ScreenTyped
    <3>3. ref'.key \in 0..sends'
      BY <3>1, <3>2
    <3> QED
      BY <3>1, <3>3
  <2>2. \A c \in Calls : Meaning(calls'[c]) \in Meant \cup {none}
    BY CallMeant
  <2>3. \A i \in 1..Len(table') : Meaning(table'[i]) \in Meant
    BY RowsMeant
  <2>4. Meant' = {Meaning(calls'[c]) : c \in Calls} \cup {Meaning(table'[i]) : i \in 1..Len(table')}
         \cup {last}
    BY DEF Meant, Meaning
  <2> HIDE DEF none, last
  <2> QED
    BY <2>1, <2>2, <2>3, <2>4
<1>4. OnlyNew(new)
  BY <1>3 DEF OnlyNew
<1>5. new \in Meant
  BY Wished
<1> QED
  BY <1>1, <1>2, <1>4, <1>5, OnceStays

LEMMA SendsKeep ==
  ASSUME ScreenInv, Forms, NEW keyed, NEW base, Send(keyed, base), KeyFits(keyed),
         screen \notin Forgetful
  PROVE  KeysFit' /\ OnceMeant'
<1>1. /\ KeysFit /\ OnceMeant /\ screen' = screen /\ Locks /\ FormSound /\ ~saving
      /\ form.open /\ ScreenTyped /\ sends \in Nat /\ form' = form
  BY Grows DEF ScreenInv, Creations, Send, ScreenTyped
<1> DEFINE k == IF form.on = 0 THEN keyed.key ELSE 0
           n == IF form.on = 0 THEN wish'.intent ELSE 0
           new == [intent |-> n, text |-> form.text, key |-> k]
           wanted == [intent |-> wish'.intent, text |-> wish'.text, key |-> ref'.key]
<1>2. PICK c \in Calls : /\ calls[c].step = "idle"
                         /\ calls' = [calls EXCEPT ![c] = FormCall(base, k, n)]
  BY FormCalls
<1>3. /\ calls'[c] = FormCall(base, k, n) /\ \A d \in Calls : d # c => calls'[d] = calls[d]
      /\ sends' = sends + 1
  BY <1>1, <1>2 DEF ScreenTyped, Send
<1>4. Meaning(calls'[c]) = new
  BY <1>3 DEF Meaning, FormCall
<1>5. \A d \in Calls : ~Under(d)
  BY <1>1 DEF Locks
<1>6. form.text \in Texts /\ form.text # Nothing
  BY <1>1, TextsAssumption DEF FormSound
<1>7. screen \in Creating \/ form.on # 0
  BY <1>1 DEF FormSound
<1>8. \A d \in Calls : Under(d)' => d = c
  BY <1>3, <1>5 DEF Under
<1> HIDE DEF k, n, new, wanted
<1>9. calls'[c].text = form.text /\ calls'[c].intent = n
  BY <1>3 DEF FormCall
<1>10. CASE form.on # 0
  <2>1. wish' = wish /\ ref' = ref /\ wish = NoWish /\ k = 0 /\ n = 0
    BY <1>1, <1>10 DEF Send, KeysFit, k, n
  <2>2. KeysFit'
    BY <1>1, <2>1 DEF KeysFit
  <2>3. wanted \in Meant
    BY <2>1, Wished DEF wanted
  <2>4. OnlyNew(wanted)
    <3>1. \A d \in Calls : Meaning(calls'[d]) \in Meant \cup {new}
      BY <1>3, <1>4, CallMeant
    <3>2. \A i \in 1..Len(table') : Meaning(table'[i]) \in Meant
      BY RowsMeant
    <3>3. Meant' = {Meaning(calls'[d]) : d \in Calls} \cup {Meaning(table'[i]) : i \in 1..Len(table')}
           \cup {wanted}
      BY DEF Meant, Meaning, wanted
    <3>4. new.intent = 0 /\ new.key = 0
      BY <2>1 DEF new
    <3> QED
      BY <3>1, <3>2, <3>3, <3>4, <1>1, <1>3 DEF OnlyNew
  <2> QED
    BY <1>1, <1>3, <2>2, <2>3, <2>4, OnceStays
<1>11. CASE form.on = 0
  <2>1. k = keyed.key /\ n = wish'.intent /\ ref' = keyed
        /\ wish' = IF Retried THEN wish ELSE [text |-> form.text, intent |-> sends + 1]
    BY <1>11 DEF Send, k, n
  <2>2. screen \in ByBody \cup ByOpening \cup ByNature
    BY <1>7, <1>11 DEF Creating
  <2>3. wish'.text = form.text /\ wish'.intent \in 0..sends + 1 /\ wish'.intent # 0
    <3>1. CASE Retried
      <4>1. wish'.text = form.text /\ wish' = wish
        BY <2>1, <3>1 DEF Retried
      <4> QED
        BY <4>1, <1>1, <1>6 DEF KeysFit, ScreenTyped
    <3>2. CASE ~Retried
      BY <2>1, <3>2, <1>1
    <3> QED
      BY <3>1, <3>2
  <2>4. wanted = new
    BY <2>1, <2>3 DEF wanted, new
  \* The key is the one of the wish, or the wish is new.
  <2>5. Retried <=> wish.text = form.text
    <3>1. ASSUME wish.text = form.text PROVE \A d \in Calls : calls[d].live => calls[d].intent # wish.intent
      <4>1. wish.intent # 0
        BY <3>1, <1>1, <1>6 DEF KeysFit
      <4>2. ASSUME NEW d \in Calls, calls[d].live PROVE calls[d].intent = 0
        <5>1. calls[d].row
          BY <1>5, <4>2 DEF Under
        <5> QED
          BY <5>1, CallOf DEF CallSound
      <4> QED
        BY <4>1, <4>2
    <3> QED
      BY <3>1 DEF Retried
  <2>6. keyed \in [text : AnyText, key : 0..sends + 1] /\ keyed.key \in 0..sends + 1
    <3>1. keyed \in {ref, NoRef, [text |-> form.text, key |-> sends + 1]}
      BY DEF KeyFits, KeyOfBody, KeyOfOpening
    <3>2. ref \in [text : AnyText, key : 0..sends + 1]
      BY <1>1 DEF ScreenTyped
    <3>3. NoRef \in [text : AnyText, key : 0..sends + 1]
      BY <1>1 DEF NoRef, AnyText
    <3>4. [text |-> form.text, key |-> sends + 1] \in [text : AnyText, key : 0..sends + 1]
      BY <1>1, <1>6 DEF AnyText
    <3> QED
      BY <3>1, <3>2, <3>3, <3>4
  <2>7. screen \in ByBody =>
          /\ keyed.text = form.text /\ keyed.key # 0
          /\ Retried => keyed = ref
    <3> SUFFICES ASSUME screen \in ByBody
                 PROVE  keyed.text = form.text /\ keyed.key # 0 /\ (Retried => keyed = ref)
      OBVIOUS
    <3>1. keyed = KeyOfBody /\ wish.text = ref.text
      BY <1>1 DEF KeyFits, KeysFit
    <3>2. CASE ref.text = form.text
      BY <3>1, <3>2, <1>1, <1>6 DEF KeyOfBody, KeysFit
    <3>3. CASE ref.text # form.text
      BY <3>1, <3>3, <2>5, <1>1 DEF KeyOfBody
    <3> QED
      BY <3>2, <3>3
  <2>8. screen \in ByOpening =>
          /\ keyed.key # 0
          /\ Retried => keyed = ref
    <3> SUFFICES ASSUME screen \in ByOpening, screen \notin ByBody
                 PROVE  keyed.key # 0 /\ (Retried => keyed = ref)
      BY DEF ByOpening, ByBody
    <3>1. keyed = KeyOfOpening
      BY DEF KeyFits
    <3>3. CASE ref.key # 0
      BY <3>1, <3>3 DEF KeyOfOpening
    <3>4. CASE ref.key = 0
      <4>1. ~Retried
        <5>1. ASSUME Retried PROVE ref.key # 0
          <6>1. wish.intent # 0
            BY <5>1, <2>1, <2>3
          <6> QED
            BY <6>1, <1>1, Wished DEF OnceMeant
        <5> QED
          BY <5>1, <3>4
      <4> QED
        BY <3>1, <3>4, <4>1, <1>1, <1>6 DEF KeyOfOpening
    <3> QED
      BY <3>3, <3>4
  <2>9. screen \in ByNature => keyed = NoRef /\ ref = NoRef
    BY <1>1 DEF KeyFits, KeysFit, ByNature, ByBody, ByOpening, Forgetful
  <2>10. Retried => wanted \in Meant
    <3> SUFFICES ASSUME Retried PROVE wanted \in Meant
      OBVIOUS
    <3>1. ref' = ref /\ wish' = wish
      BY <2>1, <2>2, <2>7, <2>8, <2>9
    <3> QED
      BY <3>1, Wished DEF wanted
  <2>11. ~Retried => /\ wanted.intent \in sends + 1..sends' /\ wanted.key \in 0..sends' /\ wanted.text \in Texts
                     /\ (screen \in ByBody \cup ByOpening => wanted.key # 0)
    BY <2>1, <2>3, <2>6, <2>7, <2>8, <1>1, <1>3, <1>6 DEF wanted
  <2>12. OnlyNew(wanted)
    <3>1. \A d \in Calls : Meaning(calls'[d]) \in Meant \cup {wanted}
      BY <1>3, <1>4, <2>4, CallMeant
    <3>2. \A i \in 1..Len(table') : Meaning(table'[i]) \in Meant
      BY RowsMeant
    <3>3. Meant' = {Meaning(calls'[d]) : d \in Calls} \cup {Meaning(table'[i]) : i \in 1..Len(table')}
           \cup {wanted}
      BY DEF Meant, Meaning, wanted
    <3> QED
      BY <3>1, <3>2, <3>3 DEF OnlyNew
  <2>13. OnceMeant'
    BY <1>1, <1>3, <2>2, <2>10, <2>11, <2>12, OnceStays
  <2>14. KeysFit'
    <3>1. (wish.text = Nothing <=> wish.intent = 0)'
      BY <2>3, <1>6
    <3>2. (ref.text # Nothing => ref.key # 0)'
      BY <2>1, <2>2, <2>7, <2>8, <2>9 DEF NoRef
    <3>3. (screen \in ByBody => wish.text = ref.text)'
      BY <1>1, <2>1, <2>3, <2>7
    <3>4. (screen \notin ByBody \cup ByOpening => ref = NoRef)'
      BY <1>1, <2>1, <2>2, <2>9
    <3>5. (form.on # 0 => wish = NoWish)'
      BY <1>1, <1>11
    <3>6. (\A d \in Calls :
             Under(d) => wish = NoWish \/ (wish.text = calls[d].text /\ wish.intent = calls[d].intent))'
      BY <1>8, <1>9, <2>1, <2>3
    <3> QED
      BY <3>1, <3>2, <3>3, <3>4, <3>5, <3>6 DEF KeysFit
  <2> QED
    BY <2>13, <2>14
<1> QED
  BY <1>10, <1>11

LEMMA CreationsStep ==
  ASSUME ScreenInv, Forms
  PROVE  Creations'
<1>1. /\ calls \in [Calls -> Call] /\ screen' = screen /\ Creations /\ ScreenTyped
      /\ sends \in Nat /\ form.on \in Nat
  BY Grows DEF ScreenInv, ScreenTyped
<1>a. CASE screen \in Forgetful
  BY <1>1, <1>a DEF Creations
<1> SUFFICES ASSUME screen \notin Forgetful PROVE Creations'
  BY <1>a
<1>2. CASE \/ Fills \/ CloseForm \/ Reloads \/ Chooses \/ Served \/ Answers \/ Fails
           \/ \E i \in 1..Len(table) : OtherEdit(i)
  <2>1. wish' = wish /\ ref' = ref /\ sends' = sends /\ calls' = calls
    BY <1>2 DEF Fills, Fill, CloseForm, Close, Reloads, ReadAgain, Chooses, ChooseFilter,
              Served, LoadServed, Answers, LoadAnswers, Fails, LoadFails, OtherEdit
  <2>2. form'.on = form.on
    <3>1. CASE Chooses
      <4>1. form' = form \/ FormClosed
        BY <3>1 DEF Chooses
      <4> QED
        BY <1>1, <4>1 DEF FormClosed, ScreenTyped
    <3>2. CASE \/ Fills \/ CloseForm \/ Reloads \/ Served \/ Answers \/ Fails
               \/ \E i \in 1..Len(table) : OtherEdit(i)
      BY <1>1, <3>2 DEF Fills, Fill, CloseForm, Close, Reloads, ReadAgain, Served, LoadServed,
                Answers, LoadAnswers, DraftReplaced, Fails, LoadFails, OtherEdit, ScreenTyped
    <3> QED
      BY <1>2, <3>1, <3>2
  <2> QED
    BY <1>1, <2>1, <2>2, WishStays DEF Under
<1>3. CASE Opens
  <2>1. /\ wish' = NoWish /\ sends' = sends /\ calls' = calls
        /\ ref' = NoRef \/ (ref' = ref /\ screen \notin ByBody)
    BY <1>3 DEF Opens, Opening, At, Forgetful, ByBody
  <2> QED
    BY <1>1, <2>1, WishEnds
<1>4. CASE Sends
  BY <1>4, <1>1, SendsKeep DEF Sends, Creations
<1>5. CASE Acts
  <2>1. PICK i \in Ids : RowAction(i)
    BY <1>5 DEF Acts
  <2>2. PICK c \in Calls : calls[c].step = "idle" /\ calls' = [calls EXCEPT ![c] = RowCall(i)]
    BY <2>1, RowCalls
  <2>3. Meaning(RowCall(i)) = [intent |-> 0, text |-> Nothing, key |-> 0] /\ RowCall(i).row
    BY DEF RowCall, Meaning
  <2>4. calls'[c] = RowCall(i) /\ \A d \in Calls : d # c => calls'[d] = calls[d]
    BY <1>1, <2>2
  <2>5. \A d \in Calls :
           /\ Meaning(calls'[d]) \in {Meaning(calls[d]), [intent |-> 0, text |-> Nothing, key |-> 0]}
           /\ Under(d)' => Under(d) /\ calls'[d].text = calls[d].text
                                    /\ calls'[d].intent = calls[d].intent
    BY <2>3, <2>4 DEF Under
  <2>6. wish' = wish /\ ref' = ref /\ form' = form /\ sends' = sends + 1
    BY <2>1 DEF RowAction
  <2> QED
    BY <1>1, <2>5, <2>6, WishStays
<1>b. ASSUME NEW c \in Calls, NEW x, calls' = [calls EXCEPT ![c] = x],
             \/ x = NoCall
             \/ /\ x.intent = calls[c].intent /\ x.text = calls[c].text /\ x.key = calls[c].key
                /\ (x.live /\ ~x.row) => Under(c)
      PROVE  \A d \in Calls :
           /\ Meaning(calls'[d]) \in {Meaning(calls[d]), [intent |-> 0, text |-> Nothing, key |-> 0]}
           /\ Under(d)' => Under(d) /\ calls'[d].text = calls[d].text
                                    /\ calls'[d].intent = calls[d].intent
  <2>1. calls'[c] = x /\ \A d \in Calls : d # c => calls'[d] = calls[d]
    BY <1>1, <1>b
  <2>2. Meaning(NoCall) = [intent |-> 0, text |-> Nothing, key |-> 0] /\ ~NoCall.live
    BY DEF Meaning, NoCall
  <2>3. CASE x = NoCall
    BY <2>1, <2>2, <2>3 DEF Under
  <2>4. CASE /\ x.intent = calls[c].intent /\ x.text = calls[c].text /\ x.key = calls[c].key
             /\ (x.live /\ ~x.row) => Under(c)
    <3>1. Meaning(x) = Meaning(calls[c])
      BY <2>4, MeaningEq
    <3> QED
      BY <2>1, <2>4, <3>1 DEF Under
  <2> QED
    BY <1>b, <2>3, <2>4
<1>6. ASSUME NEW c \in Calls, Serve(c) \/ NeverArrives(c) \/ ReadsAgain(c) \/ Lost(c) \/ Refused(c)
                              \/ RowSaved(c) \/ ListUnread(c)
      PROVE  Creations'
  <2>1. calls[c] \in Call
    BY <1>1
  <2>2. \/ \E reply : Replies(c, reply)
        \/ calls' = [calls EXCEPT ![c] = NoCall]
        \/ calls' = [calls EXCEPT ![c] = [calls[c] EXCEPT !.live = FALSE]]
        \/ calls' = [calls EXCEPT ![c] = [calls[c] EXCEPT !.step = "reread", !.rows = Listed]]
    <3>1. CASE Serve(c)
      BY <3>1 DEF Serve, ServeReplay, SkipKnownWork, ServeCreate, ServeEdit
    <3>2. CASE NeverArrives(c) \/ Refused(c) \/ RowSaved(c) \/ ListUnread(c)
      BY <3>2 DEF NeverArrives, Refused, RowSaved, ListUnread
    <3>3. CASE ReadsAgain(c)
      BY <3>3, <1>1 DEF ReadsAgain
    <3>4. CASE Lost(c)
      BY <3>4, <1>1 DEF Lost
    <3> QED
      BY <1>6, <3>1, <3>2, <3>3, <3>4
  <2>3. \E x : /\ calls' = [calls EXCEPT ![c] = x]
               /\ \/ x = NoCall
                  \/ /\ x.intent = calls[c].intent /\ x.text = calls[c].text /\ x.key = calls[c].key
                     /\ (x.live /\ ~x.row) => Under(c)
    <3>1. ASSUME NEW reply, NEW x, x = [calls[c] EXCEPT !.step = "done", !.reply = reply]
          PROVE  /\ x.intent = calls[c].intent /\ x.text = calls[c].text /\ x.key = calls[c].key
                 /\ (x.live /\ ~x.row) => Under(c)
      BY <2>1, <3>1 DEF Call, Under
    <3>2. ASSUME NEW x, x = [calls[c] EXCEPT !.live = FALSE]
          PROVE  /\ x.intent = calls[c].intent /\ x.text = calls[c].text /\ x.key = calls[c].key
                 /\ (x.live /\ ~x.row) => Under(c)
      BY <2>1, <3>2 DEF Call, Under
    <3>3. ASSUME NEW x, x = [calls[c] EXCEPT !.step = "reread", !.rows = Listed]
          PROVE  /\ x.intent = calls[c].intent /\ x.text = calls[c].text /\ x.key = calls[c].key
                 /\ (x.live /\ ~x.row) => Under(c)
      BY <2>1, <3>3 DEF Call, Under
    <3>4. \E x : calls' = [calls EXCEPT ![c] = x] /\
            \/ x = NoCall
            \/ \E reply : x = [calls[c] EXCEPT !.step = "done", !.reply = reply]
            \/ x = [calls[c] EXCEPT !.live = FALSE]
            \/ x = [calls[c] EXCEPT !.step = "reread", !.rows = Listed]
      BY <2>2 DEF Replies
    <3>5. PICK x : calls' = [calls EXCEPT ![c] = x] /\
            \/ x = NoCall
            \/ \E reply : x = [calls[c] EXCEPT !.step = "done", !.reply = reply]
            \/ x = [calls[c] EXCEPT !.live = FALSE]
            \/ x = [calls[c] EXCEPT !.step = "reread", !.rows = Listed]
      BY <3>4
    <3>6. \/ x = NoCall
          \/ /\ x.intent = calls[c].intent /\ x.text = calls[c].text /\ x.key = calls[c].key
             /\ (x.live /\ ~x.row) => Under(c)
      BY <3>1, <3>2, <3>3, <3>5
    <3> QED
      BY <3>5, <3>6
  <2>4. wish' = wish /\ form'.on = form.on /\ ref' = ref /\ sends' = sends
    <3>1. form' = form \/ FormClosed
      BY <1>6 DEF Serve, NeverArrives, ReadsAgain, Lost, Refused, RowSaved, ListUnread
    <3>2. form'.on = form.on
      BY <1>1, <3>1 DEF FormClosed, ScreenTyped
    <3> QED
      BY <1>6, <3>2 DEF Serve, NeverArrives, ReadsAgain, Lost, Refused, RowSaved, ListUnread,
                KeyAfterListUnread
  <2>5. \A d \in Calls :
           /\ Meaning(calls'[d]) \in {Meaning(calls[d]), [intent |-> 0, text |-> Nothing, key |-> 0]}
           /\ Under(d)' => Under(d) /\ calls'[d].text = calls[d].text
                                    /\ calls'[d].intent = calls[d].intent
    BY <2>3, <1>b
  <2> QED
    BY <1>1, <2>4, <2>5, WishStays
<1>7. ASSUME NEW c \in Calls, Saves(c) \/ ListRead(c)
      PROVE  Creations'
  <2>1. FormDone(c) /\ Under(c) /\ sends' = sends
    <3>1. FormDone(c) /\ sends' = sends
      BY <1>7 DEF Saves, Saved, ListRead
    <3>2. calls[c].live /\ ~calls[c].row
      BY <1>7, CallOf DEF Saves, Saved, ListRead, CallSound
    <3> QED
      BY <3>1, <3>2 DEF Under
  <2>2. wish = NoWish \/ wish.text = calls[c].text
    BY <1>1, <2>1 DEF Creations, KeysFit
  <2>3. wish' = NoWish /\ ref' = NoRef
    BY <2>1, <2>2 DEF FormDone
  <2>4. calls' = [calls EXCEPT ![c] = NoCall]
    BY <2>1 DEF FormDone
  <2>5. \A d \in Calls :
           /\ Meaning(calls'[d]) \in {Meaning(calls[d]), [intent |-> 0, text |-> Nothing, key |-> 0]}
           /\ Under(d)' => Under(d) /\ calls'[d].text = calls[d].text
                                    /\ calls'[d].intent = calls[d].intent
    BY <2>4, <1>b
  <2> QED
    BY <1>1, <2>1, <2>3, <2>5, WishEnds
<1> QED
  BY <1>2, <1>3, <1>4, <1>5, <1>6, <1>7 DEF Forms

-----------------------------------------------------------------------------
(* Records.                                                                *)

LEMMA RecordsStep ==
  ASSUME ScreenInv, Forms
  PROVE  RecordsApart'
<1>1. /\ RecordsApart /\ table \in Seq(ARecord) /\ Len(table) \in Nat /\ screen' = screen
      /\ calls \in [Calls -> Call]
  BY Grows DEF ScreenInv, ScreenTyped
<1>2. UniqueByNature' <=> UniqueByNature
  BY <1>1 DEF UniqueByNature
<1>3. ASSUME Len(table') = Len(table) PROVE RecordsApart'
  <2>1. \A i \in 1..Len(table) : table'[i].key = table[i].key /\ table'[i].text = table[i].text
    BY Grows
  <2> QED
    BY <1>1, <1>2, <1>3, <2>1 DEF RecordsApart
<1>4. ASSUME \/ Opens \/ Fills \/ CloseForm \/ Sends \/ Reloads \/ Chooses \/ Acts
             \/ Served \/ Answers \/ Fails
      PROVE  UNCHANGED table
  BY <1>4 DEF Opens, Opening, Fills, Fill, CloseForm, Close, Sends, Send, Reloads, ReadAgain,
              Chooses, ChooseFilter, Acts, RowAction, Served, LoadServed, Answers, LoadAnswers,
              Fails, LoadFails
<1>5. ASSUME NEW c \in Calls, \/ Lost(c) \/ NeverArrives(c) \/ Refused(c) \/ Saves(c)
                    \/ ReadsAgain(c) \/ ListRead(c) \/ ListUnread(c) \/ RowSaved(c)
      PROVE  UNCHANGED table
  BY <1>5 DEF Lost, NeverArrives, Refused, Saves, Saved, ReadsAgain, ListRead, ListUnread,
              RowSaved
<1>6. ASSUME NEW i \in 1..Len(table), OtherEdit(i) PROVE Len(table') = Len(table)
  BY <1>1, <1>6 DEF OtherEdit
<1>7. ASSUME NEW c \in Calls, Serve(c) PROVE RecordsApart'
  <2> DEFINE row == [key |-> calls[c].key, text |-> calls[c].text, version |-> 1,
                     intent |-> calls[c].intent]
  <2>1. CASE UNCHANGED table
    BY <1>3, <2>1
  <2>2. CASE ServeCreate(c) /\ Creates(c) /\ ~Unacceptable(c)
    <3>1. Len(table') = Len(table) + 1 /\ table'[Len(table) + 1] = row
      BY <2>2 DEF Creates
    <3>2. \A i \in 1..Len(table') : i \in 1..Len(table) \/ i = Len(table) + 1
      BY <1>1, <3>1
    <3>3. \A i \in 1..Len(table) : table'[i].key = table[i].key /\ table'[i].text = table[i].text
      BY Grows
    <3>4. table'[Len(table) + 1].key = calls[c].key /\ table'[Len(table) + 1].text = calls[c].text
      BY <3>1
    <3>5. \A i \in 1..Len(table) : calls[c].key # 0 => table[i].key # calls[c].key
      BY <2>2 DEF ServeCreate
    <3>6. UniqueByNature => \A i \in 1..Len(table) : table[i].text # calls[c].text
      BY <2>2 DEF Unacceptable
    <3> HIDE DEF row
    <3>7. ASSUME NEW i \in 1..Len(table'), NEW j \in 1..Len(table'),
                 table'[i].key = table'[j].key, table'[i].key # 0
          PROVE  i = j
      <4>1. CASE i \in 1..Len(table) /\ j \in 1..Len(table)
        BY <1>1, <3>3, <3>7, <4>1 DEF RecordsApart
      <4>2. CASE i = Len(table) + 1
        BY <3>2, <3>3, <3>4, <3>5, <3>7, <4>2
      <4>3. CASE j = Len(table) + 1
        BY <3>2, <3>3, <3>4, <3>5, <3>7, <4>3
      <4> QED
        BY <3>2, <4>1, <4>2, <4>3
    <3>8. ASSUME UniqueByNature, NEW i \in 1..Len(table'), NEW j \in 1..Len(table'),
                 table'[i].text = table'[j].text
          PROVE  i = j
      <4>1. CASE i \in 1..Len(table) /\ j \in 1..Len(table)
        BY <1>1, <3>3, <3>8, <4>1 DEF RecordsApart
      <4>2. CASE i = Len(table) + 1
        BY <3>2, <3>3, <3>4, <3>6, <3>8, <4>2
      <4>3. CASE j = Len(table) + 1
        BY <3>2, <3>3, <3>4, <3>6, <3>8, <4>3
      <4> QED
        BY <3>2, <4>1, <4>2, <4>3
    <3> QED
      BY <1>2, <3>7, <3>8 DEF RecordsApart
  <2>3. CASE \E i \in 1..Len(table) : table' = [table EXCEPT ![i].version = @ + 1]
    BY <1>1, <1>3, <2>3
  <2>4. ~IsNew(c) => calls[c].on \in 1..Len(table)
    BY <1>1, CallOf DEF CallSound, Drafted, IsNew
  <2>5. CASE ServeReplay(c)
    BY <2>1, <2>5 DEF ServeReplay
  <2>6. CASE ServeCreate(c)
    BY <2>1, <2>2, <2>6, Creation
  <2>7. CASE ServeEdit(c)
    BY <2>1, <2>3, <2>4, <2>7 DEF ServeEdit
  <2>8. CASE SkipKnownWork(c)
    BY <1>3, <2>8, TouchedKnown DEF SkipKnownWork
  <2> QED
    BY <1>7, <2>5, <2>6, <2>7, <2>8 DEF Serve
<1> QED
  BY <1>3, <1>4, <1>5, <1>6, <1>7 DEF Forms

-----------------------------------------------------------------------------
(* What was said to be saved.                                              *)

LEMMA CoversListed ==
  ASSUME ScreenInv
  PROVE  Covers(Listed)
<1> SUFFICES ASSUME NEW t \in told
             PROVE  \E k \in 1..Len(Listed) : Listed[k].id = t.id /\ Listed[k].version >= t.version
  BY DEF Covers
<1>1. t.id \in 1..Len(table) /\ t.version \in 1..table[t.id].version
  BY DEF ScreenInv, ToldSound, Had
<1>2. Listed[t.id] = [id |-> t.id, version |-> table[t.id].version]
  BY <1>1 DEF Listed
<1>3. Listed[t.id].id = t.id /\ Listed[t.id].version = table[t.id].version
  <2> HIDE DEF Listed
  <2> QED
    BY <1>2
<1>4. table[t.id] \in ARecord
  BY <1>1 DEF ScreenInv, ScreenTyped
<1>5. table[t.id].version \in Nat /\ t.version \in Nat
  BY <1>1, <1>4 DEF ARecord
<1>6. Len(Listed) = Len(table)
  BY ListedFull
<1> QED
  BY <1>1, <1>3, <1>5, <1>6

\* Where it is not followed.
LEMMA UntoldStep ==
  ASSUME ScreenInv, Forms, ~TellsWhatItShows
  PROVE  told' = {}
<1>1. told = {}
  BY DEF ScreenInv, ToldSound
<1>2. ASSUME \/ Opens \/ Fills \/ CloseForm \/ Sends \/ Reloads \/ Chooses \/ Acts
             \/ Served \/ Answers \/ Fails \/ \E i \in 1..Len(table) : OtherEdit(i)
      PROVE  told' = told
  BY <1>2 DEF Opens, Opening, Fills, Fill, CloseForm, Close, Sends, Send, Reloads, ReadAgain,
              Chooses, ChooseFilter, Acts, RowAction, Served, LoadServed, Answers, LoadAnswers,
              Fails, LoadFails, OtherEdit
<1>3. ASSUME NEW c \in Calls, \/ Lost(c) \/ NeverArrives(c) \/ Refused(c) \/ Serve(c)
                    \/ ReadsAgain(c) \/ ListUnread(c)
      PROVE  told' = told
  BY <1>3 DEF Lost, NeverArrives, Refused, ReadsAgain, ListUnread, Serve
<1>4. ASSUME NEW c \in Calls, Saves(c) \/ ListRead(c) \/ RowSaved(c)
      PROVE  told' = told
  BY <1>4 DEF Saves, Saved, FormDone, ListRead, RowSaved
<1> QED
  BY <1>1, <1>2, <1>3, <1>4 DEF Forms

CoversNext(list) ==
  \A t \in told' : \E k \in 1..Len(list) : list[k].id = t.id /\ list[k].version >= t.version

\* Steps that tell nothing, and leave requests, the list and its reads as they are or read it.
LEMMA ToldStays ==
  ASSUME ScreenInv, Forms, told' = told,
         \A l \in loads' : l.step = "read" => (l \in loads \/ l.rows = Listed),
         shown'.ready /\ (At("contracts") \/ loads' = {}) => Covers(shown'.rows),
         \A c \in Calls : calls'[c].step = "done" /\ calls'[c].reply # NoReply =>
            calls'[c] = calls[c] \/ (/\ calls'[c].reply.id \in 1..Len(table')
                                     /\ calls'[c].reply.version = table'[calls'[c].reply.id].version)
  PROVE  ToldSound'
<1>1. ToldSound /\ screen' = screen /\ (TellsWhatItShows' <=> TellsWhatItShows)
  BY Grows DEF ScreenInv, TellsWhatItShows
<1>2. \A t \in told : HadNext(t)
  BY <1>1, HadStays DEF ToldSound
<1>3. (\A t \in told : Had(t))'
  BY <1>2 DEF HadNext, Had
<1>4. \A l \in loads' : l.step = "read" => Covers(l.rows)
  BY <1>1, CoversListed DEF ToldSound
<1>5. (\A l \in loads : l.step = "read" => Covers(l.rows))'
  BY <1>4 DEF Covers
<1>6. (shown.ready /\ (At("contracts") \/ loads = {}) => Covers(shown.rows))'
  BY <1>1 DEF Covers, At
<1>7. (At("contracts") =>
       \A c \in Calls : calls[c].step = "done" /\ calls[c].reply # NoReply =>
         \A t \in told : t.id = calls[c].reply.id => calls[c].reply.version >= t.version)'
  <2> SUFFICES ASSUME At("contracts"), NEW c \in Calls, calls'[c].step = "done",
                      calls'[c].reply # NoReply, NEW t \in told, t.id = calls'[c].reply.id
               PROVE  calls'[c].reply.version >= t.version
    BY <1>1 DEF At
  <2>1. CASE calls'[c] = calls[c]
    BY <1>1, <2>1 DEF ToldSound
  <2>2. CASE /\ calls'[c].reply.id \in 1..Len(table')
             /\ calls'[c].reply.version = table'[calls'[c].reply.id].version
    <3>1. t.version \in 1..table'[t.id].version
      BY <1>2 DEF HadNext
    <3>2. table'[t.id] \in ARecord
      BY <2>2, Grows
    <3>3. table'[t.id].version \in Nat
      BY <3>2 DEF ARecord
    <3> QED
      BY <2>2, <3>1, <3>3
  <2> QED
    BY <2>1, <2>2
<1>8. (~TellsWhatItShows => told = {})'
  BY <1>1 DEF ToldSound
<1> QED
  BY <1>3, <1>5, <1>6, <1>7, <1>8 DEF ToldSound

LEMMA ReplyNow ==
  ASSUME ScreenInv, Forms, NEW c \in Calls, Serve(c)
  PROVE  \E reply : /\ Replies(c, reply)
                    /\ reply # NoReply => /\ reply.id \in 1..Len(table')
                                          /\ reply.version = table'[reply.id].version
<1>1. Len(table) \in Nat /\ table \in Seq(ARecord) /\ Len(table) >= 1
  BY DEF ScreenInv, ScreenTyped
<1>2. CASE ServeReplay(c)
  <2>1. PICK i \in 1..Len(table) : Replies(c, Listed[i]) \/ Replies(c, NoReply)
    BY <1>2 DEF ServeReplay
  <2>2. Listed[i] = [id |-> i, version |-> table[i].version] /\ table' = table
    BY <1>2 DEF ServeReplay, Listed
  <2>3. Listed[i].id = i /\ Listed[i].version = table[i].version
    <3> HIDE DEF Listed
    <3> QED
      BY <2>2
  <2> QED
    BY <2>1, <2>2, <2>3
<1>3. CASE ServeCreate(c)
  <2>1. CASE Replies(c, NoReply)
    BY <2>1
  <2>2. CASE Creates(c)
    <3>1. Len(table') = Len(table) + 1 /\ table'[Len(table) + 1].version = 1
      BY <2>2, <1>1 DEF Creates
    <3>2. Len(table) + 1 \in 1..Len(table') /\ 1 \in 1..Len(table) /\ 1 \in 1..Len(table')
      BY <3>1, <1>1
    <3>3. OnRecord => table'[1].version = table[1].version + 1
      BY <2>2, <3>2 DEF Creates
    <3> DEFINE reply == IF OnRecord THEN OfRecord ELSE [id |-> Len(table) + 1, version |-> 1]
    <3>4. Replies(c, reply)
      BY <2>2 DEF Creates
    <3>5. reply.id \in 1..Len(table') /\ reply.version = table'[reply.id].version
      <4>1. CASE OnRecord
        <5>1. reply = [id |-> 1, version |-> table[1].version + 1]
          BY <4>1 DEF OfRecord
        <5>2. reply.id = 1 /\ reply.version = table[1].version + 1
          <6> HIDE DEF reply
          <6> QED
            BY <5>1
        <5> HIDE DEF reply
        <5> QED
          BY <3>2, <3>3, <4>1, <5>2
      <4>2. CASE ~OnRecord
        <5>1. reply.id = Len(table) + 1 /\ reply.version = 1
          BY <4>2
        <5> HIDE DEF reply
        <5> QED
          BY <3>1, <3>2, <5>1
      <4> QED
        BY <4>1, <4>2
    <3> HIDE DEF reply
    <3> QED
      BY <3>4, <3>5
  <2> QED
    BY <1>3, <2>1, <2>2, Creation
<1>5. CASE SkipKnownWork(c)
  <2>1. table' = Touched /\ Replies(c, OfRecord) /\ 1 \in 1..Len(table)
    BY <1>1, <1>5 DEF SkipKnownWork
  <2>2. Len(table') = Len(table) /\ table'[1].version = table[1].version + 1
    BY <2>1, TouchedKnown
  <2>3. OfRecord.id = 1 /\ OfRecord.version = table[1].version + 1
    BY DEF OfRecord
  <2> QED
    BY <2>1, <2>2, <2>3
<1>4. CASE ServeEdit(c)
  <2> DEFINE i == calls[c].on
  <2>1. CASE Replies(c, NoReply)
    BY <2>1
  <2>2. CASE /\ table' = [table EXCEPT ![i].version = @ + 1]
             /\ Replies(c, [id |-> i, version |-> table[i].version + 1])
    <3>1. i \in 1..Len(table)
      BY <1>1, <1>4, CallOf DEF CallSound, Drafted, ServeEdit, IsNew
    <3>2. table[i] \in ARecord
      BY <1>1, <3>1
    <3>3. Len(table') = Len(table) /\ table'[i] = [table[i] EXCEPT !.version = @ + 1]
      BY <2>2, <1>1, <3>1
    <3>4. table'[i].version = table[i].version + 1
      BY <3>3, <3>2 DEF ARecord
    <3> DEFINE reply == [id |-> i, version |-> table[i].version + 1]
    <3>5. reply.id = i /\ reply.version = table[i].version + 1
      OBVIOUS
    <3>6. Replies(c, reply)
      BY <2>2
    <3> HIDE DEF reply, i
    <3> QED
      BY <3>1, <3>3, <3>4, <3>5, <3>6
  <2> QED
    BY <1>4, <2>1, <2>2 DEF ServeEdit
<1> QED
  BY <1>2, <1>3, <1>4, <1>5 DEF Serve

\* A contract that is saved is on the screen with the others.
LEMMA CoversReplaced ==
  ASSUME ScreenInv, At("contracts"), NEW c \in Calls, calls[c].step = "done",
         calls[c].reply # NoReply, Covers(shown.rows),
         NEW t, t \in told \/ t = calls[c].reply
  PROVE  \E k \in 1..Len(Replaced(c)) :
            Replaced(c)[k].id = t.id /\ Replaced(c)[k].version >= t.version
<1> DEFINE x == calls[c].reply
           o == Others(x)
           s == shown.rows
<1>1. s \in Seq(Answer) /\ x \in Answer
  BY CallOf DEF ScreenInv, ScreenTyped, Call
<1>2. /\ o \in Seq(Answer)
      /\ \A j \in 1..Len(s) : s[j].id # x.id => \E k \in 1..Len(o) : o[k] = s[j]
  BY <1>1, OthersSound
<1>3. Replaced(c) = Append(o, x)
  BY DEF Replaced
<1>4. t \in told => (t.id = x.id => x.version >= t.version)
  BY DEF ScreenInv, ToldSound
<1>5. t \in told => \E j \in 1..Len(s) : s[j].id = t.id /\ s[j].version >= t.version
  BY DEF Covers
<1> HIDE DEF x, o, s
<1>6. /\ Len(Append(o, x)) = Len(o) + 1 /\ Append(o, x)[Len(o) + 1] = x /\ Len(o) \in Nat
      /\ \A k \in 1..Len(o) : Append(o, x)[k] = o[k]
  BY <1>1, <1>2
<1>7. Len(o) + 1 \in 1..Len(Append(o, x)) /\ 1..Len(o) \subseteq 1..Len(Append(o, x))
  BY <1>6
<1>8. x.version \in Nat
  BY <1>1 DEF Answer
<1>9. CASE t = x
  BY <1>3, <1>6, <1>7, <1>8, <1>9
<1>10. CASE t \in told /\ t.id = x.id
  BY <1>3, <1>4, <1>6, <1>7, <1>10
<1>11. CASE t \in told /\ t.id # x.id
  <2>1. PICK j \in 1..Len(s) : s[j].id = t.id /\ s[j].version >= t.version
    BY <1>5, <1>11
  <2>2. PICK k \in 1..Len(o) : o[k] = s[j]
    BY <1>2, <1>11, <2>1
  <2>3. k \in 1..Len(Append(o, x)) /\ Append(o, x)[k] = s[j]
    BY <1>6, <1>7, <2>2
  <2> QED
    BY <1>3, <2>1, <2>3
<1> QED
  BY <1>9, <1>10, <1>11 DEF x

LEMMA ToldStep ==
  ASSUME ScreenInv, Forms
  PROVE  ToldSound'
<1>1. /\ ToldSound /\ screen' = screen /\ (TellsWhatItShows' <=> TellsWhatItShows)
      /\ ScreenTyped /\ calls \in [Calls -> Call] /\ ListsKnown
  BY Grows DEF ScreenInv, TellsWhatItShows, ScreenTyped
<1>2. CASE ~TellsWhatItShows
  <2>1. told' = {}
    BY <1>2, UntoldStep
  <2>2. ~At("contracts")'
    BY <1>1, <1>2 DEF At, TellsWhatItShows
  <2> QED
    BY <2>1, <2>2 DEF ToldSound, Covers
<1> SUFFICES ASSUME TellsWhatItShows, screen \notin Rereading PROVE ToldSound'
  BY <1>2 DEF TellsWhatItShows, Rereading
<1>3. ASSUME told' = told, shown' = shown, calls' = calls,
             loads' = loads \/ (At("contracts") /\ loads' \subseteq loads)
      PROVE  ToldSound'
  BY <1>1, <1>3, ToldStays DEF ToldSound, Covers
<1>4. CASE \/ Opens \/ Fills \/ CloseForm \/ \E i \in 1..Len(table) : OtherEdit(i)
  <2>1. /\ told' = told /\ shown' = shown /\ calls' = calls
        /\ loads' = loads \/ (At("contracts") /\ loads' \subseteq loads)
    BY <1>4 DEF Opens, Opening, Fills, Fill, CloseForm, Close, OtherEdit
  <2> QED
    BY <1>3, <2>1
<1>5. CASE Reloads
  <2>1. /\ told' = told /\ shown' = shown /\ calls' = calls
        /\ \E kept \in {{}, loads} : loads' = kept \cup
             {[n |-> asked + 1, for |-> filter, step |-> "asked", rows |-> <<>>]}
    BY <1>5 DEF Reloads, ReadAgain, Fetch
  <2>2. loads' # {} /\ \A l \in loads' : l.step = "read" => l \in loads
    <3> DEFINE read == [n |-> asked + 1, for |-> filter, step |-> "asked", rows |-> <<>>]
    <3>1. read.step # "read"
      OBVIOUS
    <3>2. PICK kept \in {{}, loads} : loads' = kept \cup {read}
      BY <2>1
    <3> HIDE DEF read
    <3> QED
      BY <3>1, <3>2
  <2> QED
    BY <1>1, <2>1, <2>2, ToldStays DEF ToldSound
<1>6. CASE Chooses
  <2>1. /\ told' = told /\ ~shown'.ready /\ calls' = calls
    BY <1>1, <1>6 DEF Chooses, ChooseFilter, ScreenTyped
  <2>2. \A l \in loads' : l.step = "asked"
    BY <1>6 DEF Chooses, ChooseFilter, Fetch, Superseded
  <2> QED
    BY <2>1, <2>2, ToldStays
<1>7. CASE Served
  <2>1. PICK l \in loads : LoadServed(l)
    BY <1>7 DEF Served
  <2> DEFINE m == [l EXCEPT !.step = "read", !.rows = Listed]
  <2>2. loads' = (loads \ {l}) \cup {m} /\ told' = told /\ shown' = shown /\ calls' = calls
    BY <2>1 DEF LoadServed
  <2>3. m.rows = Listed
    BY <1>1 DEF Reading, ScreenTyped
  <2>4. loads' # {} /\ \A n \in loads' : n.step = "read" => (n \in loads \/ n.rows = Listed)
    BY <2>2, <2>3
  <2> QED
    BY <1>1, <2>2, <2>4, ToldStays DEF ToldSound
<1>8. CASE Answers
  <2>1. PICK l \in loads : LoadAnswers(l)
    BY <1>8 DEF Answers
  <2>2. loads' \subseteq loads /\ told' = told /\ calls' = calls /\ l.step = "read"
    BY <2>1 DEF LoadAnswers
  <2>3. Covers(l.rows)
    BY <1>1, <2>2 DEF ToldSound
  <2>4. shown'.rows = l.rows \/ (shown' = shown /\ At("contracts"))
    BY <2>1 DEF LoadAnswers, InteractionIdle
  <2>5. shown'.ready /\ (At("contracts") \/ loads' = {}) => Covers(shown'.rows)
    BY <1>1, <2>3, <2>4 DEF ToldSound
  <2> QED
    BY <2>2, <2>5, ToldStays
<1>9. CASE Fails
  <2>1. /\ told' = told /\ ~shown'.ready /\ calls' = calls /\ loads' \subseteq loads
    BY <1>1, <1>9 DEF Fails, LoadFails, ScreenTyped
  <2> QED
    BY <2>1, ToldStays
<1>a. NoCall.step = "idle"
  BY DEF NoCall
<1>b. ASSUME NEW c \in Calls, NEW x, calls' = [calls EXCEPT ![c] = x], x.step # "done",
             told' = told, shown' = shown, loads' = loads
      PROVE  ToldSound'
  <2>1. \A d \in Calls : calls'[d].step = "done" => calls'[d] = calls[d]
    BY <1>1, <1>b
  <2> QED
    BY <1>1, <1>b, <2>1, ToldStays DEF ToldSound
<1>10. CASE Sends
  <2>1. PICK keyed, base : Send(keyed, base)
    BY <1>10 DEF Sends
  <2>2. \A k, n : FormCall(base, k, n).step = "sent"
    BY DEF FormCall
  <2>3. PICK c \in Calls : \E x : calls' = [calls EXCEPT ![c] = x] /\ x.step # "done"
    BY <2>1, <2>2, FormCalls
  <2>4. told' = told /\ shown' = shown /\ loads' = loads
    BY <2>1 DEF Send
  <2> QED
    BY <1>b, <2>3, <2>4
<1>11. CASE Acts
  <2>1. PICK i \in Ids : RowAction(i)
    BY <1>11 DEF Acts
  <2>2. RowCall(i).step = "sent"
    BY DEF RowCall
  <2>3. PICK c \in Calls : \E x : calls' = [calls EXCEPT ![c] = x] /\ x.step # "done"
    BY <2>1, <2>2, RowCalls
  <2>4. told' = told /\ shown' = shown /\ loads' = loads
    BY <2>1 DEF RowAction
  <2> QED
    BY <1>b, <2>3, <2>4
<1>12. ASSUME NEW c \in Calls, NeverArrives(c) \/ Refused(c) \/ ListUnread(c) \/ ReadsAgain(c)
       PROVE  ToldSound'
  <2>1. ~ReadsAgain(c)
    BY DEF ReadsAgain, Rereading
  <2>2. calls' = [calls EXCEPT ![c] = NoCall] /\ told' = told /\ shown' = shown /\ loads' = loads
    BY <1>12, <2>1 DEF NeverArrives, Refused, ListUnread
  <2> QED
    BY <1>a, <1>b, <2>2
<1>13. ASSUME NEW c \in Calls, Lost(c) PROVE ToldSound'
  <2>1. told' = told /\ shown' = shown /\ loads' = loads
    BY <1>13 DEF Lost
  <2>2. CASE calls' = [calls EXCEPT ![c] = NoCall]
    BY <1>a, <1>b, <2>1, <2>2
  <2>3. CASE calls[c].step = "sent" /\ calls' = [calls EXCEPT ![c] = [calls[c] EXCEPT !.live = FALSE]]
    <3>1. [calls[c] EXCEPT !.live = FALSE].step # "done"
      BY <1>1, <2>3 DEF Call
    <3> QED
      BY <1>b, <2>1, <2>3, <3>1
  <2> QED
    BY <1>1, <1>13, <2>2, <2>3 DEF Lost
<1>14. ASSUME NEW c \in Calls, ListRead(c) PROVE ToldSound'
  <2>1. FALSE
    BY <1>14, CallOf DEF ListRead, CallSound
  <2> QED
    BY <2>1
<1>15. ASSUME NEW c \in Calls, Serve(c) PROVE ToldSound'
  <2>1. told' = told /\ shown' = shown /\ loads' = loads
    BY <1>15 DEF Serve
  <2>2. PICK reply : /\ Replies(c, reply)
                     /\ reply # NoReply => /\ reply.id \in 1..Len(table')
                                           /\ reply.version = table'[reply.id].version
    BY <1>15, ReplyNow
  <2>3. CASE calls' = [calls EXCEPT ![c] = NoCall]
    BY <1>a, <1>b, <2>1, <2>3
  <2>4. CASE calls' = [calls EXCEPT ![c] = [calls[c] EXCEPT !.step = "done", !.reply = reply]]
    <3>1. [calls[c] EXCEPT !.step = "done", !.reply = reply].reply = reply
      BY <1>1 DEF Call
    <3>2. \A d \in Calls : calls'[d] = calls[d] \/ calls'[d].reply = reply
      BY <1>1, <2>4, <3>1
    <3> QED
      BY <1>1, <2>1, <2>2, <3>2, ToldStays DEF ToldSound
  <2> QED
    BY <2>2, <2>3, <2>4 DEF Replies
<1>c. ASSUME NEW c \in Calls, calls[c].reply # NoReply, told' = told \cup {calls[c].reply}
      PROVE  \A t \in told' : HadNext(t)
  <2>1. Had(calls[c].reply)
    BY <1>c, CallOf DEF CallSound
  <2> QED
    BY <1>1, <1>c, <2>1, HadStays DEF ToldSound
\* The tax screen reads its list again.
<1>16. ASSUME NEW c \in Calls, calls[c].reply # NoReply, told' = told \cup {calls[c].reply},
              At("tax"), Fetch({}, filter)
       PROVE  ToldSound'
  <2>1. loads' # {} /\ \A l \in loads' : l.step = "asked"
    BY <1>16 DEF Fetch
  <2>2. (\A t \in told : Had(t))'
    BY <1>16, <1>c DEF HadNext, Had
  <2>3. ~At("contracts")'
    BY <1>1, <1>16 DEF At
  <2> QED
    BY <1>1, <2>1, <2>2, <2>3 DEF ToldSound
<1>17. ASSUME NEW c \in Calls, RowSaved(c) PROVE ToldSound'
  <2>1. At("tax")
    BY <1>17, CallOf DEF At, RowSaved, CallSound, WithButtons, TellsWhatItShows
  <2>2. Fetch({}, filter) /\ told' = told \cup {calls[c].reply} /\ calls[c].reply # NoReply
    BY <1>17, <2>1 DEF RowSaved, Superseded
  <2> QED
    BY <1>16, <2>1, <2>2
<1>18. ASSUME NEW c \in Calls, Saves(c) PROVE ToldSound'
  <2>1. PICK list : /\ Saved(c, list) /\ SavedRows(c, list)
                    /\ \/ At("contracts") /\ loads' = {}
                       \/ ~At("contracts") /\ Fetch({}, filter)
    BY <1>18 DEF Saves
  <2>2. told' = told \cup {calls[c].reply} /\ calls[c].reply # NoReply /\ calls[c].step = "done"
        /\ ~calls[c].row /\ calls' = [calls EXCEPT ![c] = NoCall]
    BY <2>1 DEF Saved, FormDone
  <2>3. CASE ~At("contracts")
    BY <1>16, <2>1, <2>2, <2>3 DEF At, TellsWhatItShows
  <2>4. CASE At("contracts")
    <3>1. list = Replaced(c) /\ shown' = [shown EXCEPT !.rows = list] /\ loads' = {}
      BY <2>1, <2>4 DEF SavedRows, Saved, At
    <3>2. shown'.rows = Replaced(c) /\ shown'.ready = shown.ready
      BY <1>1, <3>1 DEF ScreenTyped
    <3>3. (\A t \in told : Had(t))'
      BY <2>2, <1>c DEF HadNext, Had
    <3>4. (shown.ready /\ (At("contracts") \/ loads = {}) => Covers(shown.rows))'
      <4> SUFFICES ASSUME shown.ready, NEW t, t \in told \/ t = calls[c].reply
                   PROVE  \E k \in 1..Len(Replaced(c)) :
                            Replaced(c)[k].id = t.id /\ Replaced(c)[k].version >= t.version
        BY <2>2, <3>2 DEF Covers
      <4>1. Covers(shown.rows)
        BY <1>1, <2>4 DEF ToldSound
      <4> QED
        BY <2>2, <2>4, <4>1, CoversReplaced
    <3>5. ASSUME NEW d \in Calls, calls'[d].step = "done" PROVE FALSE
      <4>1. d # c /\ calls'[d] = calls[d]
        BY <1>1, <1>a, <2>2, <3>5
      <4>2. Under(c) /\ Under(d)
        <5>1. calls[c].live /\ calls[d].live
          BY <2>2, <3>5, <4>1, CallOf DEF CallSound
        <5>2. ~calls[d].row
          BY <2>4, CallOf DEF CallSound, At, WithButtons
        <5> QED
          BY <2>2, <5>1, <5>2 DEF Under
      <4>3. screen \notin Forgetful
        BY <2>4 DEF At, Forgetful
      <4> QED
        BY <4>1, <4>2, <4>3 DEF ScreenInv, Locks
    <3> QED
      BY <1>1, <3>1, <3>3, <3>4, <3>5 DEF ToldSound
  <2> QED
    BY <2>3, <2>4
<1> QED
  BY <1>4, <1>5, <1>6, <1>7, <1>8, <1>9, <1>10, <1>11, <1>12, <1>13, <1>14, <1>15, <1>17, <1>18
  DEF Forms

-----------------------------------------------------------------------------
(* The invariant, and what follows from it.                                *)

LEMMA ScreenInvInit == ScreenInit => ScreenInv
<1> SUFFICES ASSUME ScreenInit PROVE ScreenInv
  OBVIOUS
<1> DEFINE first == [key |-> 0, text |-> Nothing, version |-> 1, intent |-> 0]
<1>1. first \in ARecord /\ table = <<first>> /\ first.version = 1 /\ first.key = 0 /\ first.intent = 0
      /\ first.text = Nothing
  BY DEF ScreenInit, ARecord, AnyText
<1> HIDE DEF first
<1>2. table \in Seq(ARecord) /\ Len(table) = 1 /\ table[1] = first
  BY <1>1
<1>3. calls = [c \in Calls |-> NoCall] /\ \A c \in Calls : calls[c] = NoCall
  BY DEF ScreenInit
<1>4. ScreenTyped
  <2>1. MaxOpenings \in Nat /\ MaxSends \in Nat /\ MaxOthers \in Nat
    BY BoundsAssumption
  <2>2. calls \in [Calls -> Call]
    BY <1>3, Nothings
  <2>3. form \in [session : 0..MaxOpenings, open : BOOLEAN, on : Nat, base : Nat, text : AnyText]
    BY <2>1 DEF ScreenInit, NoForm, AnyText
  <2>4. /\ ref \in [text : AnyText, key : 0..sends] /\ wish \in [text : AnyText, intent : 0..sends]
        /\ shown \in [for : Filters, rows : Seq(Answer), ready : BOOLEAN]
    BY DEF ScreenInit, NoRef, NoWish, AnyText
  <2>5. loads \in SUBSET Reading
    BY DEF ScreenInit, Reading
  <2>6. /\ sends \in 0..MaxSends /\ others \in 0..MaxOthers /\ asked \in Nat
        /\ saving \in BOOLEAN /\ busy \in BOOLEAN /\ screen \in Visited /\ filter \in Filters
        /\ told \in SUBSET Answer
    <3>1. /\ sends = 0 /\ others = 0 /\ asked = 1 /\ saving = FALSE /\ busy = FALSE
          /\ screen \in Visited /\ filter \in Filters /\ told = {}
      BY DEF ScreenInit
    <3>2. sends \in 0..MaxSends /\ others \in 0..MaxOthers /\ asked \in Nat
      BY <2>1, <3>1
    <3> QED
      BY <3>1, <3>2
  <2>7. Len(table) >= 1 /\ table \in Seq(ARecord)
    BY <1>2
  <2> QED
    BY <2>2, <2>3, <2>4, <2>5, <2>6, <2>7, Zenon DEF ScreenTyped
<1>5. Drafted(0, 0)
  BY <1>2 DEF Drafted
<1>6. FormSound
  BY <1>2, <1>5 DEF ScreenInit, FormSound, NoForm
<1>7. CallsSound
  BY <1>3, <1>5 DEF CallsSound, CallSound, NoCall
<1>8. Versions
  <2>1. Pending = {}
    BY <1>3 DEF Pending, NoCall
  <2>2. Cardinality(Pending) = 0
    BY <2>1, FS_EmptySet
  <2> QED
    BY <1>1, <1>2, <2>2 DEF ScreenInit, Versions
<1>9. Locks
  BY <1>3 DEF ScreenInit, Locks, Under, NoCall
<1>10. ListsKnown
  BY DEF ScreenInit, ListsKnown, Listing, Apart
<1>11. Creations
  <2>1. KeysFit
    BY <1>3 DEF ScreenInit, KeysFit, NoWish, NoRef, NoForm, Under, NoCall
  <2>2. \A m \in Meant : m.intent = 0 /\ m.key = 0
    <3>1. \A c \in Calls : calls[c].intent = 0 /\ calls[c].key = 0
      BY <1>3 DEF NoCall
    <3>2. \A i \in 1..Len(table) : table[i].intent = 0 /\ table[i].key = 0
      BY <1>1, <1>2
    <3>3. wish.intent = 0 /\ ref.key = 0
      BY DEF ScreenInit, NoWish, NoRef
    <3> QED
      BY <3>1, <3>2, <3>3 DEF Meant, Meaning
  <2>3. OnceMeant
    BY <2>2 DEF OnceMeant, ScreenInit
  <2> QED
    BY <2>1, <2>3 DEF Creations
<1>12. RecordsApart
  BY <1>2 DEF RecordsApart
<1>13. ToldSound
  BY <1>3 DEF ScreenInit, ToldSound, Covers, NoCall
<1> QED
  BY <1>4, <1>6, <1>7, <1>8, <1>9, <1>10, <1>11, <1>12, <1>13 DEF ScreenInv

LEMMA ScreenInvNext == ScreenInv /\ [ScreenNext]_screenVars => ScreenInv'
<1> SUFFICES ASSUME ScreenInv, [ScreenNext]_screenVars PROVE ScreenInv'
  OBVIOUS
<1>1. CASE ScreenNext
  <2>1. Forms
    BY <1>1, ScreenForms
  <2> QED
    BY <2>1, TypedStep, FormStep, CallsStep, VersionsStep, LocksStep, ListsStep, CreationsStep,
       RecordsStep, ToldStep DEF ScreenInv
<1>2. CASE UNCHANGED screenVars
  <2> USE <1>2 DEF screenVars
  <2>1. ScreenTyped' /\ FormSound' /\ Locks' /\ RecordsApart'
    BY DEF ScreenInv, ScreenTyped, FormSound, Drafted, Locks, Under, RecordsApart, UniqueByNature
  <2>2. CallsSound'
    BY DEF ScreenInv, CallsSound, CallSound, Drafted, Had, Full, Listing, Fresh, Unversioned
  <2>3. Versions'
    BY DEF ScreenInv, Versions, Pending
  <2>4. ListsKnown'
    BY DEF ScreenInv, ListsKnown, Listing, Had, Apart, Full
  <2>5. Creations'
    BY DEF ScreenInv, Creations, KeysFit, OnceMeant, Meant, Meaning, Under
  <2>6. ToldSound'
    BY DEF ScreenInv, ToldSound, TellsWhatItShows, At, Had, Covers
  <2> QED
    BY <2>1, <2>2, <2>3, <2>4, <2>5, <2>6 DEF ScreenInv
<1> QED
  BY <1>1, <1>2

\* The screen's state is of its types and its parts fit together as above, in every state.
THEOREM ScreenInvariant == ScreenSpec => []ScreenInv
<1> QED
  BY ScreenInvInit, ScreenInvNext, PTL DEF ScreenSpec

-----------------------------------------------------------------------------
(* What follows from the invariant.                                        *)

\* No record is edited more often than anybody asked for.
LEMMA VersionsBounded ==
  ASSUME ScreenInv, NEW i \in 1..Len(table)
  PROVE  table[i].version \in Nat /\ table[i].version <= 1 + sends + others
<1>1. table[i] \in ARecord /\ sends \in Nat /\ others \in Nat
  BY DEF ScreenInv, ScreenTyped
<1>2. table[i].version \in Nat
  BY <1>1 DEF ARecord
<1>3. Cardinality(Pending) \in Nat
  BY PendingSize
<1>4. table[i].version + Cardinality(Pending) <= 1 + sends + others
  BY DEF ScreenInv, Versions
<1> QED
  BY <1>1, <1>2, <1>3, <1>4

LEMMA ScreenTypes == ScreenInv => ScreenTypeOK
<1> SUFFICES ASSUME ScreenInv PROVE ScreenTypeOK
  OBVIOUS
<1>1. /\ screen \in Visited /\ filter \in Filters
      /\ form.session \in 0..MaxOpenings
      /\ ref.key \in 0..sends /\ wish.intent \in 0..sends
      /\ sends \in 0..MaxSends /\ others \in 0..MaxOthers
  BY DEF ScreenInv, ScreenTyped
<1>2. form.on \in 0..Len(table) /\ (form.open => form.text \in Texts)
  BY DEF ScreenInv, FormSound, Drafted
<1>3. /\ saving => \E c \in Calls : calls[c].live /\ ~calls[c].row
      /\ busy => \E c \in Calls : calls[c].live /\ calls[c].row
  BY DEF ScreenInv, Locks, Under
<1>4. ASSUME NEW c \in Calls
      PROVE  /\ calls[c].step \in {"idle", "sent", "done", "reread"}
             /\ calls[c].drawn \in 0..MaxSends + MaxOthers + 1
  <2>1. calls[c] \in Call /\ Drafted(calls[c].on, calls[c].drawn)
    BY DEF ScreenInv, ScreenTyped, CallsSound, CallSound
  <2>2. calls[c].step \in {"idle", "sent", "done", "reread"} /\ calls[c].drawn \in Nat
    BY <2>1 DEF Call
  <2>3. MaxSends \in Nat /\ MaxOthers \in Nat
    BY BoundsAssumption
  <2>4. CASE calls[c].on = 0
    BY <2>1, <2>2, <2>3, <2>4 DEF Drafted
  <2>5. CASE calls[c].on # 0
    <3>1. /\ calls[c].on \in 1..Len(table) /\ calls[c].drawn \in 1..table[calls[c].on].version
      BY <2>1, <2>5 DEF Drafted
    <3>2. /\ table[calls[c].on].version \in Nat
          /\ table[calls[c].on].version <= 1 + sends + others
      BY <3>1, VersionsBounded
    <3> QED
      BY <1>1, <2>2, <2>3, <3>1, <3>2
  <2> QED
    BY <2>4, <2>5
<1>5. ASSUME NEW k \in 1..Len(shown.rows)
      PROVE  /\ shown.rows[k].id \in 1..Len(table)
             /\ shown.rows[k].version \in 1..table[shown.rows[k].id].version
  BY DEF ScreenInv, ListsKnown, Listing, Had
<1> QED
  BY <1>1, <1>2, <1>3, <1>4, <1>5 DEF ScreenTypeOK

\* Two records that were meant as one are one.
LEMMA MeantOnce ==
  ASSUME ScreenInv, screen \notin Forgetful, NEW n, n # 0,
         NEW i \in 1..Len(table), NEW j \in 1..Len(table),
         table[i].intent = n, table[j].intent = n
  PROVE  i = j
<1>1. Meaning(table[i]) \in Meant /\ Meaning(table[j]) \in Meant
  BY DEF Meant
<1>2. Meaning(table[i]).intent = n /\ Meaning(table[j]).intent = n
  BY DEF Meaning
<1>3. OnceMeant
  BY DEF ScreenInv, Creations
<1>4. Meaning(table[i]) = Meaning(table[j])
  BY <1>1, <1>2, <1>3 DEF OnceMeant
<1>5. table[i].key = table[j].key /\ table[i].text = table[j].text
  BY <1>4 DEF Meaning
<1>6. CASE screen \in ByBody \cup ByOpening
  <2>1. Meaning(table[i]).key # 0
    BY <1>1, <1>2, <1>3, <1>6 DEF OnceMeant
  <2>2. table[i].key # 0
    BY <2>1 DEF Meaning
  <2> QED
    BY <1>5, <2>2 DEF ScreenInv, RecordsApart
<1>7. CASE screen \in ByNature
  <2>1. UniqueByNature
    BY <1>7 DEF ByNature, UniqueByNature
  <2> QED
    BY <1>5, <2>1 DEF ScreenInv, RecordsApart
<1> QED
  BY <1>1, <1>2, <1>3, <1>6, <1>7 DEF OnceMeant

\* The records of one intent are none or one.
LEMMA RetriesOnce == ScreenInv => RetriesCreateOnce
<1> SUFFICES ASSUME ScreenInv, screen \notin Forgetful, NEW n \in 1..sends
             PROVE  Cardinality(Copies(n)) <= 1
  BY DEF RetriesCreateOnce, CreatesOnce, Forgetful
<1>1. n # 0
  BY DEF ScreenInv, ScreenTyped
<1>2. CASE Copies(n) = {}
  BY <1>2, FS_EmptySet
<1>3. ASSUME NEW i \in Copies(n) PROVE Cardinality(Copies(n)) <= 1
  <2>1. \A j \in Copies(n) : j = i
    BY <1>1, MeantOnce DEF Copies
  <2>2. Copies(n) = {i}
    BY <2>1
  <2> QED
    BY <2>2, FS_Singleton
<1> QED
  BY <1>2, <1>3

LEMMA DraftsFrom == ScreenInv => DraftsSound
  BY ScreenTypes, RetriesOnce DEF DraftsSound

LEMMA ListsFrom == ScreenInv => ListsSound
<1>1. ScreenInv => ShownOnce
  BY DEF ScreenInv, ListsKnown, Apart, ShownOnce, Distinct
<1>2. ScreenInv => ShownForFilter
  BY DEF ScreenInv, ListsKnown, ShownForFilter
<1> QED
  BY <1>1, <1>2 DEF ListsSound

LEMMA SavedFrom == ScreenInv => SavedStaysShown
  BY DEF ScreenInv, ToldSound, Covers, SavedStaysShown

\* Sending a form again, after whatever came of the first request, creates one record, on
\* every screen that keeps an operation key or whose records are unique; and what is locked
\* is locked by a request under way.  For any number of requests under way and any texts.
THEOREM DraftsStaySound == ScreenSpec => []DraftsSound
<1> QED
  BY ScreenInvariant, DraftsFrom, PTL

\* No record is on a screen twice, and a list on the screen is the one for the filter that
\* is chosen, in whatever order requests and reads are answered.
THEOREM ListsStaySound == ScreenSpec => []ListsSound
<1> QED
  BY ScreenInvariant, ListsFrom, PTL

\* What was said to be saved stays on the screen: no list that was read before replaces it.
THEOREM WhatWasSavedIsShown == ScreenSpec => []SavedStaysShown
<1> QED
  BY ScreenInvariant, SavedFrom, PTL

\* A request writes over a record.
Overwritten(c, i) ==
  calls[c].step = "sent" /\ calls'[c] # calls[c] /\ table'[i] # table[i]

\* Only the server's answer to an edit changes a request and a record at once.
LEMMA SeenBefore ==
  ASSUME ScreenInv, ScreenNext, Fresh \/ screen = "reversals", NEW c \in Calls,
         NEW i \in 1..Len(table), Overwritten(c, i)
  PROVE  calls[c].on = i /\ calls[c].drawn = table[i].version
<1>1. Forms
  BY ScreenForms
<1>2. /\ table \in Seq(ARecord) /\ calls \in [Calls -> Call] /\ Len(table) \in Nat
  BY DEF ScreenInv, ScreenTyped
<1>3. table' # table /\ calls' # calls
  BY DEF Overwritten
<1>a. ~OnRecord /\ ~At("visittasks") /\ ~Unversioned
  BY DEF Fresh, Unversioned, OnRecord, At
<1>4. ASSUME NEW d \in Calls, Serve(d)
      PROVE  calls[c].on = i /\ calls[c].drawn = table[i].version
  <2>1. \E reply : Replies(d, reply)
    BY <1>4 DEF Serve, ServeReplay, SkipKnownWork, ServeCreate, ServeEdit
  <2>2. d = c
    BY <1>2, <2>1 DEF Overwritten, Replies
  <2>3. ~ServeReplay(c)
    BY <1>3 DEF ServeReplay
  <2>4. ~SkipKnownWork(c)
    BY <1>a DEF SkipKnownWork
  <2>5. ~ServeCreate(c)
    <3> SUFFICES ASSUME ServeCreate(c) PROVE FALSE
      OBVIOUS
    <3>1. table' # table /\ table'[i] # table[i]
      BY DEF Overwritten
    <3> QED
      BY <1>a, <3>1, Creation DEF Creates
  <2>6. ServeEdit(c)
    BY <1>4, <2>2, <2>3, <2>4, <2>5 DEF Serve
  <2>7. table' = [table EXCEPT ![calls[c].on].version = @ + 1] /\ ~IsNew(c)
    BY <1>3, <2>6 DEF ServeEdit
  <2>8. calls[c].on = i
    BY <1>2, <2>7 DEF Overwritten
  <2>9. table[i].version = Expected(c)
    BY <1>a, <1>3, <2>6, <2>8 DEF ServeEdit
  <2>10. i # 0 /\ calls[c].drawn \in 1..table[i].version /\ (Fresh => calls[c].base = calls[c].drawn)
    BY <1>2, <2>8, CallOf DEF CallSound, Drafted
  <2>11. CASE Fresh
    BY <2>8, <2>9, <2>10, <2>11 DEF Expected, Fresh, At
  <2>12. CASE screen = "reversals"
    <3>1. table[i].version = 1
      BY <2>9, <2>12 DEF Expected, At
    <3> QED
      BY <2>8, <2>10, <3>1
  <2> QED
    BY <2>11, <2>12
<1>5. CASE \E j \in 1..Len(table) : OtherEdit(j)
  BY <1>3, <1>5 DEF OtherEdit
<1>6. CASE \/ Opens \/ Fills \/ CloseForm \/ Sends \/ Reloads \/ Chooses \/ Acts
           \/ Served \/ Answers \/ Fails
  <2>1. CASE Opens \/ Fills \/ CloseForm
    BY <1>3, <2>1 DEF Opens, Opening, Fills, Fill, CloseForm, Close
  <2>2. CASE Sends \/ Acts
    BY <1>3, <2>2 DEF Sends, Send, Acts, RowAction
  <2>3. CASE Reloads \/ Chooses
    BY <1>3, <2>3 DEF Reloads, ReadAgain, Chooses, ChooseFilter
  <2>4. CASE Served \/ Answers \/ Fails
    BY <1>3, <2>4 DEF Served, LoadServed, Answers, LoadAnswers, Fails, LoadFails
  <2> QED
    BY <1>6, <2>1, <2>2, <2>3, <2>4
<1>7. ASSUME NEW d \in Calls,
             \/ Lost(d) \/ NeverArrives(d) \/ Refused(d) \/ Saves(d)
             \/ ReadsAgain(d) \/ ListRead(d) \/ ListUnread(d) \/ RowSaved(d)
      PROVE  FALSE
  BY <1>3, <1>7 DEF Lost, NeverArrives, Refused, Saves, Saved, ReadsAgain, ListRead, ListUnread,
                    RowSaved
<1> QED
  BY <1>1, <1>4, <1>5, <1>6, <1>7 DEF Forms

\* An edit, an action on a row or a reversal replaces no version of a record but the one its
\* draft was taken from, and no request changes a record that it is not about.  On every
\* screen but those whose requests do not have the version of the draft: visits and the
\* work done on them, the plan of a month, the access of a user and the settings (no
\* version), projects and payments (the version that the list has when they are sent).
THEOREM NothingUnseenOverwritten == ScreenSpec => NothingOverwrittenUnseen
<1>1. ScreenInv /\ [ScreenNext]_screenVars =>
        [~Unversioned /\ screen \notin {"projects", "payments"} =>
           \A c \in Calls : \A i \in 1..Len(table) :
              (/\ calls[c].step = "sent" /\ calls'[c] # calls[c]
               /\ table'[i] # table[i])
                 => calls[c].on = i /\ calls[c].drawn = table[i].version]_screenVars
  BY SeenBefore DEF Overwritten, Fresh
<1> QED
  BY <1>1, ScreenInvariant, PTL DEF ScreenSpec, NothingOverwrittenUnseen
=============================================================================
