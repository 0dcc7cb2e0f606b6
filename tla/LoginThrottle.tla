---------------------------- MODULE LoginThrottle ----------------------------
(***************************************************************************)
(* The durable login throttle, src/platform/auth/login-throttle.ts.        *)
(*                                                                         *)
(* An attempt runs up to three transactions under READ COMMITTED: it looks *)
(* for a block, verifies the credentials outside of any transaction, and   *)
(* then either counts the failure in all of its buckets or clears its      *)
(* account's.  Each transaction reads the database clock before it waits   *)
(* for the rows, so it may act on an instant earlier than theirs.  Rows    *)
(* that are missing are not locked: two attempts may insert the same one,  *)
(* and the second then starts its transaction again, once.                 *)
(***************************************************************************)
EXTENDS Integers, FiniteSets

CONSTANTS
  Attempts,      \* login requests
  Accounts,      \* account buckets
  Networks,      \* network buckets
  Portal,        \* the global bucket
  None,          \* no row, no network signal
  AccountLimit,  \* LOGIN_THROTTLE_POLICY.accountFailureLimit
  NetworkLimit,  \* networkFailureLimit
  PortalLimit,   \* globalFailureLimit
  Window,        \* windowMilliseconds, and blockMilliseconds
  Retention,     \* rows older than this are deleted
  PurgeLimit,    \* the LIMIT of that deletion
  Lag,           \* bound: how long a transaction may take (QUERY_TIMEOUT_MS)
  Horizon        \* bound: the last instant

\* A first failure never blocks (insertFirstFailure), so no limit may be 1.
ASSUME LimitsAssumption == {AccountLimit, NetworkLimit, PortalLimit} \subseteq Nat \ {0, 1}
\* Rows are kept for 24 hours; a transaction is a few statements of a second each.  With
\* 2 * Lag < Retention only, TwoTriesSuffice fails: the portal's row can then expire
\* between the two tries of an attempt.
ASSUME TimesAssumption ==
  /\ {Window, Retention, Lag, Horizon} \subseteq Nat \ {0}
  /\ 3 * Lag <= Retention
\* The type of a bucket is part of its key.
ASSUME PortalAssumption == Portal \notin Accounts

Buckets == Accounts \cup Networks \cup {Portal}

Limit(b) == IF b \in Accounts THEN AccountLimit
            ELSE IF b \in Networks THEN NetworkLimit ELSE PortalLimit

VARIABLES
  clock,         \* UTC_TIMESTAMP(6)
  rows,          \* login_attempt_throttle; failure_count is the size of "who"
  pc,            \* the step each attempt is at, or its result
  mine,          \* the buckets of the attempt
  now,           \* the instant its transaction read
  seen,          \* accountUpdatedAtUtc, 0 when there was no row
  again,         \* the attempts that have met a duplicate key
  held,          \* the rows its transaction locks
  counted        \* history: the instant at which its failure was counted

vars == <<clock, rows, pc, mine, now, seen, again, held, counted>>

NoRow == [who |-> {}, since |-> 0, until |-> 0, at |-> 0]

Exists(b) == rows[b] # NoRow
AccountOf(a) == CHOOSE b \in mine[a] : b \in Accounts

Init ==
  /\ clock = 1
  /\ rows = [b \in Buckets |-> NoRow]
  /\ pc = [a \in Attempts |-> "idle"]
  /\ mine = [a \in Attempts |-> {}]
  /\ now = [a \in Attempts |-> 0]
  /\ seen = [a \in Attempts |-> 0]
  /\ again = {}
  /\ held = [a \in Attempts |-> {}]
  /\ counted = [a \in Attempts |-> 0]

-----------------------------------------------------------------------------
(* What a transaction reads.                                               *)

Free(a, bs) == \A c \in Attempts \ {a} : held[c] \cap bs = {}

\* validateRows as far as rows that this program wrote can fail it.
Inconsistent(b, t) ==
  /\ Exists(b)
  /\ \/ rows[b].since > rows[b].at
     \/ rows[b].at > t
     \/ rows[b].until # 0 /\ rows[b].until < rows[b].at
     \/ (Cardinality(rows[b].who) >= Limit(b)) # (rows[b].until # 0)

\* anyBucketBlocked.  Mutant: only the account's bucket is looked at.
BlockedAccount(a, t) == rows[AccountOf(a)].until > t
Blocked(a, t) == \E b \in mine[a] : rows[b].until > t

\* deleteExpiredRows: the oldest rows first, and no more than the limit.
Expired(table) == {b \in Buckets : table[b] # NoRow /\ table[b].at + Retention < clock}
Oldest(table) ==
  {bs \in SUBSET Expired(table) :
     /\ Cardinality(bs) <= PurgeLimit
     /\ Cardinality(bs) < PurgeLimit => bs = Expired(table)
     /\ \A b \in bs, d \in Expired(table) \ bs : table[b].at <= table[d].at}
Purge(a, table) ==
  \E bs \in Oldest(table) :
    /\ Free(a, bs)
    /\ rows' = [b \in Buckets |-> IF b \in bs THEN NoRow ELSE table[b]]

-----------------------------------------------------------------------------
(* What a failure does to a row.                                           *)

\* Mutant: the window starts again, but the block is kept.
Renewed(b, t) == t - rows[b].since >= Window \/ (rows[b].until # 0 /\ rows[b].until <= t)

Who(a, b, t) == IF Exists(b) /\ ~Renewed(b, t) THEN rows[b].who \cup {a} ELSE {a}

Until(a, b, t) ==
  IF Exists(b) /\ Cardinality(Who(a, b, t)) >= Limit(b) THEN t + Window ELSE 0

\* insertFirstFailure and updateFailure.
Failure(a, b, t) ==
  [who |-> Who(a, b, t),
   since |-> IF Exists(b) /\ ~Renewed(b, t) THEN rows[b].since ELSE t,
   until |-> Until(a, b, t),
   at |-> t]

\* Mutant: rows that another attempt inserted meanwhile are left out.
SkipInserted(a) == {b \in mine[a] : b \in held[a] \/ ~Exists(b)}
Target(a) == mine[a]

-----------------------------------------------------------------------------
(* The steps of an attempt.                                                *)

\* The transaction ends.
End(a, result) ==
  /\ pc' = [pc EXCEPT ![a] = result]
  /\ held' = [held EXCEPT ![a] = {}]

Begin(a, account, network) ==
  /\ pc[a] = "idle"
  /\ pc' = [pc EXCEPT ![a] = "check"]
  /\ mine' = [mine EXCEPT ![a] = {account, Portal} \cup ({network} \ {None})]
  /\ now' = [now EXCEPT ![a] = clock]
  /\ UNCHANGED <<clock, rows, seen, again, held, counted>>

\* isBlocked, and what runLoginAttemptWithThrottle makes of it.
Check(a) ==
  /\ pc[a] = "check"
  /\ Free(a, mine[a])
  /\ End(a, IF \E b \in mine[a] : Inconsistent(b, now[a]) THEN "unavailable"
            ELSE IF Blocked(a, now[a]) THEN "blocked" ELSE "verify")
  /\ seen' = [seen EXCEPT ![a] = rows[AccountOf(a)].at]
  /\ UNCHANGED <<clock, rows, mine, now, again, counted>>

\* The credentials are right, wrong, or could not be verified.
Verify(a) ==
  /\ pc[a] = "verify"
  /\ \E next \in {"clear", "record", "error"} : pc' = [pc EXCEPT ![a] = next]
  /\ now' = [now EXCEPT ![a] = clock]
  /\ UNCHANGED <<clock, rows, mine, seen, again, held, counted>>

\* recordFailureOnce up to the block of another attempt.
SelectRows(a) ==
  /\ pc[a] = "record"
  /\ Free(a, mine[a])
  /\ UNCHANGED <<clock, mine, now, seen, again, counted>>
  /\ \/ /\ \E b \in mine[a] : Inconsistent(b, now[a])
        /\ End(a, "unavailable")
        /\ UNCHANGED rows
     \/ /\ \A b \in mine[a] : ~Inconsistent(b, now[a])
        /\ Blocked(a, now[a])
        /\ Purge(a, rows)
        /\ End(a, "rejected")
     \/ /\ \A b \in mine[a] : ~Inconsistent(b, now[a])
        /\ ~Blocked(a, now[a])
        /\ pc' = [pc EXCEPT ![a] = "write"]
        /\ held' = [held EXCEPT ![a] = {b \in mine[a] : Exists(b)}]
        /\ UNCHANGED rows

\* Another attempt has inserted a row that was missing.
Duplicate(a) == \E b \in Target(a) \ held[a] : Exists(b)

AfterDuplicate(a) == IF a \in again THEN "unavailable" ELSE "record"

Retry(a) ==
  /\ pc[a] = "write"
  /\ Duplicate(a)
  /\ End(a, AfterDuplicate(a))
  /\ again' = again \cup {a}
  /\ now' = [now EXCEPT ![a] = clock]
  /\ UNCHANGED <<clock, rows, mine, seen, counted>>

\* The failure is counted in every bucket; the commit's answer may be lost.
Record(a) ==
  /\ pc[a] = "write"
  /\ ~Duplicate(a)
  /\ Purge(a, [b \in Buckets |-> IF b \in Target(a) THEN Failure(a, b, now[a]) ELSE rows[b]])
  /\ counted' = [counted EXCEPT ![a] = now[a]]
  /\ \E result \in {"rejected", "unavailable"} : End(a, result)
  /\ UNCHANGED <<clock, mine, now, seen, again>>

Erasable(a) == seen[a] # 0 /\ rows[AccountOf(a)].at = seen[a]

\* clearAccountFailure.
Clear(a) ==
  /\ pc[a] = "clear"
  /\ seen[a] # 0 => Free(a, {AccountOf(a)})
  /\ Purge(a, IF Erasable(a) THEN [rows EXCEPT ![AccountOf(a)] = NoRow] ELSE rows)
  /\ \E result \in {"authenticated", "unavailable"} : End(a, result)
  /\ UNCHANGED <<clock, mine, now, seen, again, counted>>

\* A query times out, a deadlock, a lost connection: the throttle fails closed.
Fail(a) ==
  /\ pc[a] \in {"check", "record", "write", "clear"}
  /\ End(a, "unavailable")
  /\ UNCHANGED <<clock, rows, mine, now, seen, again, counted>>

InTransaction(a) == pc[a] \in {"check", "record", "write"}

Tick ==
  /\ clock < Horizon
  /\ \A a \in Attempts : InTransaction(a) => clock - now[a] < Lag
  /\ clock' = clock + 1
  /\ UNCHANGED <<rows, pc, mine, now, seen, again, held, counted>>

Next ==
  \/ Tick
  \/ \E a \in Attempts :
       \/ \E account \in Accounts, network \in Networks \cup {None} :
            Begin(a, account, network)
       \/ Check(a) \/ Verify(a) \/ SelectRows(a) \/ Retry(a) \/ Record(a)
       \/ Clear(a) \/ Fail(a)

Spec == Init /\ [][Next]_vars

-----------------------------------------------------------------------------
(* What the throttle promises.                                             *)

Results == {"blocked", "authenticated", "rejected", "unavailable", "error"}
RowsType == [who : SUBSET Attempts, since : 0..Horizon, until : 0..(Horizon + Window),
             at : 0..Horizon]

TypeOK ==
  /\ clock \in 1..Horizon
  /\ rows \in [Buckets -> RowsType]
  /\ pc \in [Attempts -> {"idle", "check", "verify", "record", "write", "clear"} \cup Results]
  /\ mine \in [Attempts -> SUBSET Buckets]
  /\ now \in [Attempts -> 0..Horizon]
  /\ seen \in [Attempts -> 0..Horizon]
  /\ again \in SUBSET Attempts
  /\ held \in [Attempts -> SUBSET Buckets]
  /\ counted \in [Attempts -> 0..Horizon]
  /\ \A a \in Attempts : held[a] # {} => pc[a] = "write"

\* Whatever attempts write at once, no row ever fails the validation at the
\* present instant: the throttle cannot lock everybody out by itself.  Nor does a
\* bucket count more failures than its limit (the check in updateFailure).
RowsStayValid ==
  \A b \in Buckets : Exists(b) =>
    /\ ~Inconsistent(b, clock)
    /\ Cardinality(rows[b].who) \in 1..Limit(b)

\* A failure is counted in all of its buckets or in none: whoever is counted in
\* one is counted in the others, unless their window has begun again since, their
\* row has expired, or a success has cleared the account.
CountedEverywhere ==
  \A b \in Buckets : \A a \in rows[b].who : \A c \in mine[a] \ Accounts :
    \/ a \in rows[c].who
    \/ Exists(c) /\ counted[a] < rows[c].since
    \/ counted[a] + Retention < clock

\* recordFailure tries twice only.  That is enough: all attempts share the portal's
\* bucket, so whoever met a duplicate finds a row to lock the second time.
TwoTriesSuffice == \A a \in again : pc[a] = "write" => ~Duplicate(a)

\* No credential is verified while one of the attempt's buckets is blocked, however
\* long its transaction waited after it had read the clock.
NoVerifyWhileBlocked ==
  [][\A a \in Attempts : pc[a] = "check" /\ pc'[a] = "verify" =>
       \A b \in mine[a] : rows[b].until <= clock]_vars

\* A success erases no failure counted at a later instant than the row it saw when
\* it looked for a block: "newer evidence wins".  A row is told apart by its
\* instant only, so this says nothing of failures in the same microsecond.
LaterEvidenceWins ==
  [][\A a \in Attempts : pc[a] = "clear" /\ pc'[a] = "authenticated" =>
       LET b == AccountOf(a) IN
       Exists(b) /\ rows'[b] = NoRow /\ b \notin Expired(rows) =>
         \A c \in rows[b].who : counted[c] <= seen[a]]_vars

\* What holds of the throttle's rows and attempts at every instant.
EvidenceSound == RowsStayValid /\ CountedEverywhere /\ TwoTriesSuffice

\* What a check and a success may not do to the evidence that others have left.
EvidenceRespected == NoVerifyWhileBlocked /\ LaterEvidenceWins
=============================================================================
