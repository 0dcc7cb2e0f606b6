------------------------- MODULE SchedulingProofs -------------------------
(***************************************************************************)
(* Theorems about the two models behind a scheduled call: CronDispatch,    *)
(* the endpoint that lets a call in, for any number of calls and any       *)
(* interval, and JobEngine, the dispatcher it starts, for any set of jobs  *)
(* and dispatchers, any attempt limit, batch size, lease, backoff policy   *)
(* and horizon.  The two share no variable.                                *)
(***************************************************************************)
EXTENDS JobEngine, CronDispatch, TLAPS

USE JobsAssumption, CapAssumption, HorizonAssumption

-----------------------------------------------------------------------------
(* Type correctness.                                                       *)

\* A sum of instants is an instant, whatever the summands.
LEMMA LaterType == \A t, d : Later(t, d) \in 0..Horizon
  BY DEF Later

\* A job keeps within the attempts it was granted, and a job that was never
\* enqueued was granted none.
AttemptBounds ==
  \A j \in Jobs :
    /\ job[j].attempts <= job[j].max
    /\ job[j].status = "absent" => job[j].max = 0
    /\ job[j].status \notin {"absent", "pending"} => job[j].attempts >= 1

TypedBounds == TypeOK /\ AttemptBounds

LEMMA FirstDueSubset == \A S : FirstDue(S) \subseteq S
  BY DEF FirstDue

LEMMA InitTyped == Init => TypedBounds
  BY DEF Init, TypedBounds, TypeOK, AttemptBounds, Rows, Runs, Statuses,
         Outcomes, NoRow, NoRun, Attempts

\* What an enqueue, a claim and a release make of a well-typed row.
LEMMA EnqueuedType ==
  ASSUME TypedBounds, NEW j \in Jobs, NEW n \in Attempts, NEW d
  PROVE  /\ Enqueued(j, n, d) \in Rows
         /\ Enqueued(j, n, d).attempts <= Enqueued(j, n, d).max
         /\ Enqueued(j, n, d).status = "absent" => Enqueued(j, n, d).max = 0
         /\ Enqueued(j, n, d).status \notin {"absent", "pending"} =>
              Enqueued(j, n, d).attempts >= 1
<1>1. CASE job[j].status = "absent"
  <2>1. Enqueued(j, n, d) = [status |-> "pending", avail |-> Later(now, d),
                             attempts |-> 0, max |-> n, token |-> 0,
                             expires |-> 0]
    BY <1>1 DEF Enqueued, NewRow, NoRow
  <2>2. Later(now, d) \in 0..Horizon
    BY LaterType
  <2> QED
    BY <2>1, <2>2 DEF Rows, Statuses, Attempts
<1>2. CASE job[j].status # "absent"
  BY <1>2 DEF Enqueued, TypedBounds, TypeOK, AttemptBounds
<1> QED
  BY <1>1, <1>2

LEMMA ClaimedType ==
  ASSUME TypedBounds, NEW t, NEW j \in Claimable(t)
  PROVE  /\ j \in Jobs
         /\ job[j].attempts + 1 \in Attempts
         /\ ClaimedRow(j, t) \in Rows
         /\ ClaimedRow(j, t).status = "leased"
         /\ ClaimedRow(j, t).attempts = job[j].attempts + 1
         /\ ClaimedRow(j, t).max = job[j].max
         /\ ClaimedRow(j, t).token = lastToken + 1
         /\ job[j].attempts + 1 <= job[j].max
<1>1. Later(t, Lease) \in 0..Horizon
  BY LaterType
<1>2. j \in Jobs /\ job[j] \in Rows /\ lastToken + 1 \in Nat
  BY DEF TypedBounds, TypeOK, Claimable
<1>3. job[j].attempts < job[j].max
  BY DEF Claimable
<1>4. /\ job[j].attempts + 1 \in Attempts
      /\ job[j].attempts + 1 <= job[j].max
  BY <1>2, <1>3 DEF Rows, Attempts
<1>5. ClaimedRow(j, t) =
        [status |-> "leased", avail |-> job[j].avail,
         attempts |-> job[j].attempts + 1, max |-> job[j].max,
         token |-> lastToken + 1, expires |-> Later(t, Lease)]
  BY DEF ClaimedRow
<1>6. ClaimedRow(j, t) \in Rows
  BY <1>1, <1>2, <1>4, <1>5 DEF Rows, Statuses, Attempts
<1> QED
  BY <1>2, <1>4, <1>5, <1>6

LEMMA ReleasedType ==
  ASSUME TypedBounds, NEW j \in Jobs, NEW status \in Statuses,
         NEW avail \in 0..Horizon
  PROVE  /\ ReleasedRow(j, status, avail) \in Rows
         /\ ReleasedRow(j, status, avail).status = status
         /\ ReleasedRow(j, status, avail).attempts = job[j].attempts
         /\ ReleasedRow(j, status, avail).max = job[j].max
<1>1. job[j] \in Rows
  BY DEF TypedBounds, TypeOK
<1>2. ReleasedRow(j, status, avail) =
        [status |-> status, avail |-> avail, attempts |-> job[j].attempts,
         max |-> job[j].max, token |-> 0, expires |-> 0]
  BY DEF ReleasedRow
<1> QED
  BY <1>1, <1>2 DEF Rows

\* The rows and runs a claim transaction leaves behind are well typed.
LEMMA ClaimTyped ==
  ASSUME TypedBounds, NEW w \in Workers, ClaimTxn(w)
  PROVE  TypedBounds'
<1> DEFINE claimed == FirstDue(Claimable(at[w]))
           buried == FirstDue(Exhausted(at[w]))
<1>1. claimed \subseteq Claimable(at[w]) /\ buried \subseteq Exhausted(at[w])
  BY FirstDueSubset
<1>2. \A j \in buried : j \in Jobs /\ job[j].status = "leased"
  BY <1>1 DEF Exhausted, Expired
<1>3. \A j \in Jobs :
        job'[j] = IF j \in claimed THEN ClaimedRow(j, at[w])
                  ELSE IF j \in buried
                       THEN ReleasedRow(j, "dead_letter", job[j].avail)
                       ELSE job[j]
  BY DEF ClaimTxn
<1>4. ASSUME NEW j \in Jobs
      PROVE  /\ job'[j] \in Rows
             /\ job'[j].attempts <= job'[j].max
             /\ job'[j].status = "absent" => job'[j].max = 0
             /\ job'[j].status \notin {"absent", "pending"} => job'[j].attempts >= 1
  <2>0. job[j] \in Rows
    BY DEF TypedBounds, TypeOK
  <2>1. CASE j \in claimed
    <3>1. job'[j] = ClaimedRow(j, at[w])
      BY <1>3, <2>1
    <3>2. /\ ClaimedRow(j, at[w]) \in Rows
          /\ ClaimedRow(j, at[w]).status = "leased"
          /\ ClaimedRow(j, at[w]).attempts = job[j].attempts + 1
          /\ ClaimedRow(j, at[w]).max = job[j].max
          /\ job[j].attempts + 1 <= job[j].max
      BY <1>1, <2>1, ClaimedType
    <3> QED
      BY <3>1, <3>2, <2>0 DEF Rows
  <2>2. CASE j \notin claimed /\ j \in buried
    <3>1. job'[j] = ReleasedRow(j, "dead_letter", job[j].avail)
      BY <1>3, <2>2
    <3>2. job[j].avail \in 0..Horizon /\ "dead_letter" \in Statuses
      BY <2>0 DEF Rows, Statuses
    <3>3. job[j].attempts <= job[j].max /\ job[j].attempts >= 1
      BY <2>2, <1>2 DEF TypedBounds, AttemptBounds
    <3>4. /\ job'[j] \in Rows
          /\ job'[j].status = "dead_letter"
          /\ job'[j].attempts = job[j].attempts
          /\ job'[j].max = job[j].max
      BY <3>1, <3>2, ReleasedType
    <3> QED
      BY <3>3, <3>4
  <2>3. CASE j \notin claimed /\ j \notin buried
    BY <1>3, <2>0, <2>3 DEF TypedBounds, AttemptBounds
  <2> QED
    BY <2>1, <2>2, <2>3
<1>5. job' \in [Jobs -> Rows]
  BY <1>4 DEF ClaimTxn
<1>6. run' \in [Jobs -> [Attempts -> Runs]]
  <2>1. ASSUME NEW j \in Jobs, NEW a \in Attempts
        PROVE  ClaimRuns(j, claimed, buried)[a] \in Runs
    <3>1. run[j][a].token \in Nat /\ run[j][a] \in Runs /\ lastToken + 1 \in Nat
      BY DEF TypedBounds, TypeOK, Runs
    <3>2. ClosedRun(j, a, "lease_expired") \in Runs
      BY <3>1 DEF ClosedRun, Runs, Outcomes
    <3>3. [token |-> lastToken + 1, outcome |-> "running"] \in Runs
      BY <3>1 DEF Runs, Outcomes
    <3> QED
      BY <3>1, <3>2, <3>3 DEF ClaimRuns
  <2>2. \A j \in Jobs : ClaimRuns(j, claimed, buried) \in [Attempts -> Runs]
    BY <2>1 DEF ClaimRuns
  <2> QED
    BY <2>2 DEF ClaimTxn
<1>7. batch' \in [Workers -> SUBSET Claims]
  <2>1. ASSUME NEW j \in claimed
        PROVE  [job |-> j, attempt |-> job[j].attempts + 1,
                token |-> lastToken + 1, due |-> Due(j)] \in Claims
    <3>1. j \in Jobs /\ job[j].attempts + 1 \in Attempts
      BY <1>1, ClaimedType
    <3>2. job[j] \in Rows /\ lastToken \in Nat
      BY <3>1 DEF TypedBounds, TypeOK
    <3>3. Due(j) \in 0..Horizon
      BY <3>2 DEF Due, Rows
    <3> QED
      BY <3>1, <3>2, <3>3 DEF Claims
  <2> QED
    BY <2>1 DEF ClaimTxn, TypedBounds, TypeOK
<1>8. lastToken' \in Nat
  BY DEF ClaimTxn, TypedBounds, TypeOK
<1>9. /\ pc' \in [Workers -> {"idle", "claiming", "running", "failing"}]
      /\ at' \in [Workers -> 0..Horizon]
      /\ tries' \in [Workers -> 0..3]
      /\ UNCHANGED <<now, effects>>
  BY DEF ClaimTxn, TypedBounds, TypeOK
<1> QED
  BY <1>4, <1>5, <1>6, <1>7, <1>8, <1>9 DEF TypedBounds, TypeOK, AttemptBounds

LEMMA ClaimNextTyped ==
  ASSUME TypedBounds, NEW w \in Workers, Claim(w)
  PROVE  TypedBounds'
<1>1. CASE Start(w)
  BY <1>1 DEF Start, TypedBounds, TypeOK, AttemptBounds
<1>2. CASE ClaimDeadlock(w)
  BY <1>2 DEF ClaimDeadlock, TypedBounds, TypeOK, AttemptBounds
<1> QED
  BY <1>1, <1>2, ClaimTyped DEF Claim

\* A job's row and run are replaced together by the dispatcher that holds its
\* lease: all that Succeed and RecordFailure do to the tables.
Settle(c, status, avail) ==
  /\ HoldsLease(c)
  /\ job' = [job EXCEPT ![c.job] = ReleasedRow(c.job, status, avail)]
  /\ CloseRun(c, status)

LEMMA SettleTyped ==
  ASSUME TypedBounds, NEW c \in Claims, NEW avail \in 0..Horizon,
         NEW status \in {"succeeded", "retry", "dead_letter"},
         Settle(c, status, avail)
  PROVE  job' \in [Jobs -> Rows] /\ run' \in [Jobs -> [Attempts -> Runs]]
         /\ AttemptBounds'
<1>1. c.job \in Jobs /\ c.attempt \in Attempts /\ status \in Statuses
  BY DEF Claims, Statuses
<1>2. job[c.job].status = "leased"
  BY DEF Settle, HoldsLease
<1>3. /\ ReleasedRow(c.job, status, avail) \in Rows
      /\ ReleasedRow(c.job, status, avail).status = status
      /\ ReleasedRow(c.job, status, avail).attempts = job[c.job].attempts
      /\ ReleasedRow(c.job, status, avail).max = job[c.job].max
  BY <1>1, ReleasedType
<1>4. job' \in [Jobs -> Rows]
  BY <1>1, <1>3 DEF Settle, TypedBounds, TypeOK
<1>5. run' \in [Jobs -> [Attempts -> Runs]]
  <2>0. run[c.job][c.attempt] \in Runs
    BY <1>1 DEF TypedBounds, TypeOK
  <2>1. run[c.job][c.attempt].token \in Nat
    BY <2>0 DEF Runs
  <2>2. ClosedRun(c.job, c.attempt, status) \in Runs
    BY <2>1 DEF ClosedRun, Runs, Outcomes
  <2> QED
    BY <1>1, <2>2 DEF Settle, CloseRun, TypedBounds, TypeOK
<1>6. AttemptBounds'
  BY <1>1, <1>2, <1>3 DEF Settle, TypedBounds, TypeOK, AttemptBounds
<1> QED
  BY <1>4, <1>5, <1>6

\* What each step of a dispatcher that runs a claim does to the tables: it
\* settles one job it holds the lease of, or it leaves them alone.
LEMMA ProcessSettles ==
  ASSUME TypedBounds, NEW w \in Workers, Process(w)
  PROVE  /\ \/ /\ UNCHANGED <<job, run, effects>>
            \/ \E c \in batch[w], avail \in 0..Horizon :
                 \/ /\ Settle(c, "succeeded", avail)
                    /\ effects' = [effects EXCEPT ![c.job] = @ + 1]
                 \/ /\ \/ Settle(c, "retry", avail)
                       \/ /\ Settle(c, "dead_letter", avail)
                          /\ c.attempt >= job[c.job].max
                    /\ UNCHANGED effects
         /\ batch'[w] \subseteq batch[w]
         /\ \A v \in Workers \ {w} : batch'[v] = batch[v]
         /\ pc' \in [Workers -> {"idle", "claiming", "running", "failing"}]
         /\ batch' \in [Workers -> SUBSET Claims]
         /\ UNCHANGED <<now, lastToken, at, tries>>
<1>0. batch[w] \subseteq Claims
  BY DEF TypedBounds, TypeOK
<1>1. ASSUME NEW c \in batch[w], Succeed(c)
      PROVE  \E avail \in 0..Horizon :
               /\ Settle(c, "succeeded", avail)
               /\ effects' = [effects EXCEPT ![c.job] = @ + 1]
  <2>1. c.job \in Jobs
    BY <1>0 DEF Claims
  <2>2. job[c.job].avail \in 0..Horizon
    BY <2>1 DEF TypedBounds, TypeOK, Rows
  <2>3. job' = [job EXCEPT ![c.job] = ReleasedRow(c.job, "succeeded", job[c.job].avail)]
    BY <1>1, <2>1 DEF Succeed, TypedBounds, TypeOK
  <2> QED
    BY <1>1, <2>2, <2>3 DEF Succeed, Settle
<1>2. ASSUME NEW c \in batch[w], Drop(w, c)
      PROVE  /\ batch'[w] \subseteq batch[w]
             /\ \A v \in Workers \ {w} : batch'[v] = batch[v]
             /\ pc' \in [Workers -> {"idle", "claiming", "running", "failing"}]
             /\ batch' \in [Workers -> SUBSET Claims]
  BY <1>2 DEF Drop, TypedBounds, TypeOK
<1>3. CASE RunJob(w)
  <2>1. PICK c \in batch[w] :
          Drop(w, c) /\ (Succeed(c) \/ UNCHANGED <<job, run, effects>>)
    BY <1>3 DEF RunJob
  <2> QED
    BY <1>1, <1>2, <1>3, <2>1 DEF RunJob
<1>4. CASE RunCommitLost(w)
  <2>1. PICK c \in batch[w] : Succeed(c)
    BY <1>4 DEF RunCommitLost
  <2> QED
    BY <1>1, <1>4, <2>1 DEF RunCommitLost, TypedBounds, TypeOK
<1>5. CASE RunFails(w)
  BY <1>5 DEF RunFails, TypedBounds, TypeOK
<1>6. CASE RecordFailure(w)
  <2>1. PICK c \in batch[w] :
          /\ Drop(w, c)
          /\ \/ /\ HoldsLease(c)
                /\ job' = [job EXCEPT ![c.job] =
                             ReleasedRow(c.job, FailureStatus(c),
                                         Later(now, FailureDelay(c)))]
                /\ CloseRun(c, FailureStatus(c))
             \/ UNCHANGED <<job, run>>
    BY <1>6 DEF RecordFailure
  <2>2. Later(now, FailureDelay(c)) \in 0..Horizon
    BY LaterType
  <2>3. \/ FailureStatus(c) = "retry"
        \/ FailureStatus(c) = "dead_letter" /\ c.attempt >= job[c.job].max
    BY DEF FailureStatus
  <2> QED
    BY <1>2, <1>6, <2>1, <2>2, <2>3 DEF RecordFailure, Settle
<1> QED
  BY <1>3, <1>4, <1>5, <1>6 DEF Process

LEMMA ProcessTyped ==
  ASSUME TypedBounds, NEW w \in Workers, Process(w)
  PROVE  TypedBounds'
<1>1. CASE UNCHANGED <<job, run, effects>>
  BY <1>1, ProcessSettles DEF TypedBounds, TypeOK, AttemptBounds
<1>2. ASSUME NEW c \in batch[w], NEW avail \in 0..Horizon,
             NEW status \in {"succeeded", "retry", "dead_letter"},
             Settle(c, status, avail),
             \/ effects' = [effects EXCEPT ![c.job] = @ + 1]
             \/ UNCHANGED effects
      PROVE  TypedBounds'
  <2>1. c \in Claims /\ c.job \in Jobs
    BY DEF TypedBounds, TypeOK, Claims
  <2>2. /\ job' \in [Jobs -> Rows] /\ run' \in [Jobs -> [Attempts -> Runs]]
        /\ AttemptBounds'
    BY <1>2, <2>1, SettleTyped
  <2>3. effects' \in [Jobs -> Nat]
    BY <1>2, <2>1 DEF TypedBounds, TypeOK
  <2> QED
    BY <2>2, <2>3, ProcessSettles DEF TypedBounds, TypeOK
<1> QED
  BY <1>1, <1>2, ProcessSettles

LEMMA EnqueueTyped ==
  ASSUME TypedBounds, NEW j \in Jobs, NEW n \in Attempts, NEW d,
         Enqueue(j, n, d)
  PROVE  TypedBounds'
<1>1. job' \in [Jobs -> Rows]
  BY EnqueuedType DEF Enqueue, TypedBounds, TypeOK
<1>2. AttemptBounds'
  BY EnqueuedType DEF Enqueue, TypedBounds, TypeOK, AttemptBounds
<1> QED
  BY <1>1, <1>2 DEF Enqueue, TypedBounds, TypeOK

LEMMA NextTyped == TypedBounds /\ [Next]_vars => TypedBounds'
<1> SUFFICES ASSUME TypedBounds, [Next]_vars PROVE TypedBounds'
  OBVIOUS
<1>1. CASE Tick
  BY <1>1 DEF Tick, TypedBounds, TypeOK, AttemptBounds
<1>2. ASSUME NEW j \in Jobs, NEW n \in Attempts, NEW d \in StartDelays,
             Enqueue(j, n, d)
      PROVE  TypedBounds'
  BY <1>2, EnqueueTyped
<1>3. ASSUME NEW w \in Workers, Claim(w) PROVE TypedBounds'
  BY <1>3, ClaimNextTyped
<1>4. ASSUME NEW w \in Workers, Process(w) PROVE TypedBounds'
  BY <1>4, ProcessTyped
<1>5. ASSUME NEW w \in Workers, Stop(w) PROVE TypedBounds'
  BY <1>5 DEF Stop, TypedBounds, TypeOK, AttemptBounds
<1>6. CASE UNCHANGED vars
  BY <1>6 DEF vars, TypedBounds, TypeOK, AttemptBounds
<1> QED
  BY <1>1, <1>2, <1>3, <1>4, <1>5, <1>6 DEF Next

LEMMA TypedAlways == Spec => []TypedBounds
  BY InitTyped, NextTyped, PTL DEF Spec

\* Every reachable state is well typed: rows keep within the attempts a caller
\* may grant, claims within the batch they were taken in.
THEOREM TypeCorrect == Spec => []TypeOK
<1>1. TypedBounds => TypeOK
  BY DEF TypedBounds
<1> QED
  BY <1>1, TypedAlways, PTL

-----------------------------------------------------------------------------
(* The attempt history.                                                    *)

HistoryInv == TypedBounds /\ RunHistory

LEMMA InitHistory == Init => RunHistory
  BY DEF Init, RunHistory, NoRow, NoRun, Attempts

\* The history of one job, so that a step can be argued job by job.
History(j) ==
  /\ job[j].status \in {"absent", "pending"} => job[j].attempts = 0
  /\ \A a \in Attempts :
       /\ a > job[j].attempts => run[j][a] = NoRun
       /\ a < job[j].attempts => run[j][a].outcome \in {"retry", "lease_expired"}
       /\ a = job[j].attempts =>
            /\ <<job[j].status, run[j][a].outcome>> \in LastRun
            /\ job[j].status = "leased" => run[j][a].token = job[j].token

LEMMA HistoryByJob == RunHistory <=> \A j \in Jobs : History(j)
  BY DEF RunHistory, History

LEMMA UnchangedHistory ==
  ASSUME NEW j, History(j), job'[j] = job[j], run'[j] = run[j]
  PROVE  History(j)'
  BY DEF History

LEMMA ClaimHistory ==
  ASSUME HistoryInv, NEW w \in Workers, ClaimTxn(w)
  PROVE  RunHistory'
<1> DEFINE claimed == FirstDue(Claimable(at[w]))
           buried == FirstDue(Exhausted(at[w]))
<1>1. claimed \subseteq Claimable(at[w]) /\ buried \subseteq Exhausted(at[w])
  BY FirstDueSubset
<1>2. SUFFICES ASSUME NEW j \in Jobs PROVE History(j)'
  BY DEF RunHistory, History
<1>3. History(j) /\ job[j] \in Rows /\ lastToken + 1 \in Nat
      /\ run[j] \in [Attempts -> Runs]
  BY HistoryByJob DEF HistoryInv, TypedBounds, TypeOK
<1>4. job'[j] = IF j \in claimed THEN ClaimedRow(j, at[w])
                ELSE IF j \in buried
                     THEN ReleasedRow(j, "dead_letter", job[j].avail)
                     ELSE job[j]
  BY DEF ClaimTxn
<1>5. \A a \in Attempts :
        run'[j][a] =
          IF j \in claimed /\ a = job[j].attempts + 1
          THEN [token |-> lastToken + 1, outcome |-> "running"]
          ELSE IF /\ j \in claimed \cup buried
                  /\ a = job[j].attempts
                  /\ job[j].status = "leased"
               THEN ClosedRun(j, a, "lease_expired")
               ELSE run[j][a]
  BY DEF ClaimTxn, ClaimRuns
<1>6. job[j].attempts \in Nat /\ \A a \in Attempts : a \in Nat \ {0}
  BY <1>3 DEF Rows, Attempts
<1>7. CASE j \in claimed
  <2>1. job'[j] = ClaimedRow(j, at[w])
    BY <1>4, <1>7
  <2>2. /\ job'[j].status = "leased"
        /\ job'[j].attempts = job[j].attempts + 1
        /\ job'[j].token = lastToken + 1
    BY <2>1 DEF ClaimedRow
  <2>3. job[j].status \in {"pending", "retry", "leased"}
    BY <1>1, <1>7 DEF Claimable, Ready, Expired
  <2>4. ASSUME NEW a \in Attempts, a > job[j].attempts + 1
        PROVE  run'[j][a] = NoRun
    <3>1. run'[j][a] = run[j][a]
      BY <1>5, <1>6, <2>4
    <3>2. a > job[j].attempts
      BY <1>6, <2>4
    <3> QED
      BY <1>3, <3>1, <3>2 DEF History
  <2>5. ASSUME NEW a \in Attempts, a = job[j].attempts + 1
        PROVE  run'[j][a] = [token |-> lastToken + 1, outcome |-> "running"]
    BY <1>5, <1>7, <2>5
  <2>6. ASSUME NEW a \in Attempts, a < job[j].attempts
        PROVE  run'[j][a].outcome \in {"retry", "lease_expired"}
    <3>1. run'[j][a] = run[j][a]
      BY <1>5, <1>6, <2>6
    <3> QED
      BY <1>3, <2>6, <3>1 DEF History
  <2>7. ASSUME NEW a \in Attempts, a = job[j].attempts
        PROVE  run'[j][a].outcome \in {"retry", "lease_expired"}
    <3>1. CASE job[j].status = "leased"
      <4>1. run'[j][a] = ClosedRun(j, a, "lease_expired")
        BY <1>5, <1>6, <1>7, <2>7, <3>1
      <4> QED
        BY <4>1 DEF ClosedRun
    <3>2. CASE job[j].status = "retry"
      <4>1. run'[j][a] = run[j][a]
        BY <1>5, <1>6, <2>7, <3>2
      <4> QED
        BY <1>3, <2>7, <3>2, <4>1 DEF History, LastRun
    <3>3. CASE job[j].status = "pending"
      BY <1>3, <1>6, <2>7, <3>3 DEF History
    <3> QED
      BY <2>3, <3>1, <3>2, <3>3
  <2> QED
    BY <1>6, <2>2, <2>4, <2>5, <2>6, <2>7 DEF History, LastRun, Attempts
<1>8. CASE j \notin claimed /\ j \in buried
  <2>1. job'[j] = ReleasedRow(j, "dead_letter", job[j].avail)
    BY <1>4, <1>8
  <2>2. job'[j].status = "dead_letter" /\ job'[j].attempts = job[j].attempts
    BY <2>1 DEF ReleasedRow
  <2>3. job[j].status = "leased"
    BY <1>1, <1>8 DEF Exhausted, Expired
  <2>4. ASSUME NEW a \in Attempts, a # job[j].attempts
        PROVE  run'[j][a] = run[j][a]
    BY <1>5, <1>8, <2>4
  <2>5. ASSUME NEW a \in Attempts, a = job[j].attempts
        PROVE  run'[j][a].outcome = "lease_expired"
    <3>1. run'[j][a] = ClosedRun(j, a, "lease_expired")
      BY <1>5, <1>8, <2>3, <2>5
    <3> QED
      BY <3>1 DEF ClosedRun
  <2> QED
    BY <1>3, <1>6, <2>2, <2>3, <2>4, <2>5 DEF History, LastRun, Attempts
<1>9. CASE j \notin claimed /\ j \notin buried
  <2>1. job'[j] = job[j]
    BY <1>4, <1>9
  <2>2. \A a \in Attempts : run'[j][a] = run[j][a]
    BY <1>5, <1>9
  <2> QED
    BY <1>3, <2>1, <2>2 DEF History
<1> QED
  BY <1>7, <1>8, <1>9

LEMMA SettleHistory ==
  ASSUME HistoryInv, NEW c \in Claims, NEW avail,
         NEW status \in {"succeeded", "retry", "dead_letter"},
         Settle(c, status, avail)
  PROVE  /\ RunHistory'
         /\ run[c.job][c.attempt].outcome = "running"
         /\ \A j \in Jobs, a \in Attempts :
              j # c.job \/ a # c.attempt => run'[j][a] = run[j][a]
<1>1. c.job \in Jobs /\ c.attempt \in Attempts
  BY DEF Claims
<1>2. job[c.job].status = "leased" /\ job[c.job].attempts = c.attempt
  BY DEF Settle, HoldsLease
<1>3. job'[c.job] = ReleasedRow(c.job, status, avail)
      /\ \A j \in Jobs \ {c.job} : job'[j] = job[j]
  BY <1>1 DEF Settle, HistoryInv, TypedBounds, TypeOK
<1>4. /\ job'[c.job].status = status
      /\ job'[c.job].attempts = job[c.job].attempts
  BY <1>3 DEF ReleasedRow
<1>5. /\ run'[c.job][c.attempt] = ClosedRun(c.job, c.attempt, status)
      /\ \A a \in Attempts \ {c.attempt} : run'[c.job][a] = run[c.job][a]
      /\ \A j \in Jobs \ {c.job} : run'[j] = run[j]
  BY <1>1 DEF Settle, CloseRun, HistoryInv, TypedBounds, TypeOK
<1>6. run'[c.job][c.attempt].outcome = status
  BY <1>5 DEF ClosedRun
<1>7. History(c.job)
  BY <1>1, HistoryByJob DEF HistoryInv
<1>8. run[c.job][c.attempt].outcome = "running"
  BY <1>1, <1>2, <1>7 DEF History, LastRun
<1>9. ASSUME NEW j \in Jobs PROVE History(j)'
  <2>1. CASE j = c.job
    BY <1>1, <1>2, <1>4, <1>5, <1>6, <1>7, <2>1 DEF History, LastRun
  <2>2. CASE j # c.job
    BY <1>3, <1>5, <2>2, HistoryByJob, UnchangedHistory DEF HistoryInv
  <2> QED
    BY <2>1, <2>2
<1> QED
  BY <1>5, <1>8, <1>9 DEF RunHistory, History

\* A new row has no attempts, an existing row is left alone.
LEMMA EnqueueHistory ==
  ASSUME HistoryInv, NEW j \in Jobs, NEW n \in Attempts, NEW d,
         Enqueue(j, n, d)
  PROVE  RunHistory'
<1>1. /\ job'[j] = Enqueued(j, n, d)
      /\ \A i \in Jobs \ {j} : job'[i] = job[i]
      /\ \A i \in Jobs : run'[i] = run[i]
  BY DEF Enqueue, HistoryInv, TypedBounds, TypeOK
<1>2. CASE job[j].status = "absent"
  <2>1. job'[j] = NewRow(n, d)
    BY <1>1, <1>2 DEF Enqueued
  <2>2. job'[j].status = "pending" /\ job'[j].attempts = 0
    BY <2>1 DEF NewRow
  <2>3. job[j].attempts = 0 /\ \A a \in Attempts : a # 0
    BY <1>2 DEF HistoryInv, RunHistory, Attempts
  <2>4. History(j)'
    <3>1. \A a \in Attempts : run'[j][a] = run[j][a]
      BY <1>1
    <3>2. \A a \in Attempts : a > 0 /\ ~(a < 0) /\ a # 0
      BY DEF Attempts
    <3>3. \A a \in Attempts : run[j][a] = NoRun
      BY <2>3, <3>2, HistoryByJob DEF HistoryInv, History
    <3> QED
      BY <2>2, <3>1, <3>2, <3>3 DEF History
  <2> QED
    BY <1>1, <2>4, HistoryByJob, UnchangedHistory DEF HistoryInv, RunHistory, History
<1>3. CASE job[j].status # "absent"
  BY <1>1, <1>3, HistoryByJob, UnchangedHistory
     DEF Enqueued, HistoryInv, RunHistory, History
<1> QED
  BY <1>2, <1>3

LEMMA NextHistory == HistoryInv /\ [Next]_vars => HistoryInv'
<1> SUFFICES ASSUME HistoryInv, [Next]_vars PROVE HistoryInv'
  OBVIOUS
<1>0. TypedBounds'
  BY NextTyped DEF HistoryInv
<1>1. CASE UNCHANGED <<job, run>>
  BY <1>0, <1>1 DEF HistoryInv, RunHistory
<1>2. ASSUME NEW j \in Jobs, NEW n \in Attempts, NEW d \in StartDelays,
             Enqueue(j, n, d)
      PROVE  HistoryInv'
  BY <1>0, <1>2, EnqueueHistory DEF HistoryInv
<1>3. ASSUME NEW w \in Workers, ClaimTxn(w) PROVE HistoryInv'
  BY <1>0, <1>3, ClaimHistory DEF HistoryInv
<1>4. ASSUME NEW w \in Workers, Process(w) PROVE HistoryInv'
  <2>1. ASSUME NEW c \in batch[w], NEW avail,
               NEW status \in {"succeeded", "retry", "dead_letter"},
               Settle(c, status, avail)
        PROVE  RunHistory'
    <3>1. c \in Claims
      BY DEF HistoryInv, TypedBounds, TypeOK
    <3> QED
      BY <2>1, <3>1, SettleHistory
  <2>2. UNCHANGED <<job, run>> \/ RunHistory'
    BY <1>4, <2>1, ProcessSettles DEF HistoryInv
  <2> QED
    BY <1>0, <1>1, <2>2 DEF HistoryInv
<1> QED
  BY <1>1, <1>2, <1>3, <1>4
     DEF Next, vars, Tick, Claim, Start, ClaimDeadlock, Stop

LEMMA HistoryAlways == Spec => []HistoryInv
<1>1. Init => HistoryInv
  BY InitTyped, InitHistory DEF HistoryInv
<1> QED
  BY <1>1, NextHistory, PTL DEF Spec

\* job_run always tells what happened to its job: one run per attempt used, the
\* earlier ones closed without success, the last one agreeing with the row.
THEOREM RunHistoryHolds == Spec => []RunHistory
<1>1. HistoryInv => RunHistory
  BY DEF HistoryInv
<1> QED
  BY <1>1, HistoryAlways, PTL

\* No step rewrites a run that was closed: the claim closes a run only with the
\* lease of a row that says leased, and a holder only the run it opened.
THEOREM ClosedRunsStayClosed == Spec => ClosedRunsImmutable
<1>1. ASSUME HistoryInv, [Next]_vars, NEW j \in Jobs, NEW a \in Attempts,
             run[j][a].outcome \notin {"none", "running"}
      PROVE  run'[j][a] = run[j][a]
  <2>1. CASE UNCHANGED run
    BY <2>1
  <2>2. ASSUME NEW w \in Workers, ClaimTxn(w) PROVE run'[j][a] = run[j][a]
    <3> DEFINE claimed == FirstDue(Claimable(at[w]))
               buried == FirstDue(Exhausted(at[w]))
    <3>1. run'[j][a] =
            IF j \in claimed /\ a = job[j].attempts + 1
            THEN [token |-> lastToken + 1, outcome |-> "running"]
            ELSE IF /\ j \in claimed \cup buried
                    /\ a = job[j].attempts
                    /\ job[j].status = "leased"
                 THEN ClosedRun(j, a, "lease_expired")
                 ELSE run[j][a]
      BY <2>2 DEF ClaimTxn, ClaimRuns
    <3>2. History(j) /\ job[j].attempts \in Nat /\ a \in Nat
      BY <1>1, HistoryByJob DEF HistoryInv, TypedBounds, TypeOK, Rows, Attempts
    <3>3. a # job[j].attempts + 1
      <4>1. run[j][a] # NoRun
        BY <1>1 DEF NoRun
      <4>2. ~(a > job[j].attempts)
        BY <3>2, <4>1 DEF History
      <4> QED
        BY <3>2, <4>2
    <3>4. a = job[j].attempts => job[j].status # "leased"
      <4>1. SUFFICES ASSUME a = job[j].attempts, job[j].status = "leased"
                     PROVE  run[j][a].outcome = "running"
        BY <1>1
      <4> QED
        BY <3>2, <4>1 DEF History, LastRun
    <3> QED
      BY <3>1, <3>3, <3>4
  <2>3. ASSUME NEW w \in Workers, Process(w) PROVE run'[j][a] = run[j][a]
    <3>1. ASSUME NEW c \in batch[w], NEW avail,
                 NEW status \in {"succeeded", "retry", "dead_letter"},
                 Settle(c, status, avail)
          PROVE  run'[j][a] = run[j][a]
      <4>1. c \in Claims
        BY <1>1 DEF HistoryInv, TypedBounds, TypeOK
      <4> QED
        BY <1>1, <3>1, <4>1, SettleHistory
    <3>2. UNCHANGED run \/ run'[j][a] = run[j][a]
      BY <1>1, <2>3, <3>1, ProcessSettles DEF HistoryInv
    <3> QED
      BY <3>2
  <2> QED
    BY <1>1, <2>1, <2>2, <2>3
       DEF Next, vars, Tick, Enqueue, Claim, Start, ClaimDeadlock, Stop
<1>2. HistoryInv /\ [Next]_vars =>
        [\A j \in Jobs, a \in Attempts :
           run[j][a].outcome \notin {"none", "running"} =>
             run'[j][a] = run[j][a]]_vars
  BY <1>1
<1> QED
  BY <1>2, HistoryAlways, PTL DEF Spec, ClosedRunsImmutable

-----------------------------------------------------------------------------
(* The effect of a job.                                                    *)

\* A claim transaction touches no row that is settled or was never enqueued.
LEMMA ClaimRows ==
  ASSUME TypedBounds, NEW w \in Workers, ClaimTxn(w), NEW j \in Jobs
  PROVE  \/ job'[j] = job[j]
         \/ /\ job[j].status \in {"pending", "retry", "leased"}
            /\ job[j].attempts < job[j].max
            /\ job'[j].status = "leased"
            /\ job'[j].attempts = job[j].attempts + 1
            /\ job'[j].max = job[j].max
            /\ job'[j].token = lastToken + 1
         \/ /\ job[j].status = "leased"
            /\ job[j].attempts = job[j].max
            /\ job'[j].status = "dead_letter"
            /\ job'[j].attempts = job[j].attempts
            /\ job'[j].max = job[j].max
            /\ job'[j].token = 0
<1> DEFINE claimed == FirstDue(Claimable(at[w]))
           buried == FirstDue(Exhausted(at[w]))
<1>1. claimed \subseteq Claimable(at[w]) /\ buried \subseteq Exhausted(at[w])
  BY FirstDueSubset
<1>2. job'[j] = IF j \in claimed THEN ClaimedRow(j, at[w])
                ELSE IF j \in buried
                     THEN ReleasedRow(j, "dead_letter", job[j].avail)
                     ELSE job[j]
  BY DEF ClaimTxn
<1>3. job[j].attempts \in Nat /\ job[j].max \in Nat /\ job[j].attempts <= job[j].max
  BY DEF TypedBounds, TypeOK, AttemptBounds, Rows
<1>4. CASE j \in claimed
  BY <1>1, <1>2, <1>4 DEF ClaimedRow, Claimable, Ready, Expired
<1>5. CASE j \notin claimed /\ j \in buried
  BY <1>1, <1>2, <1>3, <1>5 DEF ReleasedRow, Exhausted, Expired
<1>6. CASE j \notin claimed /\ j \notin buried
  BY <1>2, <1>6
<1> QED
  BY <1>4, <1>5, <1>6

LEMMA SettleRows ==
  ASSUME TypedBounds, NEW c \in Claims, NEW avail, NEW status,
         Settle(c, status, avail)
  PROVE  /\ c.job \in Jobs
         /\ job[c.job].status = "leased"
         /\ job[c.job].token = c.token
         /\ job[c.job].attempts = c.attempt
         /\ job'[c.job].status = status
         /\ job'[c.job].attempts = job[c.job].attempts
         /\ job'[c.job].max = job[c.job].max
         /\ job'[c.job].token = 0
         /\ \A j \in Jobs \ {c.job} : job'[j] = job[j]
<1>1. c.job \in Jobs
  BY DEF Claims
<1>2. /\ job'[c.job] = ReleasedRow(c.job, status, avail)
      /\ \A j \in Jobs \ {c.job} : job'[j] = job[j]
  BY <1>1 DEF Settle, TypedBounds, TypeOK
<1> QED
  BY <1>1, <1>2 DEF Settle, HoldsLease, ReleasedRow

LEMMA EnqueueRows ==
  ASSUME TypedBounds, NEW j \in Jobs, NEW n \in Attempts, NEW d,
         Enqueue(j, n, d)
  PROVE  \/ job' = job
         \/ /\ job[j].status = "absent" /\ job'[j].status = "pending"
            /\ job'[j].max = n /\ job'[j].attempts = 0 /\ job'[j].token = 0
            /\ \A i \in Jobs \ {j} : job'[i] = job[i]
<1>1. CASE job[j].status = "absent"
  BY <1>1 DEF Enqueue, Enqueued, NewRow, TypedBounds, TypeOK
<1>2. CASE job[j].status # "absent"
  BY <1>2 DEF Enqueue, Enqueued, TypedBounds, TypeOK
<1> QED
  BY <1>1, <1>2

LEMMA NextEffect == TypedBounds /\ EffectOnce /\ [Next]_vars => EffectOnce'
<1> SUFFICES ASSUME TypedBounds, EffectOnce, [Next]_vars PROVE EffectOnce'
  OBVIOUS
<1>1. CASE UNCHANGED <<job, effects>>
  BY <1>1 DEF EffectOnce
<1>2. ASSUME NEW j \in Jobs, NEW n \in Attempts, NEW d \in StartDelays,
             Enqueue(j, n, d)
      PROVE  EffectOnce'
  <2>1. UNCHANGED effects
    BY <1>2 DEF Enqueue
  <2> QED
    BY <1>2, <2>1, EnqueueRows DEF EffectOnce
<1>3. ASSUME NEW w \in Workers, ClaimTxn(w) PROVE EffectOnce'
  <2>1. UNCHANGED effects
    BY <1>3 DEF ClaimTxn
  <2> QED
    BY <1>3, <2>1, ClaimRows DEF EffectOnce
<1>4. ASSUME NEW w \in Workers, Process(w) PROVE EffectOnce'
  <2>0. batch[w] \subseteq Claims
    BY DEF TypedBounds, TypeOK
  <2>1. ASSUME NEW c \in batch[w], NEW avail, Settle(c, "succeeded", avail),
               effects' = [effects EXCEPT ![c.job] = @ + 1]
        PROVE  EffectOnce'
    <3>1. effects[c.job] = 0
      BY <2>0, <2>1, SettleRows DEF EffectOnce
    <3>2. effects'[c.job] = 1 /\ \A j \in Jobs \ {c.job} : effects'[j] = effects[j]
      BY <2>0, <2>1, <3>1, SettleRows DEF TypedBounds, TypeOK
    <3> QED
      BY <2>0, <2>1, <3>2, SettleRows DEF EffectOnce
  <2>2. ASSUME NEW c \in batch[w], NEW avail, UNCHANGED effects,
               NEW status \in {"retry", "dead_letter"}, Settle(c, status, avail)
        PROVE  EffectOnce'
    BY <2>0, <2>2, SettleRows DEF EffectOnce
  <2> QED
    BY <1>1, <1>4, <2>1, <2>2, ProcessSettles
<1> QED
  BY <1>1, <1>2, <1>3, <1>4
     DEF Next, vars, Tick, Claim, Start, ClaimDeadlock, Stop

\* A handler's writes are committed once for a job that succeeded and never for
\* any other job, whoever ran it and whatever the dispatchers were told.
THEOREM EffectOnceHolds == Spec => []EffectOnce
<1>1. Init => EffectOnce
  BY DEF Init, EffectOnce, NoRow
<1> QED
  BY <1>1, NextEffect, TypedAlways, PTL DEF Spec

\* Every state of the engine accounts for every attempt it made: the tables are
\* well typed, the history agrees with the rows, and effects with successes.
THEOREM AttemptsAccountedHolds == Spec => []AttemptsAccounted
<1>1. TypeOK /\ RunHistory /\ EffectOnce => AttemptsAccounted
  BY DEF AttemptsAccounted
<1> QED
  BY <1>1, TypeCorrect, RunHistoryHolds, EffectOnceHolds, PTL

-----------------------------------------------------------------------------
(* The lease.                                                              *)

\* No dispatcher works with a clock reading that is still to come.
ClockRead == \A w \in Workers : at[w] <= now

LEMMA NextClock == TypedBounds /\ ClockRead /\ [Next]_vars => ClockRead'
<1> SUFFICES ASSUME TypedBounds, ClockRead, [Next]_vars PROVE ClockRead'
  OBVIOUS
<1>0. now \in Nat /\ at \in [Workers -> 0..Horizon]
  BY DEF TypedBounds, TypeOK
<1>1. CASE UNCHANGED <<now, at>>
  BY <1>1 DEF ClockRead
<1>2. CASE Tick
  <2>1. \A w \in Workers : at[w] \in Nat /\ at[w] <= now
    BY <1>0 DEF ClockRead
  <2> QED
    BY <1>0, <1>2, <2>1 DEF Tick, ClockRead
<1>3. ASSUME NEW w \in Workers, now' = now,
             \E t \in {0, now} : at' = [at EXCEPT ![w] = t]
      PROVE  ClockRead'
  BY <1>0, <1>3 DEF ClockRead
<1>4. ASSUME NEW w \in Workers, Claim(w) \/ Stop(w) PROVE ClockRead'
  BY <1>3, <1>4 DEF Claim, Start, ClaimTxn, ClaimDeadlock, Stop
<1>5. ASSUME NEW w \in Workers, Process(w) PROVE ClockRead'
  BY <1>1, <1>5, ProcessSettles
<1> QED
  BY <1>1, <1>2, <1>4, <1>5 DEF Next, vars, Enqueue

\* A claim transaction takes or buries no row whose lease is still running,
\* however long ago its dispatcher read the clock.
LEMMA ClaimSparesLeases ==
  ASSUME TypedBounds, ClockRead, NEW w \in Workers, ClaimTxn(w),
         NEW j \in Jobs, job[j].status = "leased", job[j].expires > now
  PROVE  job'[j] = job[j]
<1>1. FirstDue(Claimable(at[w])) \subseteq Claimable(at[w])
  BY FirstDueSubset
<1>2. FirstDue(Exhausted(at[w])) \subseteq Exhausted(at[w])
  BY FirstDueSubset
<1>3. now \in Nat /\ at[w] \in Nat /\ job[j].expires \in Nat
  BY DEF TypedBounds, TypeOK, Rows
<1>4. at[w] <= now
  BY DEF ClockRead
<1>5. ~(job[j].expires <= at[w])
  BY <1>3, <1>4
<1>6. j \notin Claimable(at[w]) /\ j \notin Exhausted(at[w])
  BY <1>5 DEF Claimable, Exhausted, Expired, Ready
<1> QED
  BY <1>1, <1>2, <1>6 DEF ClaimTxn

\* A step of a running dispatcher changes only a row whose lease it holds.
LEMMA ProcessHolds ==
  ASSUME TypedBounds, NEW w \in Workers, Process(w), NEW j \in Jobs,
         job'[j] # job[j]
  PROVE  HolderSteps(j, w)
<1>0. batch[w] \subseteq Claims /\ job \in [Jobs -> Rows]
      /\ batch \in [Workers -> SUBSET Claims]
      /\ pc \in [Workers -> {"idle", "claiming", "running", "failing"}]
  BY DEF TypedBounds, TypeOK
<1>1. ASSUME NEW c \in batch[w], HoldsLease(c), NEW status, status # "leased",
             NEW avail, job' = [job EXCEPT ![c.job] = ReleasedRow(c.job, status, avail)],
             batch'[w] # batch[w] \/ pc'[w] # pc[w]
      PROVE  HolderSteps(j, w)
  <2>1. c.job = j
    BY <1>0, <1>1
  <2>2. job'[j] = ReleasedRow(c.job, status, avail)
    BY <1>0, <1>1, <2>1
  <2>3. job'[j].status # "leased"
    BY <1>1, <2>2 DEF ReleasedRow
  <2> QED
    BY <1>1, <2>1, <2>3 DEF HolderSteps, HoldsLease
<1>2. ASSUME NEW c \in batch[w], Drop(w, c) PROVE batch'[w] # batch[w]
  BY <1>0, <1>2 DEF Drop
<1>3. ASSUME NEW c \in batch[w], Succeed(c), batch'[w] # batch[w] \/ pc'[w] # pc[w]
      PROVE  HolderSteps(j, w)
  <2>1. job' = [job EXCEPT ![c.job] =
                  ReleasedRow(c.job, "succeeded", job[c.job].avail)]
    BY <1>0, <1>3 DEF Succeed
  <2> QED
    BY <1>1, <1>3, <2>1 DEF Succeed
<1>4. CASE RunJob(w)
  <2>1. PICK c \in batch[w] :
          Drop(w, c) /\ (Succeed(c) \/ UNCHANGED <<job, run, effects>>)
    BY <1>4 DEF RunJob
  <2> QED
    BY <1>2, <1>3, <2>1
<1>5. CASE RunCommitLost(w)
  <2>1. pc'[w] # pc[w]
    BY <1>0, <1>5 DEF RunCommitLost
  <2> QED
    BY <1>3, <1>5, <2>1 DEF RunCommitLost
<1>6. CASE RunFails(w)
  BY <1>6 DEF RunFails
<1>7. CASE RecordFailure(w)
  <2>1. PICK c \in batch[w] :
          /\ Drop(w, c)
          /\ \/ /\ HoldsLease(c)
                /\ job' = [job EXCEPT ![c.job] =
                             ReleasedRow(c.job, FailureStatus(c),
                                         Later(now, FailureDelay(c)))]
             \/ UNCHANGED <<job, run>>
    BY <1>7 DEF RecordFailure
  <2>2. FailureStatus(c) # "leased"
    BY DEF FailureStatus
  <2> QED
    BY <1>1, <1>2, <2>1, <2>2
<1> QED
  BY <1>4, <1>5, <1>6, <1>7 DEF Process

\* Until a lease expires, no step of any other dispatcher, however stale its
\* clock or its claims, changes the row that the lease protects.
THEOREM LeaseRespectedHolds == Spec => LeaseRespected
<1>1. ASSUME TypedBounds, ClockRead, [Next]_vars, NEW j \in Jobs,
             job[j].status = "leased", job[j].expires > now
      PROVE  job'[j] = job[j] \/ \E w \in Workers : HolderSteps(j, w)
  <2>1. CASE UNCHANGED job
    BY <2>1
  <2>2. ASSUME NEW i \in Jobs, NEW n \in Attempts, NEW d, Enqueue(i, n, d)
        PROVE  job'[j] = job[j]
    <3>1. \/ job' = job
          \/ job[i].status = "absent" /\ \A k \in Jobs \ {i} : job'[k] = job[k]
      BY <2>2, <1>1, EnqueueRows
    <3> QED
      BY <1>1, <3>1
  <2>3. ASSUME NEW w \in Workers, ClaimTxn(w) PROVE job'[j] = job[j]
    BY <1>1, <2>3, ClaimSparesLeases
  <2>4. ASSUME NEW w \in Workers, Process(w)
        PROVE  job'[j] = job[j] \/ HolderSteps(j, w)
    BY <1>1, <2>4, ProcessHolds
  <2> QED
    BY <1>1, <2>1, <2>2, <2>3, <2>4
       DEF Next, vars, Tick, Claim, Start, ClaimDeadlock, Stop
<1>2. TypedBounds /\ ClockRead /\ [Next]_vars =>
        [\A j \in Jobs :
           job[j].status = "leased" /\ job[j].expires > now =>
             job'[j] = job[j] \/ \E w \in Workers : HolderSteps(j, w)]_vars
  BY <1>1
<1>3. Init => ClockRead
  BY DEF Init, ClockRead
<1> QED
  BY <1>2, <1>3, NextClock, TypedAlways, PTL DEF Spec, LeaseRespected

-----------------------------------------------------------------------------
(* The engine implements the contract of the job table.                    *)

LEMMA InitRefines == Init => Contract!CInit
  BY DEF Init, Contract!CInit, Phase, NoRow

LEMMA NextRefines ==
  ASSUME HistoryInv, EffectOnce, [Next]_vars
  PROVE  [Contract!CNext]_(Contract!cvars)
<1> USE DEF HistoryInv
<1>1. CASE UNCHANGED <<job, effects>>
  BY <1>1 DEF Contract!cvars
<1>2. ASSUME NEW j \in Jobs, NEW n \in Attempts, NEW d \in StartDelays,
             Enqueue(j, n, d)
      PROVE  [Contract!CNext]_(Contract!cvars)
  <2>1. UNCHANGED effects
    BY <1>2 DEF Enqueue
  <2>2. CASE job' = job
    BY <1>1, <2>1, <2>2
  <2>3. CASE /\ job[j].status = "absent" /\ job'[j].status = "pending"
             /\ job'[j].max = n /\ job'[j].attempts = 0
             /\ \A i \in Jobs \ {j} : job'[i] = job[i]
    <3>1. job[j].attempts = 0
      BY <2>3 DEF RunHistory
    <3>2. Contract!Submit(j)
      BY <2>1, <2>3, <3>1 DEF Contract!Submit, Phase, Attempts
    <3> QED
      BY <3>2 DEF Contract!CNext
  <2> QED
    BY <1>2, <2>2, <2>3, EnqueueRows
<1>3. ASSUME NEW w \in Workers, ClaimTxn(w)
      PROVE  [Contract!CNext]_(Contract!cvars)
  <2> DEFINE S == {j \in Jobs : /\ job[j].status \in {"pending", "retry", "leased"}
                                /\ job'[j].status = "leased"
                                /\ job'[j].attempts = job[j].attempts + 1
                                /\ job[j].attempts < job[j].max
                                /\ job'[j].max = job[j].max}
             D == {j \in Jobs : /\ job[j].status = "leased"
                                /\ job'[j].status = "dead_letter"
                                /\ job[j].attempts = job[j].max
                                /\ job'[j].attempts = job[j].attempts
                                /\ job'[j].max = job[j].max}
  <2>1. \A j \in Jobs : job[j].attempts \in Nat
    BY DEF TypedBounds, TypeOK, Rows
  <2>2. \A j \in Jobs : j \in S \/ j \in D \/ job'[j] = job[j]
    BY <1>3, ClaimRows
  <2>3. \A j \in S : Phase(job[j].status) = "open" /\ Phase(job'[j].status) = "open"
    BY DEF Phase
  <2>4. \A j \in D : Phase(job[j].status) = "open" /\ Phase(job'[j].status) = "buried"
    BY DEF Phase
  <2>5. \A j \in Jobs : job[j].attempts + 1 # job[j].attempts
    BY <2>1
  <2>6. UNCHANGED effects
    BY <1>3 DEF ClaimTxn
  <2>7. [j \in Jobs |-> job[j].attempts]' =
          [j \in Jobs |-> IF j \in S THEN job[j].attempts + 1 ELSE job[j].attempts]
    BY <2>2, <2>5
  <2>8. [j \in Jobs |-> Phase(job[j].status)]' =
          [j \in Jobs |-> IF j \in D THEN "buried" ELSE Phase(job[j].status)]
    BY <2>2, <2>3, <2>4
  <2>9. [j \in Jobs |-> job[j].max]' = [j \in Jobs |-> job[j].max]
    BY <2>2
  <2>10. Contract!Dispatch(S, D)
    BY <2>3, <2>4, <2>6, <2>7, <2>8, <2>9 DEF Contract!Dispatch
  <2>11. S \in SUBSET Jobs /\ D \in SUBSET Jobs
    OBVIOUS
  <2> HIDE DEF S, D
  <2>12. \E S2, D2 \in SUBSET Jobs : Contract!Dispatch(S2, D2)
    BY <2>10, <2>11 DEF Contract!Dispatch
  <2> QED
    BY <2>12 DEF Contract!CNext
<1>4. ASSUME NEW w \in Workers, Process(w)
      PROVE  [Contract!CNext]_(Contract!cvars)
  <2>0. batch[w] \subseteq Claims
    BY DEF TypedBounds, TypeOK
  <2>1. ASSUME NEW c \in batch[w], NEW avail, NEW status, Settle(c, status, avail)
        PROVE  /\ c.job \in Jobs /\ job[c.job].status = "leased"
               /\ job[c.job].attempts = c.attempt
               /\ job[c.job].attempts > 0 /\ job[c.job].attempts <= job[c.job].max
               /\ \A j \in Jobs : /\ job'[j].max = job[j].max
                                  /\ job'[j].attempts = job[j].attempts
                                  /\ j # c.job => job'[j].status = job[j].status
               /\ job'[c.job].status = status
    <3>1. c \in Claims
      BY <2>0
    <3>2. /\ c.job \in Jobs /\ job[c.job].status = "leased"
          /\ job[c.job].attempts = c.attempt
      BY <2>1, <3>1, SettleRows
    <3>3. job[c.job].attempts >= 1 /\ job[c.job].attempts <= job[c.job].max
      BY <3>2 DEF TypedBounds, AttemptBounds
    <3>4. job[c.job].attempts \in Nat
      <4>1. job[c.job] \in Rows
        BY <3>2 DEF TypedBounds, TypeOK
      <4> QED
        BY <4>1 DEF Rows
    <3> QED
      BY <2>1, <3>1, <3>2, <3>3, <3>4, SettleRows
  <2>2. ASSUME NEW c \in batch[w], NEW avail, Settle(c, "succeeded", avail),
               effects' = [effects EXCEPT ![c.job] = @ + 1]
        PROVE  Contract!Finish(c.job) /\ c.job \in Jobs
    <3>1. [j \in Jobs |-> Phase(job[j].status)]' =
            [[j \in Jobs |-> Phase(job[j].status)] EXCEPT ![c.job] = "done"]
      <4>1. /\ c.job \in Jobs /\ Phase(job'[c.job].status) = "done"
            /\ \A j \in Jobs : j # c.job => job'[j].status = job[j].status
        BY <2>1, <2>2 DEF Phase
      <4>2. \A j \in Jobs : Phase(job'[j].status) =
                              IF j = c.job THEN "done" ELSE Phase(job[j].status)
        BY <4>1
      <4> QED
        BY <4>1, <4>2
    <3> QED
      BY <2>1, <2>2, <3>1 DEF Contract!Finish, Phase
  <2>3. ASSUME NEW c \in batch[w], NEW avail, Settle(c, "dead_letter", avail),
               UNCHANGED effects, c.attempt >= job[c.job].max
        PROVE  Contract!Bury(c.job) /\ c.job \in Jobs
    <3>1. [j \in Jobs |-> Phase(job[j].status)]' =
            [[j \in Jobs |-> Phase(job[j].status)] EXCEPT ![c.job] = "buried"]
      <4>1. /\ c.job \in Jobs /\ Phase(job'[c.job].status) = "buried"
            /\ \A j \in Jobs : j # c.job => job'[j].status = job[j].status
        BY <2>1, <2>3 DEF Phase
      <4>2. \A j \in Jobs : Phase(job'[j].status) =
                              IF j = c.job THEN "buried" ELSE Phase(job[j].status)
        BY <4>1
      <4> QED
        BY <4>1, <4>2
    <3>2. job[c.job].attempts = job[c.job].max
      <4>1. job[c.job] \in Rows
        BY <2>1, <2>3 DEF TypedBounds, TypeOK
      <4>2. job[c.job].attempts \in Nat /\ job[c.job].max \in Nat
        BY <4>1 DEF Rows
      <4> QED
        BY <2>1, <2>3, <4>2
    <3> QED
      BY <2>1, <2>3, <3>1, <3>2 DEF Contract!Bury, Phase
  <2>4. ASSUME NEW c \in batch[w], NEW avail, Settle(c, "retry", avail),
               UNCHANGED effects
        PROVE  UNCHANGED Contract!cvars
    <3>1. \A j \in Jobs : Phase(job'[j].status) = Phase(job[j].status)
      BY <2>1, <2>4 DEF Phase
    <3> QED
      BY <2>1, <2>4, <3>1 DEF Contract!cvars
  <2> QED
    BY <1>1, <1>4, <2>2, <2>3, <2>4, ProcessSettles DEF Contract!CNext
<1> QED
  BY <1>1, <1>2, <1>3, <1>4
     DEF Next, vars, Tick, Claim, Start, ClaimDeadlock, Stop

\* Whatever the dispatchers, clocks and leases do, an observer of the job table
\* sees only submissions, attempts, one effect per finished job, and burials of
\* jobs whose attempts are all used.
THEOREM EngineImplementsContract == Spec => ImplementsContract
<1>1. HistoryInv /\ EffectOnce /\ [Next]_vars => [Contract!CNext]_(Contract!cvars)
  BY NextRefines
<1> QED
  BY <1>1, InitRefines, HistoryAlways, EffectOnceHolds, PTL
     DEF Spec, ImplementsContract, Contract!CSpec

-----------------------------------------------------------------------------
(* The cron endpoint.                                                      *)

USE IntervalAssumption, NobodyAssumption

\* What the gate's row remembers: it is never behind a permit that was used,
\* and a call is given a permit only while it asks for one.
GateRemembers ==
  /\ \A c \in Calls : Used(c) => gate # Missing /\ readAt[c] <= gate.last
  /\ \A c \in Calls : doing[c] \in {"idle", "asking", "inserting"} => ~Used(c)

IInv == CronTypeOK /\ GateRemembers /\ PermitsSpaced

LEMMA ActiveGate == \A t : Active(t) # Missing /\ Active(t).last = t
  BY DEF Active, Missing

LEMMA InitInv == CronInit => IInv
  BY DEF CronInit, IInv, CronTypeOK, GateRemembers, PermitsSpaced, Used, Dispatching, Running

-----------------------------------------------------------------------------
(* Steps that leave the gate alone.                                        *)

\* A step after the permit keeps what the gate's properties speak of.
LEMMA AskedKept ==
  ASSUME GateRemembers, PermitsSpaced, asked' = asked,
         \A c \in Calls : doing'[c] \in {"idle", "asking", "inserting"} => doing[c] = doing'[c]
  PROVE  GateRemembers' /\ PermitsSpaced'
  BY DEF GateRemembers, PermitsSpaced, Used, asked

LEMMA DispatchStep ==
  ASSUME IInv, NEW c \in Calls,
         Dispatch(c) \/ Deadline(c) \/ LoseConnection(c) \/ ServerFrees(c) \/ Crash(c)
  PROVE  IInv'
<1> USE DEF IInv, CronTypeOK, asked, Dispatching, Running, Goto, Answer
<1>1. CASE ConnectFails(c)
  <2>1. CronTypeOK'
    BY <1>1 DEF ConnectFails
  <2> QED
    BY <2>1, <1>1, AskedKept DEF ConnectFails
<1>2. CASE Connect(c)
  <2>1. CronTypeOK'
    BY <1>2 DEF Connect
  <2> QED
    BY <2>1, <1>2, AskedKept DEF Connect
<1>3. CASE LockBusy(c)
  <2>1. CronTypeOK'
    BY <1>3 DEF LockBusy
  <2> QED
    BY <2>1, <1>3, AskedKept DEF LockBusy
<1>4. CASE GetLock(c)
  <2>1. CronTypeOK'
    BY <1>4 DEF GetLock, Stages
  <2> QED
    BY <2>1, <1>4, AskedKept DEF GetLock
<1>5. CASE LockFails(c)
  <2>1. CronTypeOK'
    BY <1>5 DEF LockFails, DestroyConnection
  <2> QED
    BY <2>1, <1>5, AskedKept DEF LockFails
<1>6. CASE StageEnds(c)
  <2>1. NextStage(c) \in Running \cup {"releasing"}
    BY DEF NextStage, AfterJobs
  <2>2. CronTypeOK'
    BY <1>6, <2>1 DEF StageEnds, Stages
  <2> QED
    BY <2>1, <2>2, <1>6, AskedKept DEF StageEnds
<1>7. CASE StageFails(c)
  <2>1. CronTypeOK'
    BY <1>7 DEF StageFails, AfterError
  <2> QED
    BY <2>1, <1>7, AskedKept DEF StageFails, AfterError
<1>8. CASE Release(c)
  <2>1. CronTypeOK'
    BY <1>8 DEF Release
  <2> QED
    BY <2>1, <1>8, AskedKept DEF Release
<1>9. CASE ReleaseFails(c)
  <2>1. CronTypeOK'
    BY <1>9 DEF ReleaseFails, DestroyConnection
  <2> QED
    BY <2>1, <1>9, AskedKept DEF ReleaseFails
<1>10. CASE Deadline(c)
  <2>1. CronTypeOK'
    BY <1>10 DEF Deadline
  <2> QED
    BY <2>1, <1>10, AskedKept DEF Deadline
<1>11. CASE LoseConnection(c)
  <2>1. CronTypeOK'
    BY <1>11 DEF LoseConnection
  <2> QED
    BY <2>1, <1>11, AskedKept DEF LoseConnection
<1>12. CASE ServerFrees(c)
  <2>1. CronTypeOK'
    BY <1>12 DEF ServerFrees
  <2> QED
    BY <2>1, <1>12, AskedKept DEF ServerFrees
<1>13. CASE Crash(c)
  <2>1. CronTypeOK'
    BY <1>13 DEF Crash
  <2> QED
    BY <2>1, <1>13, AskedKept DEF Crash
<1> QED
  BY <1>1, <1>2, <1>3, <1>4, <1>5, <1>6, <1>7, <1>8, <1>9, <1>10, <1>11,
     <1>12, <1>13 DEF Dispatch

-----------------------------------------------------------------------------
(* Steps at the gate.                                                      *)

\* A call that ends without a permit leaves every used permit as it was.
LEMMA RefusedKept ==
  ASSUME IInv, NEW c \in Calls, doing[c] \in {"asking", "inserting"},
         NEW r \in {"ahead", "suppressed", "failed"}, NEW s \in {202, 503},
         Decide(c, r, "done", s), gate' = gate
  PROVE  IInv'
<1> USE DEF IInv, Decide, Goto, Answer
<1>1. CronTypeOK'
  BY DEF CronTypeOK, Dispatching, Running
<1>2. \A d \in Calls : Used(d)' <=> Used(d)
  BY DEF CronTypeOK, Used, GateRemembers
<1>3. GateRemembers'
  BY <1>2 DEF GateRemembers, CronTypeOK
<1>4. PermitsSpaced'
  BY <1>2 DEF PermitsSpaced
<1> QED
  BY <1>1, <1>3, <1>4

\* A permit is given only when no other was, or the interval has passed since
\* the last; it becomes the last.
LEMMA AdvanceKept ==
  ASSUME IInv, NEW c \in Calls, doing[c] \in {"asking", "inserting"},
         gate # Missing => readAt[c] >= gate.last + Interval,
         Advance(c)
  PROVE  IInv'
<1>1. /\ readAt[c] \in 0..instant /\ instant \in Nat
      /\ gate' = Active(readAt[c]) /\ gate' # Missing /\ gate'.last = readAt[c]
  BY ActiveGate DEF IInv, CronTypeOK, Advance
<1>2. /\ readAt' = readAt /\ instant' = instant
      /\ gateResult' \in {[gateResult EXCEPT ![c] = "permit"],
                          [gateResult EXCEPT ![c] = "unknown"]}
      /\ doing' \in {[doing EXCEPT ![c] = "connecting"], [doing EXCEPT ![c] = "done"]}
  BY DEF Advance, Decide, Goto
<1>3. CronTypeOK'
  <2>1. gate' \in {Active(t) : t \in 0..instant}
    BY <1>1
  <2> QED
    BY <2>1, <1>1, <1>2
       DEF IInv, CronTypeOK, Advance, Decide, Answer, Dispatching, Running
<1>4. \A d \in Calls \ {c} : Used(d)' <=> Used(d)
  BY <1>2 DEF Used, IInv, CronTypeOK
<1>5. \A d \in Calls : readAt[d] \in 0..instant
  BY DEF IInv, CronTypeOK
<1>6. \A d \in Calls : Used(d) =>
        gate # Missing /\ gate.last \in 0..instant /\ readAt[d] <= gate.last
  <2>1. gate # Missing => gate.last \in 0..instant
    BY ActiveGate DEF IInv, CronTypeOK
  <2> QED
    BY <2>1 DEF IInv, GateRemembers
<1>7. \A d \in Calls : Used(d) => readAt[d] + Interval <= readAt[c]
  BY <1>1, <1>5, <1>6
<1>8. GateRemembers'
  <2>1. \A d \in Calls : Used(d)' => readAt'[d] <= gate'.last
    BY <1>1, <1>2, <1>4, <1>5, <1>7
  <2>2. \A d \in Calls :
          doing'[d] \in {"idle", "asking", "inserting"} => d # c /\ doing[d] = doing'[d]
    BY <1>2 DEF IInv, CronTypeOK
  <2>3. \A d \in Calls : doing'[d] \in {"idle", "asking", "inserting"} => ~Used(d)'
    BY <2>2, <1>4 DEF IInv, GateRemembers
  <2> QED
    BY <1>1, <2>1, <2>3 DEF GateRemembers
<1>9. PermitsSpaced'
  <2> SUFFICES ASSUME NEW x \in Calls, NEW y \in Calls, x # y, Used(x)', Used(y)'
               PROVE  readAt'[y] >= readAt'[x] + Interval \/ readAt'[x] >= readAt'[y] + Interval
    BY DEF PermitsSpaced
  <2>1. CASE x = c
    BY <2>1, <1>2, <1>4, <1>7
  <2>2. CASE y = c
    BY <2>2, <1>2, <1>4, <1>7
  <2>3. CASE x # c /\ y # c
    BY <2>3, <1>2, <1>4 DEF IInv, PermitsSpaced
  <2> QED
    BY <2>1, <2>2, <2>3
<1> QED
  BY <1>3, <1>8, <1>9 DEF IInv

LEMMA AskStep ==
  ASSUME IInv, NEW c \in Calls, Ask(c)
  PROVE  IInv'
<1>1. CASE SeeNoRow(c)
  <2>1. CronTypeOK'
    BY <1>1 DEF SeeNoRow, Goto, IInv, CronTypeOK, Dispatching, Running
  <2>2. \A d \in Calls : doing'[d] = doing[d] \/ doing[d] = "asking"
    BY <1>1 DEF SeeNoRow, Goto, IInv, CronTypeOK
  <2>3. GateRemembers' /\ PermitsSpaced'
    BY <1>1, <2>2 DEF SeeNoRow, IInv, GateRemembers, PermitsSpaced, Used
  <2> QED
    BY <2>1, <2>3 DEF IInv
<1>2. CASE GateAhead(c)
  BY <1>2, RefusedKept DEF GateAhead
<1>3. CASE Suppress(c)
  BY <1>3, RefusedKept DEF Suppress
<1>4. CASE Update(c)
  <2>1. gate.last \in Nat /\ readAt[c] \in Nat
    BY <1>4, ActiveGate DEF Update, IInv, CronTypeOK
  <2>2. readAt[c] >= gate.last + Interval
    BY <1>4, <2>1 DEF Update, TooSoon
  <2> QED
    BY <1>4, <2>2, AdvanceKept DEF Update
<1>5. CASE Insert(c)
  BY <1>5, AdvanceKept DEF Insert
<1>6. CASE Duplicate(c)
  <2>1. CronTypeOK'
    BY <1>6 DEF Duplicate, Goto, IInv, CronTypeOK, Dispatching, Running
  <2>2. \A d \in Calls : doing'[d] = doing[d] \/ doing[d] = "inserting"
    BY <1>6 DEF Duplicate, Goto, IInv, CronTypeOK
  <2>3. GateRemembers' /\ PermitsSpaced'
    BY <1>6, <2>2 DEF Duplicate, IInv, GateRemembers, PermitsSpaced, Used
  <2> QED
    BY <2>1, <2>3 DEF IInv
<1>7. CASE GateFails(c)
  BY <1>7, RefusedKept DEF GateFails
<1> QED
  BY <1>1, <1>2, <1>3, <1>4, <1>5, <1>6, <1>7 DEF Ask

LEMMA ReadClockStep ==
  ASSUME IInv, NEW c \in Calls, ReadClock(c)
  PROVE  IInv'
<1>1. CronTypeOK'
  BY DEF ReadClock, Clock, Goto, IInv, CronTypeOK, Dispatching, Running
<1>2. ~Used(c) /\ \A d \in Calls : Used(d)' <=> Used(d)
  BY DEF ReadClock, Used, IInv, GateRemembers
<1>3. \A d \in Calls \ {c} : readAt'[d] = readAt[d] /\ doing'[d] = doing[d]
  BY DEF ReadClock, Goto, IInv, CronTypeOK
<1>4. gate' = gate
  BY DEF ReadClock
<1>5. GateRemembers'
  BY <1>2, <1>3, <1>4 DEF IInv, GateRemembers
<1>6. PermitsSpaced'
  BY <1>2, <1>3 DEF IInv, PermitsSpaced
<1> QED
  BY <1>1, <1>5, <1>6 DEF IInv

LEMMA TickStep == IInv /\ TimePasses => IInv'
<1> SUFFICES ASSUME IInv, TimePasses PROVE IInv'
  OBVIOUS
<1>1. CronTypeOK'
  <2>1. instant' \in Nat /\ 0..instant \subseteq 0..instant'
    BY DEF TimePasses, IInv, CronTypeOK
  <2> QED
    BY <2>1 DEF TimePasses, IInv, CronTypeOK
<1> QED
  BY <1>1 DEF TimePasses, IInv, GateRemembers, PermitsSpaced, Used

LEMMA NextInv == IInv /\ [CronNext]_cronVars => IInv'
<1> SUFFICES ASSUME IInv, [CronNext]_cronVars PROVE IInv'
  OBVIOUS
<1>1. CASE TimePasses
  BY <1>1, TickStep
<1>2. CASE \E c \in Calls : ReadClock(c)
  BY <1>2, ReadClockStep
<1>3. CASE \E c \in Calls : Ask(c)
  BY <1>3, AskStep
<1>4. CASE \E c \in Calls : Dispatch(c) \/ Deadline(c) \/ LoseConnection(c)
                              \/ ServerFrees(c) \/ Crash(c)
  BY <1>4, DispatchStep
<1>5. CASE UNCHANGED cronVars
  BY <1>5 DEF cronVars, IInv, CronTypeOK, GateRemembers, PermitsSpaced, Used
<1> QED
  BY <1>1, <1>2, <1>3, <1>4, <1>5 DEF CronNext

\* Two permits of the cron gate are at least minimumIntervalSeconds apart,
\* whichever calls race, however stale their clocks and whether or not a
\* commit's answer is lost.
THEOREM PermitsSpacedHolds == CronSpec => []PermitsSpaced
<1>1. IInv => PermitsSpaced
  BY DEF IInv
<1> QED
  BY <1>1, InitInv, NextInv, PTL DEF CronSpec

-----------------------------------------------------------------------------
(* What a call has done, and the lock it dispatches under.                 *)

Accepted(c) ==
  \/ gateResult[c] = "suppressed"
  \/ gateResult[c] = "permit" /\ started[c] \in {{}, Stages} /\ c \notin aborted

\* A call's step tells which stages it has begun, and it is unanswered until it
\* ends or its deadline passes.
CallInv(c) ==
  /\ c \in aborted => answer[c] = 503
  /\ doing[c] \in {"idle", "asking", "inserting"} => answer[c] = 0 /\ started[c] = {}
  /\ doing[c] \in Dispatching =>
       gateResult[c] = "permit" /\ (c \in aborted \/ answer[c] = 0)
  /\ doing[c] \in {"connecting", "locking"} => started[c] = {}
  /\ doing[c] = "digest" => started[c] = {"digest"}
  /\ doing[c] = "jobs" => started[c] = {"digest", "jobs"}
  /\ doing[c] = "outbox" => started[c] = Stages
  /\ doing[c] = "releasing" => started[c] = Stages \/ c \in aborted
  /\ answer[c] = 202 => Accepted(c)

\* From GET_LOCK to RELEASE_LOCK a call holds the lock or has lost the
\* connection that held it.
UnderLock(c) ==
  doing[c] \in Running \cup {"releasing", "failing"} => c \in gone \/ lock = c

CallsInv == CronTypeOK /\ \A c \in Calls : CallInv(c) /\ UnderLock(c)

LEMMA CallsInit == CronInit => CallsInv
  BY DEF CronInit, CallsInv, CronTypeOK, CallInv, UnderLock, Dispatching, Running

\* The step of call x moves only what belongs to x: its invariant is kept by
\* the step, that of any other call because nothing of it has changed.
LEMMA OthersKept ==
  ASSUME CallsInv, NEW x \in Calls, NEW c \in Calls \ {x},
         doing'[c] = doing[c], gateResult'[c] = gateResult[c],
         started'[c] = started[c], answer'[c] = answer[c],
         c \in aborted' <=> c \in aborted
  PROVE  CallInv(c)'
  BY DEF CallsInv, CallInv, Accepted, Stages, Running, Dispatching

LEMMA CallKept ==
  ASSUME CallsInv, NEW x \in Calls,
         \/ ReadClock(x) \/ Ask(x) \/ Dispatch(x)
         \/ Deadline(x) \/ LoseConnection(x) \/ ServerFrees(x) \/ Crash(x)
  PROVE  \A c \in Calls : CallInv(c)'
<1> USE DEF asked, Goto, Answer, Decide, DestroyConnection
<1>0. /\ CronTypeOK /\ CallInv(x)
  BY DEF CallsInv
<1>1. ASSUME CallInv(x)',
             \A c \in Calls \ {x} :
               /\ doing'[c] = doing[c] /\ gateResult'[c] = gateResult[c]
               /\ started'[c] = started[c] /\ answer'[c] = answer[c]
               /\ c \in aborted' <=> c \in aborted
      PROVE  \A c \in Calls : CallInv(c)'
  BY <1>1, OthersKept
<1>2. CASE ReadClock(x)
  <2>1. CallInv(x)'
    BY <1>0, <1>2
       DEF ReadClock, CallInv, Accepted, CronTypeOK, Dispatching, Running, Stages
  <2> QED
    BY <1>0, <1>1, <1>2, <2>1 DEF ReadClock, CronTypeOK
<1>3. CASE SeeNoRow(x)
  <2>1. CallInv(x)'
    BY <1>0, <1>3
       DEF SeeNoRow, CallInv, Accepted, CronTypeOK, Dispatching, Running, Stages
  <2> QED
    BY <1>0, <1>1, <1>3, <2>1 DEF SeeNoRow, CronTypeOK
<1>4. CASE GateAhead(x)
  <2>1. CallInv(x)'
    BY <1>0, <1>4
       DEF GateAhead, CallInv, Accepted, CronTypeOK, Dispatching, Running, Stages
  <2> QED
    BY <1>0, <1>1, <1>4, <2>1 DEF GateAhead, CronTypeOK
<1>5. CASE Suppress(x)
  <2>1. CallInv(x)'
    BY <1>0, <1>5
       DEF Suppress, CallInv, Accepted, CronTypeOK, Dispatching, Running, Stages
  <2> QED
    BY <1>0, <1>1, <1>5, <2>1 DEF Suppress, CronTypeOK
<1>6. CASE Update(x)
  <2>1. CallInv(x)'
    BY <1>0, <1>6
       DEF Update, Advance, CallInv, Accepted, CronTypeOK, Dispatching, Running, Stages
  <2> QED
    BY <1>0, <1>1, <1>6, <2>1 DEF Update, Advance, CronTypeOK
<1>7. CASE Insert(x)
  <2>1. CallInv(x)'
    BY <1>0, <1>7
       DEF Insert, Advance, CallInv, Accepted, CronTypeOK, Dispatching, Running, Stages
  <2> QED
    BY <1>0, <1>1, <1>7, <2>1 DEF Insert, Advance, CronTypeOK
<1>8. CASE Duplicate(x)
  <2>1. CallInv(x)'
    BY <1>0, <1>8
       DEF Duplicate, CallInv, Accepted, CronTypeOK, Dispatching, Running, Stages
  <2> QED
    BY <1>0, <1>1, <1>8, <2>1 DEF Duplicate, CronTypeOK
<1>9. CASE GateFails(x)
  <2>1. CallInv(x)'
    BY <1>0, <1>9
       DEF GateFails, CallInv, Accepted, CronTypeOK, Dispatching, Running, Stages
  <2> QED
    BY <1>0, <1>1, <1>9, <2>1 DEF GateFails, CronTypeOK
<1>10. CASE ConnectFails(x)
  <2>1. CallInv(x)'
    BY <1>0, <1>10
       DEF ConnectFails, CallInv, Accepted, CronTypeOK, Dispatching, Running, Stages
  <2> QED
    BY <1>0, <1>1, <1>10, <2>1 DEF ConnectFails, CronTypeOK
<1>11. CASE Connect(x)
  <2>1. CallInv(x)'
    BY <1>0, <1>11
       DEF Connect, CallInv, Accepted, CronTypeOK, Dispatching, Running, Stages
  <2> QED
    BY <1>0, <1>1, <1>11, <2>1 DEF Connect, CronTypeOK
<1>12. CASE LockBusy(x)
  <2>1. CallInv(x)'
    BY <1>0, <1>12
       DEF LockBusy, CallInv, Accepted, CronTypeOK, Dispatching, Running, Stages
  <2> QED
    BY <1>0, <1>1, <1>12, <2>1 DEF LockBusy, CronTypeOK
<1>13. CASE GetLock(x)
  <2>1. CallInv(x)'
    BY <1>0, <1>13
       DEF GetLock, Acquirable, CallInv, Accepted, CronTypeOK, Dispatching, Running, Stages
  <2> QED
    BY <1>0, <1>1, <1>13, <2>1 DEF GetLock, Acquirable, CronTypeOK
<1>14. CASE LockFails(x)
  <2>1. CallInv(x)'
    BY <1>0, <1>14
       DEF LockFails, CallInv, Accepted, CronTypeOK, Dispatching, Running, Stages
  <2> QED
    BY <1>0, <1>1, <1>14, <2>1 DEF LockFails, CronTypeOK
<1>15. CASE StageEnds(x)
  <2>1. /\ doing'[x] = NextStage(x)
        /\ started'[x] = started[x] \cup ({NextStage(x)} \cap Stages)
        /\ gateResult'[x] = gateResult[x] /\ answer'[x] = answer[x]
        /\ aborted' = aborted
    BY <1>0, <1>15 DEF StageEnds, CronTypeOK
  <2>2. gateResult[x] = "permit" /\ (x \in aborted \/ answer[x] = 0)
    BY <1>0, <1>15 DEF StageEnds, CallInv, Running, Dispatching
  <2>3. ASSUME doing[x] = "digest" PROVE CallInv(x)'
    <3>1. doing'[x] = "jobs" /\ started'[x] = {"digest", "jobs"}
      BY <1>0, <2>1, <2>3 DEF CallInv, NextStage, Stages
    <3> QED
      BY <1>0, <2>1, <2>2, <3>1 DEF CallInv
  <2>4. ASSUME doing[x] = "jobs", x \notin aborted PROVE CallInv(x)'
    <3>1. doing'[x] = "outbox" /\ started'[x] = Stages
      BY <1>0, <2>1, <2>4 DEF CallInv, NextStage, AfterJobs, Stages
    <3> QED
      BY <1>0, <2>1, <2>2, <3>1 DEF CallInv
  <2>5. ASSUME doing[x] = "jobs", x \in aborted PROVE CallInv(x)'
    <3>1. doing'[x] = "releasing"
      BY <2>1, <2>5 DEF NextStage, AfterJobs
    <3> QED
      BY <1>0, <2>1, <2>2, <2>5, <3>1 DEF CallInv
  <2>6. ASSUME doing[x] = "outbox" PROVE CallInv(x)'
    <3>1. doing'[x] = "releasing" /\ started'[x] = Stages
      BY <1>0, <2>1, <2>6 DEF CallInv, NextStage, Stages
    <3> QED
      BY <1>0, <2>1, <2>2, <3>1 DEF CallInv
  <2>7. CallInv(x)'
    BY <1>15, <2>3, <2>4, <2>5, <2>6 DEF StageEnds, Running
  <2> QED
    BY <1>0, <1>1, <1>15, <2>7 DEF StageEnds, CronTypeOK
<1>16. CASE StageFails(x)
  <2>1. CallInv(x)'
    BY <1>0, <1>16
       DEF StageFails, AfterError, CallInv, Accepted, CronTypeOK, Dispatching, Running, Stages
  <2> QED
    BY <1>0, <1>1, <1>16, <2>1 DEF StageFails, AfterError, CronTypeOK
<1>17. CASE Release(x)
  <2>1. CallInv(x)'
    BY <1>0, <1>17
       DEF Release, CallInv, Accepted, CronTypeOK, Dispatching, Running, Stages
  <2> QED
    BY <1>0, <1>1, <1>17, <2>1 DEF Release, CronTypeOK
<1>18. CASE ReleaseFails(x)
  <2>1. CallInv(x)'
    BY <1>0, <1>18
       DEF ReleaseFails, CallInv, Accepted, CronTypeOK, Dispatching, Running, Stages
  <2> QED
    BY <1>0, <1>1, <1>18, <2>1 DEF ReleaseFails, CronTypeOK
<1>19. CASE Deadline(x)
  <2>1. CallInv(x)'
    BY <1>0, <1>19
       DEF Deadline, CallInv, Accepted, CronTypeOK, Dispatching, Running, Stages
  <2> QED
    BY <1>0, <1>1, <1>19, <2>1 DEF Deadline, CronTypeOK
<1>20. CASE LoseConnection(x)
  <2>1. CallInv(x)'
    BY <1>0, <1>20
       DEF LoseConnection, CallInv, Accepted, CronTypeOK, Dispatching, Running, Stages
  <2> QED
    BY <1>0, <1>1, <1>20, <2>1 DEF LoseConnection, CronTypeOK
<1>21. CASE ServerFrees(x)
  <2>1. CallInv(x)'
    BY <1>0, <1>21
       DEF ServerFrees, CallInv, Accepted, CronTypeOK, Dispatching, Running, Stages
  <2> QED
    BY <1>0, <1>1, <1>21, <2>1 DEF ServerFrees, CronTypeOK
<1>22. CASE Crash(x)
  <2>1. CallInv(x)'
    BY <1>0, <1>22
       DEF Crash, CallInv, Accepted, CronTypeOK, Dispatching, Running, Stages
  <2> QED
    BY <1>0, <1>1, <1>22, <2>1 DEF Crash, CronTypeOK
<1> QED
  BY <1>2, <1>3, <1>4, <1>5, <1>6, <1>7, <1>8, <1>9, <1>10, <1>11, <1>12, <1>13, <1>14, <1>15, <1>16, <1>17, <1>18, <1>19, <1>20, <1>21, <1>22 DEF Ask, Dispatch

LEMMA LockKept ==
  ASSUME CallsInv, NEW x \in Calls,
         \/ ReadClock(x) \/ Ask(x) \/ Dispatch(x)
         \/ Deadline(x) \/ LoseConnection(x) \/ ServerFrees(x) \/ Crash(x)
  PROVE  \A c \in Calls : UnderLock(c)'
<1> USE DEF asked, Goto, Decide, DestroyConnection, Running
<1>0. CronTypeOK /\ \A c \in Calls : UnderLock(c)
  BY DEF CallsInv
<1>1. ASSUME lock' = lock, gone \subseteq gone',
             \A c \in Calls : doing'[c] \in Running \cup {"releasing", "failing"} =>
                                doing[c] \in Running \cup {"releasing", "failing"}
      PROVE  \A c \in Calls : UnderLock(c)'
  BY <1>0, <1>1 DEF UnderLock
<1>2. CASE ReadClock(x) \/ Ask(x)
  <2>1. lock' = lock /\ gone' = gone
    BY <1>2 DEF ReadClock, Ask, SeeNoRow, GateAhead, Suppress, Update, Insert,
                Advance, Duplicate, GateFails
  <2>2. \E step \in {"asking", "inserting", "connecting", "done"} :
          doing' = [doing EXCEPT ![x] = step]
    BY <1>2 DEF ReadClock, Ask, SeeNoRow, GateAhead, Suppress, Update, Insert,
                Advance, Duplicate, GateFails
  <2> QED
    BY <1>0, <1>1, <2>1, <2>2 DEF CronTypeOK
<1>3. CASE ConnectFails(x) \/ Connect(x) \/ LockBusy(x)
  BY <1>0, <1>1, <1>3 DEF ConnectFails, Connect, LockBusy, CronTypeOK
<1>4. CASE GetLock(x)
  <2>1. lock = Nobody /\ Nobody \notin Calls
    BY <1>4, NobodyAssumption DEF GetLock, Acquirable
  <2> QED
    BY <1>0, <1>4, <2>1 DEF GetLock, UnderLock, CronTypeOK
<1>5. CASE LockFails(x)
  <2>1. lock = Nobody => \A c \in Calls : lock # c
    BY NobodyAssumption
  <2>2. \A c \in Calls : doing'[c] \in Running \cup {"releasing", "failing"} =>
                            doing[c] \in Running \cup {"releasing", "failing"}
    BY <1>0, <1>5 DEF LockFails, CronTypeOK
  <2> QED
    BY <1>0, <1>5, <2>1, <2>2 DEF LockFails, UnderLock
<1>6. CASE StageEnds(x) \/ StageFails(x)
  <2>1. doing[x] \in Running /\ lock' = lock /\ gone' = gone
    BY <1>6 DEF StageEnds, StageFails
  <2>2. \A c \in Calls \ {x} : doing'[c] = doing[c]
    BY <1>0, <1>6 DEF StageEnds, StageFails, CronTypeOK
  <2> QED
    BY <1>0, <1>1, <2>1, <2>2
<1>7. CASE Release(x)
  <2>1. lock = x /\ x \notin gone /\ gone' = gone
    BY <1>0, <1>7 DEF Release, UnderLock
  <2>2. \A c \in Calls : doing'[c] = IF c = x THEN "done" ELSE doing[c]
    BY <1>0, <1>7 DEF Release, CronTypeOK
  <2> QED
    BY <1>0, <2>1, <2>2 DEF UnderLock
<1>8. CASE ReleaseFails(x) \/ Deadline(x) \/ LoseConnection(x) \/ Crash(x)
  BY <1>0, <1>1, <1>8 DEF ReleaseFails, Deadline, LoseConnection, Crash, CronTypeOK
<1>9. CASE ServerFrees(x)
  BY <1>0, <1>9 DEF ServerFrees, UnderLock
<1> QED
  BY <1>2, <1>3, <1>4, <1>5, <1>6, <1>7, <1>8, <1>9 DEF Dispatch

LEMMA CallsNext == CallsInv /\ CronTypeOK' /\ [CronNext]_cronVars => CallsInv'
<1> SUFFICES ASSUME CallsInv, CronTypeOK', [CronNext]_cronVars PROVE CallsInv'
  OBVIOUS
<1>1. CASE TimePasses \/ UNCHANGED cronVars
  BY <1>1 DEF TimePasses, cronVars, CallsInv, CallInv, Accepted, UnderLock
<1>2. ASSUME NEW x \in Calls,
             \/ ReadClock(x) \/ Ask(x) \/ Dispatch(x)
             \/ Deadline(x) \/ LoseConnection(x) \/ ServerFrees(x) \/ Crash(x)
      PROVE  CallsInv'
  BY <1>2, CallKept, LockKept DEF CallsInv
<1> QED
  BY <1>1, <1>2 DEF CronNext

LEMMA CallsAlways == CronSpec => []CallsInv
<1>1. IInv => CronTypeOK
  BY DEF IInv
<1> QED
  BY <1>1, InitInv, NextInv, CallsInit, CallsNext, PTL DEF CronSpec

\* For any number of calls, two of them dispatch at once only when one has lost
\* the connection of its lock, and 202 is never the answer of a call that
\* failed, was cut off by its deadline, or skipped a stage.
THEOREM EndpointSoundHolds == CronSpec => []EndpointSound
<1>1. CallsInv => DispatcherAlone
  BY DEF CallsInv, UnderLock, DispatcherAlone
<1>2. CallsInv => AcceptedForAReason
  BY DEF CallsInv, CallInv, Accepted, AcceptedForAReason
<1>3. CallsInv => EndpointSound
  BY <1>1, <1>2 DEF EndpointSound, CallsInv
<1> QED
  BY <1>3, CallsAlways, PTL

\* A call claims outbox events only by ending its jobs stage before the
\* deadline: afterwards it goes to the release.
THEOREM NoOutboxAfterDeadlineHolds == CronSpec => NoOutboxAfterDeadline
<1>1. ASSUME CallsInv, [CronNext]_cronVars, NEW c \in Calls, c \in aborted
      PROVE  "outbox" \notin started'[c] \ started[c]
  <2>1. CASE UNCHANGED started
    BY <2>1
  <2>2. ASSUME NEW x \in Calls, GetLock(x) PROVE "outbox" \notin started'[c] \ started[c]
    BY <1>1, <2>2 DEF GetLock, CallsInv, CronTypeOK
  <2>3. ASSUME NEW x \in Calls, StageEnds(x) PROVE "outbox" \notin started'[c] \ started[c]
    <3>1. started' = [started EXCEPT ![x] = @ \cup ({NextStage(x)} \cap Stages)]
      BY <2>3 DEF StageEnds
    <3>2. x = c => NextStage(x) # "outbox"
      BY <1>1 DEF NextStage, AfterJobs
    <3> QED
      BY <1>1, <3>1, <3>2 DEF CallsInv, CronTypeOK
  <2> QED
    BY <1>1, <2>1, <2>2, <2>3
       DEF CronNext, cronVars, TimePasses, ReadClock, Ask, SeeNoRow, GateAhead, Suppress,
           Update, Insert, Advance, Duplicate, GateFails, Decide, Dispatch,
           ConnectFails, Connect, LockBusy, LockFails, StageFails, Release,
           ReleaseFails, Deadline, LoseConnection, ServerFrees, Crash, asked
<1>2. CallsInv /\ [CronNext]_cronVars =>
        [\A c \in Calls :
           c \in aborted => "outbox" \notin started'[c] \ started[c]]_cronVars
  BY <1>1
<1> QED
  BY <1>2, CallsAlways, PTL DEF CronSpec, NoOutboxAfterDeadline
=============================================================================
