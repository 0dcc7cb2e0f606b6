----------------------------- MODULE JobEngine -----------------------------
(***************************************************************************)
(* The scheduled_job / job_run engine of src/platform/jobs: the enqueue,   *)
(* claim, run and failure transactions of repository.ts, driven by any     *)
(* number of concurrent dispatchers (dispatcher.ts).                       *)
(*                                                                         *)
(* Every database transaction is one action: each reads its rows under     *)
(* FOR UPDATE locks and commits or rolls back as a whole.  What is not     *)
(* atomic is a dispatcher: it reads its clock, claims a batch, and runs    *)
(* the claims one transaction at a time, and between any two of those      *)
(* steps time passes, other dispatchers act, or the process stops.         *)
(*                                                                         *)
(* Time is a counter that saturates at Horizon: an instant past the        *)
(* horizon is the horizon itself, so once the clock is there every lease   *)
(* and every delay counts as elapsed.  This only adds behaviours.          *)
(***************************************************************************)
EXTENDS Naturals, FiniteSets

CONSTANTS
  Jobs,          \* job ids, numbers because the claim query orders by id
  Workers,       \* concurrent dispatchers (web processes or cron requests)
  AttemptCap,    \* the largest max_attempts a caller passes
  BatchSize,     \* the LIMIT of the claim and of the sweep
  Lease,         \* leaseDurationMs
  BaseDelay,     \* the backoff policy: baseDelayMs
  MaxDelay,      \*                     maximumDelayMs
  StartDelays,   \* how far ahead of now a caller may set availableAtUtc
  Horizon        \* the last instant

ASSUME JobsAssumption == Jobs \subseteq Nat
ASSUME CapAssumption == AttemptCap \in Nat \ {0}
ASSUME HorizonAssumption == Horizon \in Nat

VARIABLES
  now,           \* the clock every process reads
  job,           \* the scheduled_job row of each job
  run,           \* its job_run rows, one per attempt number
  lastToken,     \* lease tokens handed out; <<token, job>> stands for a UUID
  effects,       \* how many times the handler's writes were committed
  pc,            \* what each dispatcher is doing
  at,            \* while claiming: the instant it read beforehand, else 0
  tries,         \* while claiming: which try it is at, else 0
  batch          \* the claims it still has to run

vars == <<now, job, run, lastToken, effects, pc, at, tries, batch>>

Statuses == {"absent", "pending", "retry", "leased", "succeeded", "dead_letter"}
Outcomes == {"none", "running", "succeeded", "retry", "dead_letter", "lease_expired"}
Attempts == 1..AttemptCap

Rows == [status : Statuses, avail : 0..Horizon, attempts : 0..AttemptCap,
         max : 0..AttemptCap, token : Nat, expires : 0..Horizon]
Runs == [token : Nat, outcome : Outcomes]
Claims == [job : Jobs, attempt : Attempts, token : Nat, due : 0..Horizon]

NoRow == [status |-> "absent", avail |-> 0, attempts |-> 0, max |-> 0,
          token |-> 0, expires |-> 0]
NoRun == [token |-> 0, outcome |-> "none"]

Init ==
  /\ now = 0
  /\ job = [j \in Jobs |-> NoRow]
  /\ run = [j \in Jobs |-> [a \in Attempts |-> NoRun]]
  /\ lastToken = 0
  /\ effects = [j \in Jobs |-> 0]
  /\ pc = [w \in Workers |-> "idle"]
  /\ at = [w \in Workers |-> 0]
  /\ tries = [w \in Workers |-> 0]
  /\ batch = [w \in Workers |-> {}]

-----------------------------------------------------------------------------
(* Time and backoff.                                                       *)

Later(t, d) == IF t + d \in 0..Horizon THEN t + d ELSE Horizon

\* baseDelay * 2^(n-1), no more than the maximum delay.
RetryDelay(n) ==
  LET wait == BaseDelay * 2 ^ (IF n - 1 < 30 THEN n - 1 ELSE 30)
  IN  IF wait < MaxDelay THEN wait ELSE MaxDelay

Tick ==
  /\ now < Horizon
  /\ now' = now + 1
  /\ UNCHANGED <<job, run, lastToken, effects, pc, at, tries, batch>>

-----------------------------------------------------------------------------
(* enqueueScheduledJob.  A second call with the same idempotency key finds *)
(* the row already there and changes nothing, whatever its arguments.      *)

NewRow(n, d) ==
  [status |-> "pending", avail |-> Later(now, d), attempts |-> 0, max |-> n,
   token |-> 0, expires |-> 0]

Enqueued(j, n, d) == IF job[j].status = "absent" THEN NewRow(n, d) ELSE job[j]

Enqueue(j, n, d) ==
  /\ job' = [job EXCEPT ![j] = Enqueued(j, n, d)]
  /\ UNCHANGED <<now, run, lastToken, effects, pc, at, tries, batch>>

-----------------------------------------------------------------------------
(* claimScheduledJobs.                                                     *)

Expired(j, t) == job[j].status = "leased" /\ job[j].expires <= t
Ready(j, t) == job[j].status \in {"pending", "retry"} /\ job[j].avail <= t

\* Mutant: a claim that does not wait for the lease.
ClaimableEarly(t) ==
  {j \in Jobs : /\ job[j].attempts < job[j].max
                /\ Ready(j, t) \/ job[j].status = "leased"}
Claimable(t) ==
  {j \in Jobs : job[j].attempts < job[j].max /\ (Ready(j, t) \/ Expired(j, t))}

\* Mutant: no sweep of leases whose last attempt expired.
NothingExhausted(t) == {j \in Jobs : Expired(j, t) /\ FALSE}
Exhausted(t) == {j \in Jobs : Expired(j, t) /\ job[j].attempts >= job[j].max}

Due(j) == IF job[j].status = "leased" THEN job[j].expires ELSE job[j].avail

\* ORDER BY due, id LIMIT BatchSize.
FirstDue(S) ==
  {j \in S : Cardinality({k \in S : \/ Due(k) < Due(j)
                                    \/ Due(k) = Due(j) /\ k < j}) < BatchSize}

ClaimedRow(j, t) ==
  [status |-> "leased", avail |-> job[j].avail,
   attempts |-> job[j].attempts + 1, max |-> job[j].max,
   token |-> lastToken + 1, expires |-> Later(t, Lease)]

ReleasedRow(j, status, avail) ==
  [status |-> status, avail |-> avail, attempts |-> job[j].attempts,
   max |-> job[j].max, token |-> 0, expires |-> 0]

ClosedRun(j, a, outcome) == [token |-> run[j][a].token, outcome |-> outcome]

\* The history of j after a claim transaction that claimed and buried S: an
\* expired lease is closed, and a claim opens the next attempt.
ClaimRuns(j, claimed, buried) ==
  [a \in Attempts |->
     IF j \in claimed /\ a = job[j].attempts + 1
     THEN [token |-> lastToken + 1, outcome |-> "running"]
     ELSE IF /\ j \in claimed \cup buried
             /\ a = job[j].attempts
             /\ job[j].status = "leased"
          THEN ClosedRun(j, a, "lease_expired")
          ELSE run[j][a]]

\* A dispatch begins: the clock is read before the transaction is opened.
Start(w) ==
  /\ pc[w] = "idle"
  /\ pc' = [pc EXCEPT ![w] = "claiming"]
  /\ at' = [at EXCEPT ![w] = now]
  /\ tries' = [tries EXCEPT ![w] = 1]
  /\ UNCHANGED <<now, job, run, lastToken, effects, batch>>

ClaimTxn(w) ==
  LET claimed == FirstDue(Claimable(at[w]))
      buried == FirstDue(Exhausted(at[w]))
  IN
  /\ pc[w] = "claiming"
  /\ job' = [j \in Jobs |->
               IF j \in claimed THEN ClaimedRow(j, at[w])
               ELSE IF j \in buried
                    THEN ReleasedRow(j, "dead_letter", job[j].avail)
                    ELSE job[j]]
  /\ run' = [j \in Jobs |-> ClaimRuns(j, claimed, buried)]
  /\ lastToken' = IF claimed = {} THEN lastToken ELSE lastToken + 1
  /\ batch' = [batch EXCEPT ![w] =
                 {[job |-> j, attempt |-> job[j].attempts + 1,
                   token |-> lastToken + 1, due |-> Due(j)] : j \in claimed}]
  /\ pc' = [pc EXCEPT ![w] = IF claimed = {} THEN "idle" ELSE "running"]
  /\ at' = [at EXCEPT ![w] = 0]
  /\ tries' = [tries EXCEPT ![w] = 0]
  /\ UNCHANGED <<now, effects>>

\* InnoDB chose the claim as deadlock victim: up to three tries, each with a
\* clock of its own; after the third the dispatch fails (Stop).
ClaimDeadlock(w) ==
  /\ pc[w] = "claiming"
  /\ tries[w] < 3
  /\ tries' = [tries EXCEPT ![w] = @ + 1]
  /\ at' = [at EXCEPT ![w] = now]
  /\ UNCHANGED <<now, job, run, lastToken, effects, pc, batch>>

-----------------------------------------------------------------------------
(* executeClaimedJob, one claim of the batch after the other.              *)

IsNext(w, c) ==
  /\ c \in batch[w]
  /\ \A d \in batch[w] : \/ c.due < d.due
                         \/ c.due = d.due /\ c.job <= d.job

\* lockedJobLease: the fence every write to a claimed job passes.
\* Mutant: a fence that trusts the attempt number alone.
FencedByAttempt(c) == job[c.job].attempts = c.attempt
HoldsLease(c) ==
  /\ job[c.job].status = "leased"
  /\ job[c.job].token = c.token
  /\ job[c.job].attempts = c.attempt

CloseRun(c, outcome) ==
  run' = [run EXCEPT ![c.job][c.attempt] = ClosedRun(c.job, c.attempt, outcome)]

Drop(w, c) ==
  /\ batch' = [batch EXCEPT ![w] = @ \ {c}]
  /\ pc' = [pc EXCEPT ![w] = IF batch[w] = {c} THEN "idle" ELSE "running"]

\* The handler's writes, the succeeded row and the closed run in one commit.
Succeed(c) ==
  /\ HoldsLease(c)
  /\ job' = [job EXCEPT ![c.job] = ReleasedRow(c.job, "succeeded", @.avail)]
  /\ CloseRun(c, "succeeded")
  /\ effects' = [effects EXCEPT ![c.job] = @ + 1]

RunJob(w) ==
  /\ pc[w] = "running"
  /\ \E c \in batch[w] :
       /\ IsNext(w, c)
       /\ Drop(w, c)
       /\ \/ Succeed(c)
          \/ ~HoldsLease(c) /\ UNCHANGED <<job, run, effects>>
  /\ UNCHANGED <<now, lastToken, at, tries>>

\* The commit reached the database but its answer did not reach the process.
RunCommitLost(w) ==
  /\ pc[w] = "running"
  /\ \E c \in batch[w] : IsNext(w, c) /\ Succeed(c)
  /\ pc' = [pc EXCEPT ![w] = "failing"]
  /\ UNCHANGED <<now, lastToken, at, tries, batch>>

\* No handler is registered, or the handler threw and was rolled back.
RunFails(w) ==
  /\ pc[w] = "running"
  /\ pc' = [pc EXCEPT ![w] = "failing"]
  /\ UNCHANGED <<now, job, run, lastToken, effects, at, tries, batch>>

\* Mutant: one attempt too few.
FailureStatusEarly(c) ==
  IF c.attempt + 1 >= job[c.job].max THEN "dead_letter" ELSE "retry"
FailureStatus(c) ==
  IF c.attempt >= job[c.job].max THEN "dead_letter" ELSE "retry"

FailureDelay(c) ==
  IF FailureStatus(c) = "retry" THEN RetryDelay(c.attempt) ELSE 0

RecordFailure(w) ==
  /\ pc[w] = "failing"
  /\ \E c \in batch[w] :
       /\ IsNext(w, c)
       /\ Drop(w, c)
       /\ \/ /\ HoldsLease(c)
             /\ job' = [job EXCEPT ![c.job] =
                          ReleasedRow(c.job, FailureStatus(c),
                                      Later(now, FailureDelay(c)))]
             /\ CloseRun(c, FailureStatus(c))
          \/ ~HoldsLease(c) /\ UNCHANGED <<job, run>>
  /\ UNCHANGED <<now, lastToken, effects, at, tries>>

\* The deadline aborted the batch, a transaction failed for good, or the
\* process died: the rest of the batch is forgotten, its leases stay.
Stop(w) ==
  /\ pc[w] # "idle"
  /\ pc' = [pc EXCEPT ![w] = "idle"]
  /\ batch' = [batch EXCEPT ![w] = {}]
  /\ at' = [at EXCEPT ![w] = 0]
  /\ tries' = [tries EXCEPT ![w] = 0]
  /\ UNCHANGED <<now, job, run, lastToken, effects>>

Claim(w) == Start(w) \/ ClaimTxn(w) \/ ClaimDeadlock(w)
Process(w) == RunJob(w) \/ RunCommitLost(w) \/ RunFails(w) \/ RecordFailure(w)

Next ==
  \/ Tick
  \/ \E j \in Jobs, n \in Attempts, d \in StartDelays : Enqueue(j, n, d)
  \/ \E w \in Workers : Claim(w) \/ Process(w) \/ Stop(w)

Spec == Init /\ [][Next]_vars

\* The cron schedule keeps starting dispatches and a dispatch is a program
\* that runs on; a claim transaction that is tried again and again is not
\* refused for ever.  Handlers are not assumed ever to succeed.
Fairness ==
  /\ WF_vars(Tick)
  /\ \A w \in Workers :
       /\ WF_vars(Start(w))
       /\ SF_vars(ClaimTxn(w))
       /\ WF_vars(Process(w))

FairSpec == Spec /\ Fairness

-----------------------------------------------------------------------------
(* What the engine promises.                                               *)

TypeOK ==
  /\ now \in 0..Horizon
  /\ job \in [Jobs -> Rows]
  /\ run \in [Jobs -> [Attempts -> Runs]]
  /\ lastToken \in Nat
  /\ effects \in [Jobs -> Nat]
  /\ pc \in [Workers -> {"idle", "claiming", "running", "failing"}]
  /\ at \in [Workers -> 0..Horizon]
  /\ tries \in [Workers -> 0..3]
  /\ batch \in [Workers -> SUBSET Claims]

\* What the run of the last attempt says, given the status of its job.
LastRun ==
  {<<"leased", "running">>, <<"retry", "retry">>, <<"succeeded", "succeeded">>,
   <<"dead_letter", "dead_letter">>, <<"dead_letter", "lease_expired">>}

\* The job_run history tells exactly what happened to its job: one run per
\* attempt used, every earlier one closed without success, and the last one
\* agreeing with the row (under the same lease token while it is leased).
RunHistory ==
  \A j \in Jobs :
    /\ job[j].status \in {"absent", "pending"} => job[j].attempts = 0
    /\ \A a \in Attempts :
         /\ a > job[j].attempts => run[j][a] = NoRun
         /\ a < job[j].attempts => run[j][a].outcome \in {"retry", "lease_expired"}
         /\ a = job[j].attempts =>
              /\ <<job[j].status, run[j][a].outcome>> \in LastRun
              /\ job[j].status = "leased" => run[j][a].token = job[j].token

\* The writes of a handler are committed once for a job that succeeded and
\* never for any other, however many dispatchers ran it and however many
\* commits were reported to them as failures.
EffectOnce ==
  \A j \in Jobs : effects[j] = IF job[j].status = "succeeded" THEN 1 ELSE 0

\* What the engine's tables must say of its work in every state: well typed
\* rows, a history that accounts for every attempt, and one effect per success.
AttemptsAccounted == TypeOK /\ RunHistory /\ EffectOnce

\* job_run is the immutable attempt history: a closed run never changes again.
ClosedRunsImmutable ==
  [][\A j \in Jobs, a \in Attempts :
       run[j][a].outcome \notin {"none", "running"} => run'[j][a] = run[j][a]]_vars

\* Until a lease expires only the dispatcher that took it settles its job: no
\* other one reclaims, buries or completes it, not even one that read its clock
\* long before its claim transaction.
HolderSteps(j, w) ==
  /\ job'[j].status # "leased"
  /\ batch'[w] # batch[w] \/ pc'[w] # pc[w]
  /\ \E c \in batch[w] : c.job = j /\ c.token = job[j].token

LeaseRespected ==
  [][\A j \in Jobs :
       job[j].status = "leased" /\ job[j].expires > now =>
         job'[j] = job[j] \/ \E w \in Workers : HolderSteps(j, w)]_vars

\* The engine implements the contract of the job table.
Phase(status) ==
  IF status = "absent" THEN "absent"
  ELSE IF status = "succeeded" THEN "done"
  ELSE IF status = "dead_letter" THEN "buried" ELSE "open"

Contract == INSTANCE JobContract WITH
  phase <- [j \in Jobs |-> Phase(job[j].status)],
  granted <- [j \in Jobs |-> job[j].max],
  used <- [j \in Jobs |-> job[j].attempts]

ImplementsContract == Contract!CSpec

\* Every job that is enqueued is settled: whatever dispatchers crash, lose
\* their lease or fail, it ends as succeeded or dead_letter.
EventuallySettled ==
  \A j \in Jobs : job[j].status = "pending" ~>
                    job[j].status \in {"succeeded", "dead_letter"}
=============================================================================
