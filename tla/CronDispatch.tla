---------------------------- MODULE CronDispatch ----------------------------
(***************************************************************************)
(* The cron endpoint of src/platform/cron: an authorised call asks the     *)
(* durable frequency gate (one row of cron_dispatch_gate) for a permit,    *)
(* takes the database's advisory lock and dispatches the platform's work:  *)
(* the daily digest, then jobs, then outbox events.                        *)
(*                                                                         *)
(* Calls run concurrently, in one process or several.  A call reads its    *)
(* clock once, before it waits for a connection and for the row's lock.    *)
(* The deadline answers the caller and raises the abort signal, but the    *)
(* work goes on in the background.  The advisory lock belongs to the       *)
(* call's connection: the server drops it when that connection is gone.    *)
(***************************************************************************)
EXTENDS Naturals

CONSTANTS
  Calls,         \* executions of the handler that pass authorisation
  Interval,      \* minimumIntervalSeconds
  LastInstant,   \* the last instant
  Nobody         \* no call

ASSUME IntervalAssumption == Interval \in Nat \ {0}
ASSUME NobodyAssumption == Nobody \notin Calls

VARIABLES
  instant,       \* the clock
  gate,          \* last_permitted_at_utc, Missing while there is no row
  doing,         \* what each call is doing
  readAt,        \* the instant a call read at its start
  gateResult,    \* what became of the permit
  lock,          \* the call whose connection holds the advisory lock
  gone,          \* calls whose lock connection is destroyed or lost
  aborted,       \* calls whose deadline has passed
  started,       \* the stages each call has begun
  answer         \* the HTTP status each caller got, 0 for none yet

cronVars ==
  <<instant, gate, doing, readAt, gateResult, lock, gone, aborted, started, answer>>

Missing == [row |-> "missing", last |-> 0]
Active(t) == [row |-> "active", last |-> t]

Stages == {"digest", "jobs", "outbox"}
Running == {"digest", "jobs", "outbox"}
Dispatching == Running \cup {"connecting", "locking", "releasing", "failing"}

CronInit ==
  /\ instant = 0
  /\ gate = Missing
  /\ doing = [c \in Calls |-> "idle"]
  /\ readAt = [c \in Calls |-> 0]
  /\ gateResult = [c \in Calls |-> "none"]
  /\ lock = Nobody
  /\ gone = {}
  /\ aborted = {}
  /\ started = [c \in Calls |-> {}]
  /\ answer = [c \in Calls |-> 0]

Goto(c, step) == doing' = [doing EXCEPT ![c] = step]

\* An answer reaches the caller only once.
Answer(c, status) ==
  answer' = [answer EXCEPT ![c] = IF @ = 0 THEN status ELSE @]

TimePasses ==
  /\ instant < LastInstant
  /\ instant' = instant + 1
  /\ UNCHANGED <<gate, doing, readAt, gateResult, lock, gone, aborted,
                 started, answer>>

-----------------------------------------------------------------------------
(* acquireCronDispatchPermit.                                              *)

Clock == instant

ReadClock(c) ==
  /\ doing[c] = "idle"
  /\ Goto(c, "asking")
  /\ readAt' = [readAt EXCEPT ![c] = Clock]
  /\ UNCHANGED <<instant, gate, gateResult, lock, gone, aborted, started,
                 answer>>

Decide(c, result, step, status) ==
  /\ gateResult' = [gateResult EXCEPT ![c] = result]
  /\ Goto(c, step)
  /\ Answer(c, status)
  /\ UNCHANGED <<instant, readAt, lock, gone, aborted, started>>

\* Mutant: an interval counts as over one unit early.
TooSoonShort(last, t) == t < last + (Interval - 1)
TooSoon(last, t) == t < last + Interval

\* No row yet: READ COMMITTED takes no gap lock, another call may insert first.
SeeNoRow(c) ==
  /\ doing[c] = "asking"
  /\ gate = Missing
  /\ Goto(c, "inserting")
  /\ UNCHANGED <<instant, gate, readAt, gateResult, lock, gone, aborted,
                 started, answer>>

\* A row from the future: this call's clock was read before the winner's.
GateAhead(c) ==
  /\ doing[c] = "asking"
  /\ gate # Missing
  /\ gate.last > readAt[c]
  /\ Decide(c, "ahead", "done", 503)
  /\ UNCHANGED gate

Suppress(c) ==
  /\ doing[c] = "asking"
  /\ gate # Missing
  /\ gate.last <= readAt[c]
  /\ TooSoon(gate.last, readAt[c])
  /\ Decide(c, "suppressed", "done", 202)
  /\ UNCHANGED gate

\* The row is locked from the read to the commit.  If the commit's answer is
\* lost the interval is used up, yet the call fails.
Advance(c) ==
  /\ gate' = Active(readAt[c])
  /\ \/ Decide(c, "permit", "connecting", 0)
     \/ Decide(c, "unknown", "done", 503)

Update(c) ==
  /\ doing[c] = "asking"
  /\ gate # Missing
  /\ gate.last <= readAt[c]
  /\ ~TooSoon(gate.last, readAt[c])
  /\ Advance(c)

Insert(c) ==
  /\ doing[c] = "inserting"
  /\ gate = Missing
  /\ Advance(c)

\* ER_DUP_ENTRY: the call looks again, once, with the clock it read before the
\* race; if the winner read its own later, GateAhead fails this call.
Duplicate(c) ==
  /\ doing[c] = "inserting"
  /\ gate # Missing
  /\ Goto(c, "asking")
  /\ UNCHANGED <<instant, gate, readAt, gateResult, lock, gone, aborted,
                 started, answer>>

\* No connection, a query that times out, a rollback.
GateFails(c) ==
  /\ doing[c] \in {"asking", "inserting"}
  /\ Decide(c, "failed", "done", 503)
  /\ UNCHANGED gate

-----------------------------------------------------------------------------
(* withCronAdvisoryLock and dispatchPlatformWork.                          *)

asked == <<instant, gate, readAt, gateResult>>

\* No connection, or one that came after the deadline.
ConnectFails(c) ==
  /\ doing[c] = "connecting"
  /\ Goto(c, "done")
  /\ Answer(c, 503)
  /\ UNCHANGED <<asked, lock, gone, aborted, started>>

Connect(c) ==
  /\ doing[c] = "connecting"
  /\ c \notin aborted
  /\ Goto(c, "locking")
  /\ UNCHANGED <<asked, lock, gone, aborted, started, answer>>

\* GET_LOCK(name, 0) gives the lock at once or not at all; NULL is an error (LockFails).
\* Mutant: its answer is not looked at.
AcquirableAlways == TRUE
Acquirable == lock = Nobody

\* Another connection has the lock, nothing is dispatched.
LockBusy(c) ==
  /\ doing[c] = "locking"
  /\ ~Acquirable
  /\ Goto(c, "done")
  /\ Answer(c, 202)
  /\ UNCHANGED <<asked, lock, gone, aborted, started>>

\* After the deadline the lock is released again, and dispatchPlatformWork
\* returns at once if the signal is raised just before it starts.
GetLock(c) ==
  /\ doing[c] = "locking"
  /\ Acquirable
  /\ lock' = c
  /\ IF c \in aborted
     THEN Goto(c, "failing") /\ UNCHANGED started
     ELSE Goto(c, "digest") /\ started' = [started EXCEPT ![c] = {"digest"}]
  /\ UNCHANGED <<asked, gone, aborted, answer>>

\* Mutant: the connection goes back to the pool.
KeepConnection(c) == UNCHANGED gone
DestroyConnection(c) == gone' = gone \cup {c}

\* The session check or GET_LOCK fails or answers NULL, perhaps only for this side: the
\* connection is destroyed.
LockFails(c) ==
  /\ doing[c] = "locking"
  /\ Goto(c, "done")
  /\ Answer(c, 503)
  /\ lock' \in IF lock = Nobody THEN {Nobody, c} ELSE {lock}
  /\ DestroyConnection(c)
  /\ UNCHANGED <<asked, aborted, started>>

\* Jobs look at the signal between two jobs; outbox events are not even claimed
\* once it is raised.  Mutant: the signal is not looked at.
AfterJobsBlind(c) == "outbox"
AfterJobs(c) == IF c \in aborted THEN "releasing" ELSE "outbox"

NextStage(c) ==
  IF doing[c] = "digest" THEN "jobs"
  ELSE IF doing[c] = "jobs" THEN AfterJobs(c) ELSE "releasing"

StageEnds(c) ==
  /\ doing[c] \in Running
  /\ Goto(c, NextStage(c))
  /\ started' = [started EXCEPT ![c] = @ \cup ({NextStage(c)} \cap Stages)]
  /\ UNCHANGED <<asked, lock, gone, aborted, answer>>

\* A stage throws.
AfterError(c) == "failing"

StageFails(c) ==
  /\ doing[c] \in Running
  /\ Goto(c, AfterError(c))
  /\ UNCHANGED <<asked, lock, gone, aborted, started, answer>>

\* RELEASE_LOCK answered 1: the connection goes back to the pool.
Release(c) ==
  /\ doing[c] \in {"releasing", "failing"}
  /\ c \notin gone
  /\ lock' = Nobody
  /\ Goto(c, "done")
  /\ Answer(c, IF doing[c] = "releasing" THEN 202 ELSE 503)
  /\ UNCHANGED <<asked, gone, aborted, started>>

\* RELEASE_LOCK failed or its connection is gone: it is destroyed, and the call
\* fails even if its work was done.
ReleaseFails(c) ==
  /\ doing[c] \in {"releasing", "failing"}
  /\ Goto(c, "done")
  /\ DestroyConnection(c)
  /\ Answer(c, 503)
  /\ UNCHANGED <<asked, lock, aborted, started>>

\* dispatchWithinDeadline's timer: the caller is answered, the work goes on.
Deadline(c) ==
  /\ doing[c] \in Dispatching
  /\ c \notin aborted
  /\ aborted' = aborted \cup {c}
  /\ Answer(c, 503)
  /\ UNCHANGED <<asked, doing, lock, gone, started>>

\* The connection that holds the lock breaks, the work goes on.
LoseConnection(c) ==
  /\ lock = c
  /\ c \notin gone
  /\ gone' = gone \cup {c}
  /\ UNCHANGED <<asked, doing, lock, aborted, started, answer>>

\* The server notices that the connection is gone and frees its lock.
ServerFrees(c) ==
  /\ lock = c
  /\ c \in gone
  /\ lock' = Nobody
  /\ UNCHANGED <<asked, doing, gone, aborted, started, answer>>

\* The process stops: its caller is not answered.
Crash(c) ==
  /\ doing[c] \notin {"idle", "done"}
  /\ Goto(c, "done")
  /\ gone' = gone \cup {c}
  /\ UNCHANGED <<asked, lock, aborted, started, answer>>

Ask(c) ==
  \/ SeeNoRow(c) \/ GateAhead(c) \/ Suppress(c) \/ Update(c) \/ Insert(c)
  \/ Duplicate(c) \/ GateFails(c)

Dispatch(c) ==
  \/ ConnectFails(c) \/ Connect(c) \/ LockBusy(c) \/ GetLock(c) \/ LockFails(c)
  \/ StageEnds(c) \/ StageFails(c) \/ Release(c) \/ ReleaseFails(c)

CronNext ==
  \/ TimePasses
  \/ \E c \in Calls :
       \/ ReadClock(c) \/ Ask(c) \/ Dispatch(c)
       \/ Deadline(c) \/ LoseConnection(c) \/ ServerFrees(c) \/ Crash(c)

CronSpec == CronInit /\ [][CronNext]_cronVars

\* Every query has a timeout, every stage a bounded batch, and the server drops
\* what a vanished connection held.
CronFairness ==
  \A c \in Calls :
    WF_cronVars(Ask(c)) /\ WF_cronVars(Dispatch(c)) /\ WF_cronVars(ServerFrees(c))

CronFairSpec == CronSpec /\ CronFairness

-----------------------------------------------------------------------------
(* What the endpoint promises.                                             *)

CronTypeOK ==
  /\ instant \in Nat
  /\ gate \in {Missing} \cup {Active(t) : t \in 0..instant}
  /\ doing \in [Calls -> {"idle", "asking", "inserting", "done"} \cup Dispatching]
  /\ readAt \in [Calls -> 0..instant]
  /\ gateResult \in [Calls -> {"none", "ahead", "suppressed", "permit",
                               "unknown", "failed"}]
  /\ lock \in Calls \cup {Nobody}
  /\ gone \in SUBSET Calls
  /\ aborted \in SUBSET Calls
  /\ started \in [Calls -> SUBSET Stages]
  /\ answer \in [Calls -> {0, 202, 503}]

Used(c) == gateResult[c] \in {"permit", "unknown"}

\* The instants of any two permits, known or lost with the commit's answer, are
\* at least the interval apart, whatever calls race for the first row and
\* however late a call reaches the gate after reading its clock.
PermitsSpaced ==
  \A c, d \in Calls :
    c # d /\ Used(c) /\ Used(d) =>
      readAt[d] >= readAt[c] + Interval \/ readAt[c] >= readAt[d] + Interval

\* Two calls dispatch at once only if one has lost the connection that held the
\* lock for it.
DispatcherAlone ==
  \A c, d \in Calls :
    c # d /\ doing[c] \in Running /\ doing[d] \in Running => c \in gone \/ d \in gone

\* 202 tells the scheduler that the call was suppressed, that another call was
\* dispatching, or that every stage was begun before the deadline: no failure
\* is answered with 202.
AcceptedForAReason ==
  \A c \in Calls : answer[c] = 202 =>
    \/ gateResult[c] = "suppressed"
    \/ gateResult[c] = "permit" /\ started[c] \in {{}, Stages} /\ c \notin aborted

\* What holds of the endpoint between any two steps of its calls.
EndpointSound == CronTypeOK /\ DispatcherAlone /\ AcceptedForAReason

\* Once the deadline has passed no call claims outbox events.
NoOutboxAfterDeadline ==
  [][\A c \in Calls :
       c \in aborted => "outbox" \notin started'[c] \ started[c]]_cronVars

\* The advisory lock never stays with a call that has ended, even by a crash.
LockFreed == \A c \in Calls : lock = c ~> lock # c
=============================================================================
