--------------------------- MODULE OutboxDelivery ---------------------------
(***************************************************************************)
(* The transactional outbox of src/platform/outbox and its only adapter,   *)
(* e-mail through Resend (src/platform/email): events are claimed under a  *)
(* lease, handed to a provider outside any transaction, and finalised      *)
(* under the same lease.                                                   *)
(*                                                                         *)
(* Two kinds of dispatchers run at once: the cron endpoint, a bounded      *)
(* batch at a time, and a dispatch of one event after a request that wrote *)
(* one (immediate-dispatch.ts), which takes neither the cron gate nor the  *)
(* advisory lock.                                                          *)
(*                                                                         *)
(* The provider is external: it gets the event's idempotency key with      *)
(* every request and keeps at most one message per key, and its answer may *)
(* be lost.  Time saturates at Horizon, where every lease and delay counts *)
(* as elapsed.                                                             *)
(***************************************************************************)
EXTENDS Naturals, FiniteSets

CONSTANTS
  Events,        \* event ids, numbers because the claim query orders by id
  Crons,         \* dispatchers of the cron endpoint
  Requests,      \* dispatchers that follow a write request
  AttemptCap,    \* the largest max_attempts
  Granted,       \* the max_attempts each event is written with (5 for e-mail)
  CronBatch,     \* MAX_OUTBOX_DELIVERIES_PER_DISPATCH
  Lease,         \* leaseDurationMs
  Delay,         \* the backoff delay
  Horizon        \* the last instant

ASSUME EventsAssumption == Events \subseteq Nat
ASSUME CapAssumption == AttemptCap \in Nat \ {0}
ASSUME GrantedAssumption == Granted \in [Events -> 1..AttemptCap]
ASSUME HorizonAssumption == Horizon \in Nat

VARIABLES
  now,           \* the clock every process reads
  event,         \* the outbox_event rows
  lastToken,     \* lease tokens handed out; <<token, event>> stands for a UUID
  enabled,       \* EMAIL_NOTIFICATIONS_ENABLED
  active,        \* is the recipient an active owner account?
  pc,            \* what each dispatcher is doing
  at,            \* while claiming: the instant it read beforehand, else 0
  tries,         \* while claiming: which try it is at, else 0
  batch,         \* the claims it still has to deliver
  requests       \* requests with the event's key that reached the provider

vars == <<now, event, lastToken, enabled, active, pc, at, tries, batch,
          requests>>
queue == <<event, lastToken, pc, at, tries, batch>>

Dispatchers == Crons \cup Requests
BatchSize(w) == IF w \in Crons THEN CronBatch ELSE 1

Statuses == {"absent", "pending", "retry", "leased", "delivered", "dead_letter"}
Attempts == 1..AttemptCap
Rows == [status : Statuses, avail : 0..Horizon, attempts : 0..AttemptCap,
         max : 0..AttemptCap, token : Nat, expires : 0..Horizon]
Claims == [event : Events, attempt : Attempts, token : Nat, due : 0..Horizon]

NoRow == [status |-> "absent", avail |-> 0, attempts |-> 0, max |-> 0,
          token |-> 0, expires |-> 0]

Init ==
  /\ now = 0
  /\ event = [e \in Events |-> NoRow]
  /\ lastToken = 0
  /\ enabled \in BOOLEAN
  /\ active \in BOOLEAN
  /\ pc = [w \in Dispatchers |-> "idle"]
  /\ at = [w \in Dispatchers |-> 0]
  /\ tries = [w \in Dispatchers |-> 0]
  /\ batch = [w \in Dispatchers |-> {}]
  /\ requests = [e \in Events |-> 0]

Later(t, d) == IF t + d \in 0..Horizon THEN t + d ELSE Horizon

Tick ==
  /\ now < Horizon
  /\ now' = now + 1
  /\ UNCHANGED <<queue, requests, enabled, active>>

\* A deployment turns e-mail on or off.
Configure ==
  /\ enabled' = ~enabled
  /\ UNCHANGED <<now, queue, requests, active>>

\* The recipient's account is deactivated or activated.
ChangeRecipient ==
  /\ active' = ~active
  /\ UNCHANGED <<now, queue, requests, enabled>>

-----------------------------------------------------------------------------
(* enqueueOutboxEvent, inside the transaction of the business write.  A key *)
(* that exists already changes nothing.                                    *)

Enqueue(e) ==
  /\ event' = [event EXCEPT ![e] =
       IF @.status = "absent"
       THEN [status |-> "pending", avail |-> now, attempts |-> 0,
             max |-> Granted[e], token |-> 0, expires |-> 0]
       ELSE @]
  /\ UNCHANGED <<now, lastToken, pc, at, tries, batch, requests, enabled, active>>

-----------------------------------------------------------------------------
(* claimOutboxEvents.                                                      *)

Expired(e, t) == event[e].status = "leased" /\ event[e].expires <= t

Ready(e, t) == event[e].status \in {"pending", "retry"} /\ event[e].avail <= t

Claimable(t) ==
  {e \in Events : event[e].attempts < event[e].max /\ (Ready(e, t) \/ Expired(e, t))}

Exhausted(t) ==
  {e \in Events : Expired(e, t) /\ event[e].attempts >= event[e].max}

Due(e) == IF event[e].status = "leased" THEN event[e].expires ELSE event[e].avail

\* ORDER BY due, id LIMIT n.
FirstDue(S, n) ==
  {e \in S : Cardinality({f \in S : \/ Due(f) < Due(e)
                                    \/ Due(f) = Due(e) /\ f < e}) < n}

\* Mutant: reclaiming an expired lease does not count as an attempt.
AttemptNoFree(e) ==
  IF event[e].status = "leased" THEN event[e].attempts ELSE event[e].attempts + 1
AttemptNo(e) == event[e].attempts + 1

ClaimedRow(e, t) ==
  [status |-> "leased", avail |-> event[e].avail, attempts |-> AttemptNo(e),
   max |-> event[e].max, token |-> lastToken + 1, expires |-> Later(t, Lease)]

ReleasedRow(e, status, avail) ==
  [status |-> status, avail |-> avail, attempts |-> event[e].attempts,
   max |-> event[e].max, token |-> 0, expires |-> 0]

\* The clock is read before the transaction.  After a request, a dispatch is
\* only made when e-mail is on.
Start(w) ==
  /\ pc[w] = "idle"
  /\ w \in Crons \/ enabled
  /\ pc' = [pc EXCEPT ![w] = "claiming"]
  /\ at' = [at EXCEPT ![w] = now]
  /\ tries' = [tries EXCEPT ![w] = 1]
  /\ UNCHANGED <<now, event, lastToken, batch, requests, enabled, active>>

\* The sweep has a LIMIT but no ORDER BY: which expired rows it buries is open.
ClaimTxn(w) ==
  LET claimed == FirstDue(Claimable(at[w]), BatchSize(w)) IN
  /\ pc[w] = "claiming"
  /\ \E buried \in SUBSET Exhausted(at[w]) :
       /\ Cardinality(buried) <= BatchSize(w)
       /\ buried # Exhausted(at[w]) => Cardinality(buried) = BatchSize(w)
       /\ event' = [e \in Events |->
                      IF e \in claimed THEN ClaimedRow(e, at[w])
                      ELSE IF e \in buried
                           THEN ReleasedRow(e, "dead_letter", event[e].avail)
                           ELSE event[e]]
  /\ lastToken' = IF claimed = {} THEN lastToken ELSE lastToken + 1
  /\ batch' = [batch EXCEPT ![w] =
                 {[event |-> e, attempt |-> AttemptNo(e),
                   token |-> lastToken + 1, due |-> Due(e)] : e \in claimed}]
  /\ pc' = [pc EXCEPT ![w] = IF claimed = {} THEN "idle" ELSE "running"]
  /\ at' = [at EXCEPT ![w] = 0]
  /\ tries' = [tries EXCEPT ![w] = 0]
  /\ UNCHANGED <<now, requests, enabled, active>>

\* Deadlock victim: up to three tries, each with a clock of its own.
ClaimDeadlock(w) ==
  /\ pc[w] = "claiming"
  /\ tries[w] < 3
  /\ tries' = [tries EXCEPT ![w] = @ + 1]
  /\ at' = [at EXCEPT ![w] = now]
  /\ UNCHANGED <<now, event, lastToken, pc, batch, requests, enabled, active>>

-----------------------------------------------------------------------------
(* deliverClaimedEvent and the e-mail adapter's deliver.                   *)

IsNext(w, c) ==
  /\ c \in batch[w]
  /\ \A d \in batch[w] : \/ c.due < d.due
                         \/ c.due = d.due /\ c.event <= d.event

Proceed(w, step) ==
  /\ pc' = [pc EXCEPT ![w] = step]
  /\ UNCHANGED <<now, event, lastToken, at, tries, batch, enabled, active>>

\* No adapter for the event type, a payload that does not parse, or a
\* recipient query that failed.
DeliverFails(w) ==
  /\ pc[w] = "running"
  /\ Proceed(w, "failing")
  /\ UNCHANGED requests

\* E-mail is off, or the recipient is no longer an active owner: the adapter
\* returns as if it had delivered.
DeliverNothing(w) ==
  /\ pc[w] = "running"
  /\ ~enabled \/ ~active
  /\ Proceed(w, "answered")
  /\ UNCHANGED requests

\* The configuration and the recipient are read, then the request is made.
FindRecipient(w) ==
  /\ pc[w] = "running"
  /\ enabled /\ active
  /\ Proceed(w, "sending")
  /\ UNCHANGED requests

\* The provider accepts the message; the answer may be lost to the one-second
\* timeout, the deadline's abort or the network.
SendAccepted(w) ==
  /\ pc[w] = "sending"
  /\ \E c \in batch[w] :
       /\ IsNext(w, c)
       /\ requests' = [requests EXCEPT ![c.event] = @ + 1]
  /\ Proceed(w, "answered") \/ Proceed(w, "failing")

\* The provider refuses the request, or it never gets there.
SendRefused(w) ==
  /\ pc[w] = "sending"
  /\ Proceed(w, "failing")
  /\ \/ \E c \in batch[w] :
          IsNext(w, c) /\ requests' = [requests EXCEPT ![c.event] = @ + 1]
     \/ UNCHANGED requests

\* lockedOutboxLease.  Mutant: a fence that trusts the attempt.
FencedByAttempt(c) == event[c.event].attempts = c.attempt
HoldsLease(c) ==
  /\ event[c.event].status = "leased"
  /\ event[c.event].token = c.token
  /\ event[c.event].attempts = c.attempt

Drop(w, c) ==
  /\ batch' = [batch EXCEPT ![w] = @ \ {c}]
  /\ pc' = [pc EXCEPT ![w] = IF batch[w] = {c} THEN "idle" ELSE "running"]

Settle(w, c, status, avail) ==
  /\ IsNext(w, c)
  /\ Drop(w, c)
  /\ event' = IF HoldsLease(c)
              THEN [event EXCEPT ![c.event] = ReleasedRow(c.event, status, avail)]
              ELSE event
  /\ UNCHANGED <<now, lastToken, at, tries, requests, enabled, active>>

Complete(w) ==
  /\ pc[w] = "answered"
  /\ \E c \in batch[w] : Settle(w, c, "delivered", event[c.event].avail)

\* Mutant: one attempt too many.
FailureStatusLate(c) ==
  IF c.attempt > event[c.event].max THEN "dead_letter" ELSE "retry"
FailureStatus(c) ==
  IF c.attempt >= event[c.event].max THEN "dead_letter" ELSE "retry"

RecordFailure(w) ==
  /\ pc[w] = "failing"
  /\ \E c \in batch[w] :
       Settle(w, c, FailureStatus(c),
              IF FailureStatus(c) = "retry" THEN Later(now, Delay) ELSE now)

\* The deadline aborted the batch, a transaction failed, or the process died.
Stop(w) ==
  /\ pc[w] # "idle"
  /\ pc' = [pc EXCEPT ![w] = "idle"]
  /\ batch' = [batch EXCEPT ![w] = {}]
  /\ at' = [at EXCEPT ![w] = 0]
  /\ tries' = [tries EXCEPT ![w] = 0]
  /\ UNCHANGED <<now, event, lastToken, requests, enabled, active>>

Deliver(w) ==
  \/ DeliverFails(w) \/ DeliverNothing(w) \/ FindRecipient(w)
  \/ SendAccepted(w) \/ SendRefused(w) \/ Complete(w) \/ RecordFailure(w)

Next ==
  \/ Tick \/ Configure \/ ChangeRecipient
  \/ \E e \in Events : Enqueue(e)
  \/ \E w \in Dispatchers :
       Start(w) \/ ClaimTxn(w) \/ ClaimDeadlock(w) \/ Deliver(w) \/ Stop(w)

Spec == Init /\ [][Next]_vars

\* The cron schedule keeps starting dispatches, and a claim transaction that is
\* tried again and again is not refused for ever.  Nothing is assumed of the
\* provider, nor of dispatches that follow a request.
Fairness ==
  /\ WF_vars(Tick)
  /\ \A w \in Crons :
       WF_vars(Start(w)) /\ SF_vars(ClaimTxn(w)) /\ WF_vars(Deliver(w))

FairSpec == Spec /\ Fairness

-----------------------------------------------------------------------------
(* What the outbox promises.                                               *)

TypeOK ==
  /\ now \in 0..Horizon
  /\ event \in [Events -> Rows]
  /\ lastToken \in Nat
  /\ enabled \in BOOLEAN
  /\ active \in BOOLEAN
  /\ pc \in [Dispatchers -> {"idle", "claiming", "running", "sending",
                             "answered", "failing"}]
  /\ at \in [Dispatchers -> 0..Horizon]
  /\ tries \in [Dispatchers -> 0..3]
  /\ batch \in [Dispatchers -> SUBSET Claims]
  /\ requests \in [Events -> Nat]

\* Every request to the provider is charged to an attempt: however many leases
\* expire and late holders go on sending, an event never costs more requests
\* than the attempts it was granted.
RequestsCharged ==
  \A e \in Events : requests[e] <= event[e].attempts /\ event[e].attempts <= event[e].max

\* At most one dispatcher can still write to a leased event.
OneHolder ==
  \A v, w \in Dispatchers : \A c \in batch[v], d \in batch[w] :
    c.event = d.event /\ HoldsLease(c) /\ HoldsLease(d) => v = w

\* What the tables say of every dispatcher's work in every state.
DeliverySound == TypeOK /\ RequestsCharged /\ OneHolder

\* delivered and dead_letter are final, also for a holder that comes late.
FinalIsFinal ==
  [][\A e \in Events :
       event[e].status \in {"delivered", "dead_letter"} => event'[e] = event[e]]_vars

\* No attempt starts before the backoff of the last one, or its lease, is over,
\* not even by a dispatcher that read its clock long before.
NoEarlyAttempt ==
  [][\A e \in Events :
       event'[e].attempts # event[e].attempts => Due(e) <= now]_vars

\* A row moves only when it may: final rows never, others not before their time.
EventsKeepTime == FinalIsFinal /\ NoEarlyAttempt

\* Every event is delivered or ends as dead_letter, whatever the provider does
\* and whichever dispatchers stop.
EventuallySettled ==
  \A e \in Events : event[e].status = "pending" ~>
                      event[e].status \in {"delivered", "dead_letter"}
=============================================================================
