---------------------------- MODULE JobContract ----------------------------
(***************************************************************************)
(* What the job table promises to whoever enqueues a job, with no mention  *)
(* of workers, leases, clocks or the attempt history.                      *)
(*                                                                         *)
(* A job is open until it is done or buried.  Its effect (the rows written *)
(* by its handler, the audit record and the outbox record) is committed in *)
(* the very step that makes it done.  It is buried only once every attempt *)
(* it was granted has been used.                                           *)
(***************************************************************************)
EXTENDS Naturals

CONSTANTS
  Jobs,         \* the jobs that may be enqueued
  AttemptCap    \* the largest number of attempts a job may be granted

VARIABLES
  phase,        \* absent, open, done or buried
  granted,      \* attempts granted when the job was enqueued
  used,         \* attempts used so far
  effects       \* how many times the effect of the job has been committed

cvars == <<phase, granted, used, effects>>

CInit ==
  /\ phase = [j \in Jobs |-> "absent"]
  /\ granted = [j \in Jobs |-> 0]
  /\ used = [j \in Jobs |-> 0]
  /\ effects = [j \in Jobs |-> 0]

Submit(j) ==
  /\ phase[j] = "absent"
  /\ phase' = [phase EXCEPT ![j] = "open"]
  /\ \E n \in 1..AttemptCap : granted' = [granted EXCEPT ![j] = n]
  /\ UNCHANGED <<used, effects>>

\* One dispatch starts an attempt of every job in S and buries every job in D.
Dispatch(S, D) ==
  /\ \A j \in S : phase[j] = "open" /\ used[j] < granted[j]
  /\ \A j \in D : phase[j] = "open" /\ used[j] = granted[j]
  /\ used' = [j \in Jobs |-> IF j \in S THEN used[j] + 1 ELSE used[j]]
  /\ phase' = [j \in Jobs |-> IF j \in D THEN "buried" ELSE phase[j]]
  /\ UNCHANGED <<granted, effects>>

Finish(j) ==
  /\ phase[j] = "open"
  /\ used[j] > 0
  /\ phase' = [phase EXCEPT ![j] = "done"]
  /\ effects' = [effects EXCEPT ![j] = @ + 1]
  /\ UNCHANGED <<granted, used>>

Bury(j) ==
  /\ phase[j] = "open"
  /\ used[j] = granted[j]
  /\ phase' = [phase EXCEPT ![j] = "buried"]
  /\ UNCHANGED <<granted, used, effects>>

CNext ==
  \/ \E j \in Jobs : Submit(j) \/ Finish(j) \/ Bury(j)
  \/ \E S, D \in SUBSET Jobs : Dispatch(S, D)

CSpec == CInit /\ [][CNext]_cvars
=============================================================================
