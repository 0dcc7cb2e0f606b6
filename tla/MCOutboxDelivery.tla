-------------------------- MODULE MCOutboxDelivery --------------------------
(* A small instance of OutboxDelivery for TLC: an event of two attempts and *)
(* one of a single attempt, under a cron dispatcher that takes one event    *)
(* per call and a dispatcher that follows a request.                        *)
EXTENDS OutboxDelivery

TwoEvents == 1..2
Grants == [e \in TwoEvents |-> IF e = 1 THEN 2 ELSE 1]
=============================================================================
