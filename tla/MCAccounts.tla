------------------------------ MODULE MCAccounts ------------------------------
(* A small instance of Accounts and the login throttle for TLC.            *)
EXTENDS Accounts, TLC

Symmetry == Permutations(Attempts) \cup Permutations(Accounts) \cup Permutations(Networks) \cup Permutations(Workers)

\* A behaviour is about the throttle, with credentials that are right or wrong as
\* they please, or about accounts.
Scenes == {"throttle", "accounts"}
=============================================================================
