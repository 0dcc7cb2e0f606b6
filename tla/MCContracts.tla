------------------------------ MODULE MCContracts ------------------------------
(* A small instance of Contracts for TLC.                                  *)
EXTENDS Contracts, TLC

Symmetry == Permutations(Workers) \cup Permutations(Projects) \cup Permutations(ContractIds)

\* One behaviour at a time moves the terms of two contracts while links go and come,
\* archives what they belong to, plans and makes visits, or bills.
ContractScenes == {{"several", "terms", "statuses", "links"},
                   {"several", "statuses", "projects", "archive"},
                   {"statuses", "customers", "archive", "bills"},
                   {"terms", "visits"},
                   {"visits", "tasks"},
                   {"bills", "links"}}
=============================================================================
