----------------------------- MODULE MCPortfolio -----------------------------
(* Small instances of Portfolio and Transfer for TLC.                      *)
EXTENDS Transfer, TLC

Symmetry == Permutations(Workers) \cup Permutations(Projects)

\* One behaviour at a time asks for links and series of tasks, for the archiving of
\* customers, for that of projects, or for transfers.
FourScenes == {{"links", "tasks", "series"},
        {"customers", "archive", "tasks", "loose"},
        {"projects", "archive", "tasks", "loose"},
        {"transfer", "links"}}
=============================================================================
