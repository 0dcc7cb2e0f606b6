---------------------------- MODULE MCWorkspaces ----------------------------
(* Instances of Workspaces for TLC: Screens is every screen of the user    *)
(* interface; Finance narrows the run of the finding to the one screen it   *)
(* is about.  Calls, texts and filters are interchangeable.                 *)
EXTENDS Workspaces, TLC

Symmetry == Permutations(Calls) \cup Permutations(Texts) \cup Permutations(Filters)
Screens == {"expenses", "cards", "payments", "finance", "accounts", "tax", "partnership",
            "categories", "movements", "receipts", "users", "useraccess", "profile",
            "monthplan", "settings", "lifecycle", "reversals", "plan", "visittasks",
            "projects", "contracts", "tasks", "customers", "cashflow", "projectfinance",
            "taskreport"}

Finance == {"finance"}
=============================================================================
