------------------------------- MODULE Transfer -------------------------------
(***************************************************************************)
(* The intake of ByPusula analyses, src/features/bypusula, on top of the   *)
(* customers, projects and tasks it writes to.                             *)
(*                                                                         *)
(* An analysis is delivered any number of times.  Somebody maps it to a    *)
(* customer and one of its projects, and every step becomes a task, either *)
(* by imports of selected steps or by the automatic sender, which delivers *)
(* again until all steps are there.  An import is a transaction for the    *)
(* mapping and one for each step; it may stop between any two of them.     *)
(* A delivery or a command made for other contents than the first delivery *)
(* brought is refused by its digest, so there is one snapshot.             *)
(***************************************************************************)
EXTENDS Portfolio

CONSTANTS
  Steps,         \* the steps of the analysis: 1..n
  Batch          \* how many of them the automatic sender asks for at once

ASSUME StepsAssumption == Steps \subseteq Nat /\ Batch \in Nat \ {0}

VARIABLES
  analysis,      \* bypusula_analysis
  links,         \* bypusula_task_link, with the mapping its task was made for
  pending,       \* what a transaction will have written to analysis and links
  plan           \* the import a worker is at

intake == <<analysis, links>>
transferVars == <<portfolioVars, analysis, links, pending, plan>>

NoMapping == <<None, None>>
Mappings == Customers \X Projects
NoAnalysis == [received |-> FALSE, requested |-> FALSE, mapping |-> NoMapping,
               approved |-> FALSE]
NoPlan == [phase |-> "none", mapping |-> NoMapping, steps |-> {}]
NoChange == [analysis |-> NoAnalysis, links |-> {}, on |-> FALSE]

TransferInit ==
  /\ Init
  /\ analysis = NoAnalysis
  /\ links = {}
  /\ pending = [w \in Workers |-> NoChange]
  /\ plan = [w \in Workers |-> NoPlan]

-----------------------------------------------------------------------------

\* Mutant: the analysis is read without FOR UPDATE.
UnlockedAnalysis == {}
AnalysisLock == {<<"analysis">>}

\* validMapping: active throughout, and locked.
ValidMapping(m) ==
  /\ m # NoMapping
  /\ customer[m[1]].status = "active" /\ ~customer[m[1]].archived
  /\ link[m] = "active"
  /\ project[m[2]].status = "active" /\ ~project[m[2]].archived
MappingLocks(m) == CustomerLock(m[1]) \cup PairLocks(m[1], m[2])

\* resolveMapping: the saved mapping, while it is a candidate.
ResolvedMapping == IF ValidMapping(analysis.mapping) THEN analysis.mapping ELSE NoMapping

Linked == {l.step : l \in links}

\* An analysis with an approved mapping, or with tasks, keeps its mapping.
MayMap(m) == m # analysis.mapping => ~analysis.approved /\ links = {}

Write(w, a, ls) == pending' = [pending EXCEPT ![w] = [analysis |-> a, links |-> ls, on |-> TRUE]]

ReceiveTransfer(w, automatic) ==
  /\ Begin(w, AnalysisLock, Nothing)
  /\ Write(w, [analysis EXCEPT !.received = TRUE, !.requested = @ \/ automatic], links)
  /\ UNCHANGED <<intake, plan>>

ApproveAutomaticTransfer(w, m) ==
  /\ analysis.received /\ analysis.requested /\ ~analysis.approved
  /\ ValidMapping(m)
  /\ MayMap(m)
  /\ Begin(w, AnalysisLock \cup MappingLocks(m), Nothing)
  /\ Write(w, [analysis EXCEPT !.mapping = m, !.approved = TRUE], links)
  /\ UNCHANGED <<intake, plan>>

\* A user's command, or what advanceAutomaticTransfer read with openTransfer.
ImportCommand(w, m, steps) ==
  /\ analysis.received
  /\ plan' = [plan EXCEPT ![w] = [phase |-> "map", mapping |-> m, steps |-> steps]]
  /\ UNCHANGED <<portfolioVars, intake, pending>>

FirstOf(S, n) == {s \in S : Cardinality({u \in S : u < s}) < n}

AdvanceAutomaticTransfer(w) ==
  /\ analysis.requested /\ analysis.approved
  /\ Steps \ Linked # {}
  /\ ResolvedMapping # NoMapping
  /\ ImportCommand(w, ResolvedMapping, FirstOf(Steps \ Linked, Batch))

\* importTransfer saves the mapping first.
ImportMapping(w) ==
  LET m == plan[w].mapping IN
  /\ plan[w].phase = "map" /\ ~tx[w].on
  /\ IF ValidMapping(m) /\ MayMap(m)
     THEN /\ Begin(w, AnalysisLock \cup MappingLocks(m), Nothing)
          /\ Write(w, [analysis EXCEPT !.mapping = m], links)
          /\ UNCHANGED <<intake, plan>>
     ELSE /\ plan' = [plan EXCEPT ![w] = NoPlan]
          /\ UNCHANGED <<portfolioVars, intake, pending>>

NextStep(w) == CHOOSE s \in plan[w].steps : \A u \in plan[w].steps : s <= u
After(w) ==
  [plan EXCEPT ![w] = IF Cardinality(plan[w].steps) = 1 THEN NoPlan
                      ELSE [plan[w] EXCEPT !.steps = plan[w].steps \ {NextStep(w)}]]

StillMapped(m) == analysis.mapping = m

\* Each step in a transaction of its own: nothing if it has a task already.
ImportStep(w) ==
  LET m == plan[w].mapping
      s == NextStep(w) IN
  /\ plan[w].phase = "steps"
  /\ StillMapped(m) /\ s \notin Linked /\ ValidMapping(m)
  /\ CreateTaskInTransaction(w, m[1], m[2], "open", 0, AnalysisLock \cup MappingLocks(m))
  /\ Write(w, analysis, links \cup {[step |-> s, task |-> NewId, mapping |-> m]})
  /\ UNCHANGED <<intake, plan>>

\* The step is there already, or the mapping is no longer what it was.
SkipStep(w) ==
  LET m == plan[w].mapping IN
  /\ plan[w].phase = "steps" /\ ~tx[w].on
  /\ ~StillMapped(m) \/ NextStep(w) \in Linked \/ ~ValidMapping(m)
  /\ plan' = After(w)
  /\ UNCHANGED <<portfolioVars, intake, pending>>

\* The end of a transaction, committed or rolled back: a failed mapping ends the
\* import, a failed step does not.
EndOf(w, committed) ==
  /\ pending' = [pending EXCEPT ![w] = NoChange]
  /\ plan' = IF plan[w].phase = "steps" THEN After(w)
             ELSE IF plan[w].phase = "map" /\ committed
                  THEN [plan EXCEPT ![w].phase = "steps"]
                  ELSE [plan EXCEPT ![w] = NoPlan]

TransferCommit(w) ==
  /\ Commit(w)
  /\ analysis' = IF pending[w].on THEN pending[w].analysis ELSE analysis
  /\ links' = IF pending[w].on THEN pending[w].links ELSE links
  /\ EndOf(w, TRUE)

TransferFail(w) == Fail(w) /\ EndOf(w, FALSE) /\ UNCHANGED intake

\* The process stops: an open transaction is rolled back, the import forgotten.
Stop(w) ==
  /\ plan[w] # NoPlan
  /\ tx' = [tx EXCEPT ![w] = Idle]
  /\ pending' = [pending EXCEPT ![w] = NoChange]
  /\ plan' = [plan EXCEPT ![w] = NoPlan]
  /\ UNCHANGED <<tables, asks, intake>>

-----------------------------------------------------------------------------

\* POST /api/integrations/bypusula and /sync.
IntegrationApi(w) ==
  /\ "transfer" \in asks
  /\ \/ ReceiveTransfer(w, FALSE)
     \/ \E m \in Mappings : ApproveAutomaticTransfer(w, m)
     \/ \E m \in Mappings, steps \in (SUBSET Steps) \ {{}} :
          ~tx[w].on /\ ImportCommand(w, m, steps)

SyncApi(w) ==
  /\ "transfer" \in asks
  /\ \/ ReceiveTransfer(w, TRUE)
     \/ ~tx[w].on /\ AdvanceAutomaticTransfer(w)

TransferStep(w) ==
  \/ plan[w] = NoPlan /\ Request(w) /\ UNCHANGED <<intake, pending, plan>>
  \/ plan[w] = NoPlan /\ (IntegrationApi(w) \/ SyncApi(w))
  \/ ImportMapping(w) \/ ImportStep(w) \/ SkipStep(w)
  \/ TransferCommit(w) \/ TransferFail(w) \/ Stop(w)

TransferNext == \E w \in Workers : TransferStep(w)

TransferSpec == TransferInit /\ [][TransferNext]_transferVars

-----------------------------------------------------------------------------

\* The rows of the database are of their types; a step is linked at most once, to
\* a task of its own.
TypeOK ==
  /\ PortfolioTypeOK
  /\ analysis \in [received : BOOLEAN, requested : BOOLEAN, approved : BOOLEAN,
                   mapping : Mappings \cup {NoMapping}]
  /\ links \subseteq [step : Steps, task : Tasks, mapping : Mappings]
  /\ \A l, m \in links : l.step = m.step \/ l.task = m.task => l = m
  /\ \A l \in links : task[l.task] # NoTask

\* However imports, approvals and deliveries overlap, all tasks of an analysis were
\* made for one customer and one project, those it is mapped to.
OneMapping == \A l \in links : l.mapping = analysis.mapping

\* Once it is approved or has a task, the mapping of an analysis never changes, and
\* neither an approval nor a link is ever lost.
MappingKept ==
  [][/\ analysis.approved \/ links # {} => analysis'.mapping = analysis.mapping
     /\ analysis.approved => analysis'.approved
     /\ analysis.requested => analysis'.requested
     /\ links \subseteq links']_transferVars

\* What customers, projects, tasks and transfers say together in every state.
PortfolioSound == TypeOK /\ RequestedWorkLinked /\ OneMapping
=============================================================================
