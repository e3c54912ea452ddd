------------------------------ MODULE RunState ------------------------------
(***************************************************************************)
(* The run record of a research run (run_state.json) and the pure          *)
(* functions that read and rewrite it: src/src/research_state.py,          *)
(* decisions.py, budget_control.py, objective_coverage.py and the repair   *)
(* commands of research_runtime.py.                                        *)
(*                                                                         *)
(* A record keeps what scheduling and the gates look at:                   *)
(*   status    the run's status                                            *)
(*   node      the status of every DAG node                                *)
(*   lease     what is left of a leased node's lease (0: expired or none)  *)
(*   open      the decisions that wait for a human                         *)
(*   blocked   the nodes named by a budget-block record                    *)
(*   selected  whether selected_question is set                            *)
(*   claims    the verdict the claim ledger supports                       *)
(*   coverage  the cached selected_objective_coverage is SUFFICIENT        *)
(*   snapshot  the upstream nodes that some entry of                       *)
(*             completion_coverage_repair_history shows COMPLETED          *)
(***************************************************************************)
EXTENDS Integers

CONSTANTS
  Node,           \* the ids of the run's DAG nodes
  Deps,           \* node -> the nodes it depends on
  LeaseTTL,       \* lease duration, in ticks
  MaxOpen         \* bound on the decisions open at the same time

QuestionDiscovery  == "question_discovery"
EvidenceDiscovery  == "evidence_discovery"
QuestionRefinement == "question_refinement"
SkillDiscovery     == "skill_discovery_creation"
ClaimAdjudication  == "claim_adjudication"
ResearchReadiness  == "research_readiness"

\* The nodes whose handler asks a model, and whose human answer is installed.
ModelNodes ==
  Node \cap {QuestionDiscovery, QuestionRefinement, "feasibility_analysis"}

\* The nodes that store a report at a fixed immutable path before completing.
ExecutionNodes == Node \cap {"research_execution", "replication"}

\* The nodes a coverage repair restores, and those it reopens.
Upstream ==
  Node \cap {QuestionDiscovery, EvidenceDiscovery, QuestionRefinement,
             "feasibility_analysis"}
Downstream ==
  Node \cap {"capability_gap_analysis", SkillDiscovery,
             "executable_artifact_dag", "research_execution",
             "independent_validation", "adversarial_falsification",
             "replication", ClaimAdjudication, ResearchReadiness}

(***************************************************************************)
(* The nodes that depend on n, directly or through others: what the        *)
(* traversal of mark_dependent_nodes_pending visits.  It is the least set  *)
(* that holds n's direct dependents and is closed under dependents.        *)
(***************************************************************************)
Dependents ==
  [n \in Node |->
     {m \in Node : \A S \in SUBSET Node :
        (\A k \in Node : n \in Deps[k] \/ Deps[k] \cap S # {} => k \in S)
          => m \in S}]

\* The DAG is built from the node ids of the default DAG (a sub-DAG of it).
ASSUME NodeAssumption ==
  /\ Node = Upstream \cup Downstream
  /\ EvidenceDiscovery \in Node
  /\ Deps \in [Node -> SUBSET Node]

\* No upstream node waits for a downstream one.
ASSUME UpstreamAssumption == \A n \in Upstream : Deps[n] \subseteq Upstream

\* What depends on a discovery node is a discovery node or lies behind
\* evidence_discovery, as in the default chain.
ASSUME DiscoveryAssumption ==
  \A n \in Node :
    /\ Deps[n] \cap {EvidenceDiscovery, QuestionRefinement} # {} =>
         n \in {QuestionRefinement} \cup Dependents[EvidenceDiscovery]
    /\ QuestionDiscovery \in Deps[n] =>
         n \in {EvidenceDiscovery, QuestionRefinement}
                 \cup Dependents[EvidenceDiscovery]

ASSUME BoundAssumption == LeaseTTL \in Nat \ {0} /\ MaxOpen \in Nat

-----------------------------------------------------------------------------
\* BLOCKED_OTHER stands for the six BLOCKED_* statuses that only differ in
\* wording: MISSING_LLM, EXTERNAL_RESOURCE, ENGINEERING_REQUIRED,
\* MISSING_EVIDENCE, INVALID_METHOD and REPLICATION_FAILURE.
StopStatus ==
  {"WAITING_FOR_HUMAN", "BLOCKED_BUDGET", "BLOCKED_OTHER", "FAILED"}
NodeStatus == {"PENDING", "LEASED", "COMPLETED"} \cup StopStatus
RunStatus  ==
  StopStatus \cup {"PLANNED_RESEARCH", "BLOCKED_RESEARCH_NOT_READY",
                   "PARTIAL_RESEARCH", "RESEARCH_COMPLETE"}

(***************************************************************************)
(* Why a decision was requested: no eligible local model (ROUTING), an     *)
(* exhausted or unsuccessful reasoning task (EXHAUSTED), one missing       *)
(* atomic judgment of question refinement (ATOMIC), or a skill that failed *)
(* its validation (SKILL).                                                 *)
(***************************************************************************)
Cause == {"ROUTING", "EXHAUSTED", "ATOMIC", "SKILL"}
Decision == [id : 1 .. MaxOpen, node : Node, cause : Cause]

\* blocked_nodes: a skill decision is created with an empty list.
BlockedNodes(d) == IF d.cause = "SKILL" THEN {} ELSE {d.node}

\* CONTESTED: a claim answers the objective, another fails the paper gate.
ClaimVerdict == {"NONE", "INDIRECT", "DIRECT", "CONTESTED"}

RunRecord ==
  [status : RunStatus, node : [Node -> NodeStatus], lease : [Node -> Nat],
   open : SUBSET Decision, blocked : SUBSET Node, selected : BOOLEAN,
   claims : ClaimVerdict, coverage : BOOLEAN, snapshot : SUBSET Upstream]

CreateRunState ==
  [status |-> "PLANNED_RESEARCH", node |-> [n \in Node |-> "PENDING"],
   lease |-> [n \in Node |-> 0], open |-> {}, blocked |-> {},
   selected |-> FALSE, claims |-> "NONE", coverage |-> FALSE, snapshot |-> {}]

-----------------------------------------------------------------------------
(* Scheduling: research_state.py *)

DependenciesSatisfied(s, n) == \A m \in Deps[n] : s.node[m] = "COMPLETED"

\* Mutant of ReadyNodes: dependencies are not looked at.
PendingNodes(s) == {n \in Node : s.node[n] = "PENDING"}

ReadyNodes(s) ==
  {n \in Node : s.node[n] = "PENDING" /\ DependenciesSatisfied(s, n)}

SetNode(s, n, st) == [s EXCEPT !.node[n] = st, !.lease[n] = 0]

SetNodes(s, N, st) ==
  [s EXCEPT !.node  = [n \in Node |-> IF n \in N THEN st ELSE @[n]],
            !.lease = [n \in Node |-> IF n \in N THEN 0 ELSE @[n]]]

\* Mutant of RecoverExpiredLeases: the status of the node is not looked at.
RecoverEveryNode(s) == SetNodes(s, {n \in Node : s.lease[n] = 0}, "PENDING")

\* Mutant of RecoverExpiredLeases: a lease never expires.
RecoverNoLease(s) == s

RecoverExpiredLeases(s) ==
  SetNodes(s, {n \in Node : s.node[n] = "LEASED" /\ s.lease[n] = 0}, "PENDING")

LeaseNode(s, n) ==
  [s EXCEPT !.node[n] = "LEASED", !.lease[n] = LeaseTTL]

\* One tick of the clock, as seen by the leases a record holds.
Elapse(s) ==
  [s EXCEPT !.lease = [n \in Node |-> IF @[n] > 0 THEN @[n] - 1 ELSE 0]]

AllCompleted(s) == \A n \in Node : s.node[n] = "COMPLETED"

CompleteNode(s, n) ==
  LET t == SetNode(s, n, "COMPLETED") IN
    IF ~ AllCompleted(t) THEN t
    ELSE [t EXCEPT !.status = IF s.coverage THEN "RESEARCH_COMPLETE"
                                            ELSE "PARTIAL_RESEARCH"]

\* Mutant of BlockNode: the node is queued again at once.
RequeueNode(s, n, st) == SetNode(s, n, "PENDING")

BlockNode(s, n, st) == [SetNode(s, n, st) EXCEPT !.status = st]

-----------------------------------------------------------------------------
(* Human decisions: decisions.py, submit_research_decision *)

\* The ids a new decision of the record may get: ids are random, all that
\* matters of one is that no open decision has it.
FreeIds(s) == (1 .. MaxOpen) \ {d.id : d \in s.open}

\* An open decision is added and its node put to wait.
RequestDecision(s, n, cause) ==
  LET d == [id |-> CHOOSE i \in FreeIds(s) : TRUE, node |-> n, cause |-> cause]
  IN [BlockNode(s, n, "WAITING_FOR_HUMAN") EXCEPT !.open = @ \cup {d}]

\* PLANNED_RESEARCH as soon as no decision is left open.
PlannedUnlessOpen(s) ==
  [s EXCEPT !.status = IF s.open = {} THEN "PLANNED_RESEARCH" ELSE @]

\* Mutant of Resolve: the status of the run is forgotten.
CloseDecision(s, d) == [s EXCEPT !.open = @ \ {d}]

Resolve(s, d) == PlannedUnlessOpen([s EXCEPT !.open = @ \ {d}])

\* Mutant of SubmitDecision: the nodes it blocks are not reopened.
SubmitWithoutReopening(s, d) == Resolve(s, d)

SubmitDecision(s, d) ==
  Resolve(SetNodes(s, {n \in BlockedNodes(d) :
                         s.node[n] = "WAITING_FOR_HUMAN"}, "PENDING"), d)

\* apply_human_response_for_node: only the model nodes have an installer.
ApplyHumanResponse(s, n) ==
  IF n \notin ModelNodes THEN s
  ELSE [CompleteNode(s, n) EXCEPT !.selected = @ \/ n = QuestionRefinement]

\* Option A with a valid structured response, for a decision with a bundle.
AnswerDecision(s, d) ==
  Resolve(IF d.cause = "ATOMIC" THEN SetNode(s, d.node, "PENDING")
                                ELSE ApplyHumanResponse(s, d.node), d)

\* invalidate_stale_local_routing_decisions, run when a supervisor starts.
StaleRoutingDecisions(s) ==
  {d \in s.open : d.cause = "ROUTING" /\ s.node[d.node] = "WAITING_FOR_HUMAN"}

InvalidateStaleRouting(s) ==
  LET stale == StaleRoutingDecisions(s)
      t == [SetNodes(s, {d.node : d \in stale}, "PENDING")
              EXCEPT !.open = @ \ stale]
  IN IF stale = {} THEN s ELSE PlannedUnlessOpen(t)

-----------------------------------------------------------------------------
(* Budget: budget_control.py *)

\* BudgetExceeded leaves a block record, a provider's 429 does not.
BudgetBlock(s, n, recorded) ==
  [BlockNode(s, n, "BLOCKED_BUDGET") EXCEPT
     !.blocked = IF recorded THEN @ \cup {n} ELSE @]

\* extend_budget when the new limit exceeds the usage.
ExtendBudget(s) ==
  LET reopened == {n \in s.blocked : s.node[n] = "BLOCKED_BUDGET"}
      t == SetNodes(s, reopened, "PENDING")
      remaining == \E n \in Node : t.node[n] = "BLOCKED_BUDGET"
  IN IF reopened # {} /\ s.status = "BLOCKED_BUDGET" /\ ~ remaining
       THEN [t EXCEPT !.status = "PLANNED_RESEARCH"] ELSE t

-----------------------------------------------------------------------------
(* Gates: objective_coverage.py, paper_gate.py, research_package.py *)

CoverageSufficient(s) == s.selected /\ s.claims \in {"DIRECT", "CONTESTED"}

\* Mutant of PaperReady: claims that fail the gate are ignored.
PaperReadyIgnoresClaims(s) ==
  s.coverage /\ \A n \in ExecutionNodes : s.node[n] = "COMPLETED"

PaperReady(s) ==
  /\ s.coverage
  /\ \A n \in ExecutionNodes : s.node[n] = "COMPLETED"
  /\ s.claims # "CONTESTED"

\* verify_research_run passes a run (given an intact package).
Verified(s) == s.open = {} /\ s.status = "RESEARCH_COMPLETE"

\* write_research_package: a package is written only when the gate is open,
\* and the gate is open only when the cached coverage is SUFFICIENT.
WritePackage(s) == [s EXCEPT !.status = "RESEARCH_COMPLETE"]

\* Mutant of RunReadiness: the node is blocked with the status of the package
\* report, as supervisor.py does with the run, which is no status of a node.
ReadinessTakesReportStatus(s) ==
  LET n == ResearchReadiness
      t == CompleteNode([s EXCEPT !.coverage = CoverageSufficient(s)], n)
  IN IF ~ t.coverage THEN [t EXCEPT !.status = "PARTIAL_RESEARCH"]
     ELSE IF PaperReady(t) THEN WritePackage(t)
     ELSE BlockNode(t, n, "BLOCKED_RESEARCH_NOT_READY")

\* _node_research_readiness: coverage is refreshed, the node completed, and
\* then a package attempted; a closed gate blocks the node just completed.
RunReadiness(s) ==
  LET n == ResearchReadiness
      t == CompleteNode([s EXCEPT !.coverage = CoverageSufficient(s)], n)
  IN IF ~ t.coverage THEN [t EXCEPT !.status = "PARTIAL_RESEARCH"]
     ELSE IF PaperReady(t) THEN WritePackage(t)
     ELSE BlockNode(t, n, "BLOCKED_OTHER")

-----------------------------------------------------------------------------
(* Repair commands: research_runtime.py, objective_coverage.py *)

\* The search state is judged once a question exists, or while its discovery
\* waits for a human; then the question is reopened too.
EvidenceRepairable(s, withQuestion) ==
  QuestionDiscovery \in Node =>
    \/ s.node[QuestionDiscovery] = "COMPLETED"
    \/ /\ withQuestion
       /\ s.node[QuestionDiscovery] = "WAITING_FOR_HUMAN"
       /\ \E d \in s.open : QuestionDiscovery \in BlockedNodes(d)

EarliestNodes(withQuestion) ==
  Node \cap ({EvidenceDiscovery, QuestionRefinement}
               \cup IF withQuestion THEN {QuestionDiscovery} ELSE {})

\* Mutant of RepairEvidence: what depends on the evidence is not reopened.
RepairEvidenceAlone(s, withQuestion) ==
  PlannedUnlessOpen(SetNodes(s, EarliestNodes(withQuestion), "PENDING"))

\* Mutant of RepairEvidence: the decisions on reopened nodes stay open.
RepairEvidenceKeepsDecisions(s, withQuestion) ==
  PlannedUnlessOpen(
    SetNodes(s, EarliestNodes(withQuestion) \cup Dependents[EvidenceDiscovery],
             "PENDING"))

RepairEvidence(s, withQuestion) ==
  LET earliest == EarliestNodes(withQuestion)
      changed == {n \in Dependents[EvidenceDiscovery] :
                    s.node[n] \notin {"PENDING", "LEASED"}}
      invalidated == earliest \cup changed
  IN PlannedUnlessOpen(
       [SetNodes(s, invalidated, "PENDING") EXCEPT
          !.open = {d \in @ : BlockedNodes(d) \cap invalidated = {}},
          !.selected = @ /\ QuestionRefinement \notin Node])

RepairCoverage(s) ==
  LET snapshot == s.snapshot \cup {n \in Upstream : s.node[n] = "COMPLETED"}
      t == [s EXCEPT !.snapshot = snapshot, !.coverage = CoverageSufficient(s)]
      restored == SetNodes(t, snapshot, "COMPLETED")
  IN IF t.coverage THEN t
     ELSE [SetNodes(restored, Downstream, "PENDING")
             EXCEPT !.status = "PARTIAL_RESEARCH"]

-----------------------------------------------------------------------------
(***************************************************************************)
(* Consistency of a record.  That a COMPLETED node has COMPLETED           *)
(* dependencies is not preserved by itself: a repair could restore a node  *)
(* from a snapshot that is not closed, and an answer could complete or     *)
(* reopen a node behind its dependents' back.                              *)
(***************************************************************************)
DependenciesBehindProgress(s) ==
  \A n \in Node :
    s.node[n] \notin {"PENDING", "LEASED"} => DependenciesSatisfied(s, n)

SnapshotClosed(s) == \A n \in s.snapshot : Deps[n] \subseteq s.snapshot

DecisionsHoldTheirNodes(s) ==
  \A d \in s.open : \A n \in BlockedNodes(d) :
    /\ n \in Upstream
    /\ s.node[n] \in {"WAITING_FOR_HUMAN", "COMPLETED"}
    /\ d.cause = "ATOMIC" => s.node[n] = "WAITING_FOR_HUMAN"
    /\ \A e \in s.open : n \in BlockedNodes(e) => e = d

RecordConsistent(s) ==
  /\ DependenciesBehindProgress(s)
  /\ SnapshotClosed(s)
  /\ DecisionsHoldTheirNodes(s)
=============================================================================
