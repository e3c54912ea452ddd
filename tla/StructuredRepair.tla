--------------------------- MODULE StructuredRepair ---------------------------
(***************************************************************************)
(* The command repair-structured-generation                                *)
(* (repair_recoverable_structured_generation_failures of                   *)
(* src/src/research_runtime.py) between the other steps of a run: the      *)
(* handlers of the planning nodes, the answers of a human, and the other   *)
(* repair commands.  One program runs at a time.                           *)
(*                                                                         *)
(* To the run record of RunState it adds the planning results that a       *)
(* repair judges, and which of them the validators reject.  Results are    *)
(* validated when they are stored, but the validators are tightened from   *)
(* one version of the program to the next.                                 *)
(***************************************************************************)
EXTENDS RunState

CONSTANTS
  Rank,         \* node -> its place in run_state.json, saved with sorted keys
  Commands,     \* the other operator commands of the run
  MaxUpgrades,  \* bound on the results that new validators reject
  MaxFresh      \* bound on the skeleton-first regenerations counted

ASSUME RepairAssumption ==
  /\ Rank \in [Node -> Nat]
  /\ Commands \subseteq {"repair-evidence-relevance", "repair-research-completion-coverage"}
  /\ MaxUpgrades \in Nat /\ MaxFresh \in Nat

Feasibility == "feasibility_analysis"

\* The planning nodes come first, one behind the other: the default DAG.
ASSUME PlanningAssumption ==
  /\ {QuestionDiscovery, QuestionRefinement, Feasibility} \subseteq Node
  /\ Deps[QuestionDiscovery] = {}
  /\ Deps[EvidenceDiscovery] = {QuestionDiscovery}
  /\ Deps[QuestionRefinement] = {EvidenceDiscovery}
  /\ Deps[Feasibility] = {QuestionRefinement}
  /\ Downstream \subseteq Dependents[Feasibility]

VARIABLES
  run,      \* the run record, see RunState
  planning  \* the planning results, see Plan

repairVars == <<run, planning>>

(***************************************************************************)
(* Why a planning node handed over, as far as the repair tells it apart.   *)
(*   DECODING    invalid model output, schema violation, local runtime     *)
(*   SEMANTIC    rejected by the semantic validators                       *)
(*   MEASUREMENT as SEMANTIC, while the measurement was extracted          *)
(*   TYPED       no variable contract could be extracted                   *)
(*   UNSUITABLE  the candidate question itself is unsuitable               *)
(*   FIELD       a regenerated skeleton still misses a field               *)
(*   FRESH       no variable for a regenerated skeleton                    *)
(*   RESELECT    no coherent measurement                                   *)
(*   FIT, INCOMPLETE  the atomic steps of the feasibility analysis         *)
(*   ROUTING     no eligible local model                                   *)
(*   OTHER       nothing that the repair looks for                         *)
(***************************************************************************)
PlanningCauses ==
  [n \in Node |->
     CASE n = QuestionDiscovery  -> {"DECODING", "SEMANTIC", "OTHER"}
       [] n = QuestionRefinement -> {"DECODING", "SEMANTIC", "MEASUREMENT", "TYPED", "UNSUITABLE"}
       [] n = Feasibility        -> {"DECODING", "FIT", "INCOMPLETE", "ROUTING"}
       [] OTHER                  -> {"OTHER"}]

PlanningResults == {"candidate", "skeleton", "selection", "routes"}

Plan ==
  [candidate : BOOLEAN,     \* candidate_questions is not empty
   skeleton : BOOLEAN,      \* computational_experimental_skeleton is set
   routes : BOOLEAN,        \* feasibility_routes is set
   stale : SUBSET PlanningResults,  \* the results that the validators reject
   recovery : {"none", "current", "fresh"},  \* computational_measurement_recovery
   fresh : 0..1,            \* fresh_skeleton_regeneration_count
   done : 0..MaxFresh,      \* regenerations of the present candidate
   output : SUBSET Node,    \* the nodes that failed on malformed output
   answered : SUBSET Node,  \* the nodes that a human's answer completed
   upgrades : 0..MaxUpgrades]

RepairTypeOK ==
  /\ [run EXCEPT !.open = {}] \in RunRecord
  /\ \A d \in run.open : d.id \in 1..MaxOpen /\ d.node \in Node
  /\ planning \in Plan

RepairInit ==
  /\ run = CreateRunState
  /\ planning = [candidate |-> FALSE, skeleton |-> FALSE, routes |-> FALSE, stale |-> {}, recovery |-> "none",
                 fresh |-> 0, done |-> 0, output |-> {}, answered |-> {}, upgrades |-> 0]

-----------------------------------------------------------------------------
(* The handlers of the planning nodes, each from lease to save. *)

\* The node that acquire_node_lease takes: the first ready one of the record.
Ready(n) == n \in ReadyNodes(run) /\ \A m \in ReadyNodes(run) : Rank[n] <= Rank[m]

HandsOver(n, cause, p) ==
  /\ FreeIds(run) # {}
  /\ run' = RequestDecision(run, n, cause)
  /\ planning' = p

\* StructuredGenerationExhausted: clear_node_outputs comes first.
HandsOverExhausted(n, cause, p) ==
  /\ FreeIds(run) # {}
  /\ run' = RequestDecision([run EXCEPT !.selected = @ /\ n # QuestionRefinement], n, cause)
  /\ planning' = p

Fails(n) ==
  /\ Ready(n)
  /\ run' = BlockNode(run, n, "FAILED")
  /\ \E malformed \in BOOLEAN :
       planning' = [planning EXCEPT !.output = IF malformed /\ n \in ModelNodes THEN @ \cup {n} ELSE @ \ {n}]

Discover ==
  /\ Ready(QuestionDiscovery)
  /\ \/ /\ run' = CompleteNode(run, QuestionDiscovery)
        /\ planning' = [planning EXCEPT !.candidate = TRUE, !.stale = @ \ {"candidate"}, !.done = 0,
                                !.answered = @ \ {QuestionDiscovery}]
     \/ \E cause \in PlanningCauses[QuestionDiscovery] : HandsOver(QuestionDiscovery, cause, planning)

Collect ==
  /\ Ready(EvidenceDiscovery)
  /\ \/ run' = CompleteNode(run, EvidenceDiscovery) /\ UNCHANGED planning
     \/ HandsOver(EvidenceDiscovery, "OTHER", planning)

\* The selected question, and the skeleton it was assembled from if any.
Refined(p, skeleton) ==
  /\ run' = [CompleteNode(run, QuestionRefinement) EXCEPT !.selected = TRUE]
  /\ planning' = [p EXCEPT !.skeleton = skeleton \/ @, !.answered = @ \ {QuestionRefinement},
                       !.stale = @ \ ({"selection"} \cup IF skeleton THEN {"skeleton"} ELSE {})]

\* question refinement requires substantive candidate questions
RefineNothing ==
  /\ Ready(QuestionRefinement) /\ ~ planning.candidate
  /\ run' = BlockNode(run, QuestionRefinement, "BLOCKED_OTHER")
  /\ UNCHANGED planning

Refine ==
  /\ Ready(QuestionRefinement) /\ planning.candidate /\ planning.recovery = "none"
  /\ \/ \E skeleton \in BOOLEAN : Refined(planning, skeleton)
     \/ HandsOver(QuestionRefinement, "UNSUITABLE", planning)
     \/ \E cause \in PlanningCauses[QuestionRefinement] \ {"UNSUITABLE"} :
          HandsOverExhausted(QuestionRefinement, cause, planning)

\* _recover_computational_measurement: a recovery is tried whatever the candidate is,
\* and nothing but an external continuation takes it away.
Recover ==
  /\ Ready(QuestionRefinement) /\ planning.candidate /\ planning.recovery = "current"
  /\ Refined(planning, TRUE) \/ HandsOverExhausted(QuestionRefinement, "DECODING", planning)

\* Mutant of Regenerate: the count of regenerations does not bound them.
RegenerateUnbounded ==
  /\ Ready(QuestionRefinement) /\ planning.candidate /\ planning.recovery # "none" /\ planning.done < MaxFresh
  /\ HandsOver(QuestionRefinement, "FRESH", [planning EXCEPT !.fresh = @ + 1, !.done = @ + 1])

\* _fresh_skeleton_first_candidate
Regenerate ==
  /\ Ready(QuestionRefinement) /\ planning.candidate /\ planning.recovery # "none" /\ planning.fresh = 0
  /\ planning.done < MaxFresh
  /\ LET p == [planning EXCEPT !.fresh = 1, !.done = @ + 1]
     IN \/ Refined(p, TRUE)
        \/ \E cause \in {"FRESH", "RESELECT"} : HandsOver(QuestionRefinement, cause, p)
        \/ HandsOver(QuestionRefinement, "FIELD", [p EXCEPT !.skeleton = TRUE, !.stale = @ \cup {"skeleton"}])

RegenerateNoMore ==
  /\ Ready(QuestionRefinement) /\ planning.candidate /\ planning.recovery # "none" /\ planning.fresh = 1
  /\ HandsOver(QuestionRefinement, "RESELECT", planning)

Analyze ==
  /\ Ready(Feasibility)
  /\ \/ /\ run' = CompleteNode(run, Feasibility)
        /\ planning' = [planning EXCEPT !.routes = TRUE, !.stale = @ \ {"routes"}, !.answered = @ \ {Feasibility}]
     \/ \E cause \in PlanningCauses[Feasibility] : HandsOver(Feasibility, cause, planning)

\* The nodes behind the planning nodes, whose outcome does not matter here.
Downstreams ==
  \E n \in Downstream : Ready(n) /\ run' = CompleteNode(run, n) /\ UNCHANGED planning

-----------------------------------------------------------------------------
(* The human, the other commands, and a new version of the program. *)

AnswerNode ==
  \E d \in run.open :
    /\ d.node \in ModelNodes
    /\ run' = AnswerDecision(run, d)
    /\ planning' = [planning EXCEPT !.answered = @ \cup {d.node},
                            !.candidate = @ \/ d.node = QuestionDiscovery,
                            !.done = IF d.node = QuestionDiscovery THEN 0 ELSE @,
                            !.stale = @ \ (CASE d.node = QuestionDiscovery -> {"candidate"}
                                             [] d.node = QuestionRefinement -> {"selection"}
                                             [] OTHER -> {})]

SubmitOption == \E d \in run.open : run' = SubmitDecision(run, d) /\ UNCHANGED planning

\* repair-evidence-relevance; placeholder labels among the candidates are dropped.
RepairEvidenceRelevance ==
  /\ "repair-evidence-relevance" \in Commands
  /\ \E withQuestion \in BOOLEAN :
       /\ EvidenceRepairable(run, withQuestion)
       /\ run' = RepairEvidence(run, withQuestion)
       /\ planning' = [planning EXCEPT !.candidate = @ /\ ~ withQuestion,
                               !.stale = @ \ (IF withQuestion THEN {"selection", "candidate"} ELSE {"selection"}),
                               !.output = @ \cap {n \in Node : run'.node[n] = "FAILED"}]

RepairCompletionCoverage ==
  /\ "repair-research-completion-coverage" \in Commands
  /\ run' = RepairCoverage(run)
  /\ planning' = [planning EXCEPT !.output = @ \cap {n \in Node : run'.node[n] = "FAILED"}]

\* The validators of a new version reject a stored result.
Upgrade ==
  /\ planning.upgrades < MaxUpgrades
  /\ \E r \in PlanningResults \ planning.stale :
       /\ CASE r = "candidate" -> planning.candidate
            [] r = "skeleton"  -> planning.skeleton
            [] r = "selection" -> run.selected
            [] r = "routes"    -> planning.routes
       /\ planning' = [planning EXCEPT !.stale = @ \cup {r}, !.upgrades = @ + 1]
  /\ UNCHANGED run

-----------------------------------------------------------------------------
(***************************************************************************)
(* The repair, as the passes of its code over a work record: the run, the  *)
(* plan, and the nodes repaired so far.                                    *)
(***************************************************************************)
Reset(w, n) ==
  [w EXCEPT !.run = SetNode(@, n, "PENDING"), !.repaired = @ \cup {n},
            !.plan.output = @ \ {n}]

ClearOutputs(w, n) ==
  IF n # QuestionRefinement THEN w
  ELSE [w EXCEPT !.run.selected = FALSE, !.plan.stale = @ \ {"selection"}]

\* Mutant of MarkDependents: the decisions of the dependents stay open.
MarkDependentsOnly(w, n) ==
  LET changed == {m \in Dependents[n] : w.run.node[m] \notin {"PENDING", "LEASED"}}
  IN [w EXCEPT !.run = SetNodes(@, changed, "PENDING"), !.plan.output = @ \ changed]

\* mark_dependent_nodes_pending
MarkDependents(w, n) ==
  LET changed == {m \in Dependents[n] : w.run.node[m] \notin {"PENDING", "LEASED"}}
      reset == SetNodes(w.run, changed, "PENDING")
      closed == [reset EXCEPT !.open = {d \in @ : BlockedNodes(d) \cap changed = {}}]
  IN [w EXCEPT !.run = IF changed # {} /\ w.run.status = "WAITING_FOR_HUMAN"
                       THEN PlannedUnlessOpen(closed) ELSE reset,
               !.plan.output = @ \ changed]

Asked(w, n, causes) == {d \in w.run.open : d.node = n /\ d.cause \in causes}

Invalidate(w, D) == [w EXCEPT !.run.open = @ \ D]

\* Mutant of Retry: the decision is invalidated, its node goes on waiting.
InvalidateOnly(w, n, causes) == Invalidate(w, Asked(w, n, causes))

\* Mutant of Retry: the decision stays open.
RetryAsked(w, n, causes) == IF Asked(w, n, causes) = {} THEN w ELSE Reset(w, n)

\* The node of a decision with one of the causes is queued again, whatever its status is.
Retry(w, n, causes) ==
  LET D == Asked(w, n, causes) IN IF D = {} THEN w ELSE Invalidate(Reset(w, n), D)

\* The same, with the nodes that depend on it.
RetryWithDependents(w, n, causes) ==
  LET D == Asked(w, n, causes) IN IF D = {} THEN w ELSE Invalidate(MarkDependents(Reset(w, n), n), D)

\* A completed refinement whose skeleton is rejected.  What is recovered from it
\* depends on its fields.
RetireSkeleton(w, recovery) ==
  IF ~ (w.plan.skeleton /\ "skeleton" \in w.plan.stale /\ w.run.node[QuestionRefinement] = "COMPLETED") THEN w
  ELSE LET p == [w.plan EXCEPT !.skeleton = FALSE, !.stale = @ \ {"skeleton"},
                               !.recovery = IF recovery = "none" THEN @ ELSE recovery,
                               !.fresh = IF recovery = "fresh" THEN 0 ELSE @]
           t == Reset(ClearOutputs([w EXCEPT !.plan = p], QuestionRefinement), QuestionRefinement)
       IN MarkDependents(t, QuestionRefinement)

WithoutCandidate(p) == [p EXCEPT !.candidate = FALSE, !.stale = @ \ {"candidate"}]

\* A candidate that is no bounded computational question, without prior work.
RetireCandidate(w) ==
  IF ~ (w.plan.candidate /\ "candidate" \in w.plan.stale /\ w.run.node[QuestionDiscovery] = "COMPLETED") THEN w
  ELSE MarkDependents(Reset([w EXCEPT !.plan = WithoutCandidate(@)], QuestionDiscovery), QuestionDiscovery)

\* The decisions of question_refinement about measurements and variables.
RefinementDecisions(w) ==
  LET restart == Asked(w, QuestionRefinement, {"FIELD"}) # {}
      again == Asked(w, QuestionRefinement, {"FRESH"}) # {}
      reselect == Asked(w, QuestionRefinement, {"RESELECT"}) # {}
      t == RetryWithDependents(w, QuestionRefinement, {"FIELD", "MEASUREMENT"})
      u == Retry(t, QuestionRefinement, {"FRESH", "RESELECT", "TYPED"})
      p == [u.plan EXCEPT !.recovery = IF again \/ reselect THEN "current" ELSE IF restart THEN "fresh" ELSE @,
                          !.fresh = IF restart \/ again THEN 0 ELSE @]
  IN [u EXCEPT !.plan = p]

\* A preserved output of the model passes the corrected validator.
DiscoveryDecisions(w) == RetryWithDependents(w, QuestionDiscovery, {"SEMANTIC"})

RetireRoutes(w) ==
  IF ~ (w.plan.routes /\ "routes" \in w.plan.stale /\ w.run.node[Feasibility] = "COMPLETED") THEN w
  ELSE MarkDependents(Reset(w, Feasibility), Feasibility)

\* preserved: an earlier route with a valid scientific fit is in the history.
FeasibilityDecisions(w, preserved) ==
  Retry(RetryWithDependents(w, Feasibility, {"ROUTING"}), Feasibility,
        {"INCOMPLETE"} \cup IF preserved THEN {"FIT"} ELSE {})

SemanticDecisions(w) ==
  IF Asked(w, QuestionRefinement, {"SEMANTIC", "MEASUREMENT"}) = {} THEN w
  ELSE ClearOutputs(Retry(w, QuestionRefinement, {"SEMANTIC", "MEASUREMENT"}), QuestionRefinement)

\* The candidate is dropped, and regenerated from the literature that is kept.
UnsuitableCandidate(w) ==
  LET D == Asked(w, QuestionRefinement, {"UNSUITABLE"})
      t == [w EXCEPT !.plan = WithoutCandidate(@)]
  IN IF D = {} \/ ~ w.plan.candidate THEN w
     ELSE Invalidate(ClearOutputs(Reset(Reset(t, QuestionDiscovery), QuestionRefinement), QuestionRefinement),
                     {d \in w.run.open : d.node = QuestionRefinement})

\* Mutant of DecodingDecisions: the nodes go on waiting.
DecodingDecisionsOnly(w) == Invalidate(w, {d \in w.run.open : d.cause = "DECODING"})

DecodingDecisions(w) ==
  LET D == {d \in w.run.open : d.cause = "DECODING"}
      N == {n \in {d.node : d \in D} : w.run.node[n] = "WAITING_FOR_HUMAN"}
  IN Invalidate([w EXCEPT !.run = SetNodes(@, N, "PENDING"), !.repaired = @ \cup N], D)

MalformedOutputs(w) ==
  LET N == {n \in w.plan.output : w.run.node[n] = "FAILED"}
  IN [w EXCEPT !.run = SetNodes(@, N, "PENDING"), !.repaired = @ \cup N, !.plan.output = @ \ N]

\* Mutant of RevalidateSelection: the rejected selection is kept.
RevalidateSelectionOnly(w) ==
  IF ~ (w.run.selected /\ "selection" \in w.plan.stale) THEN w
  ELSE MarkDependents(Reset(w, QuestionRefinement), QuestionRefinement)

\* revalidate_planning_state, which looks at the stored selection alone.
RevalidateSelection(w) ==
  IF ~ (w.run.selected /\ "selection" \in w.plan.stale) THEN w
  ELSE MarkDependents(ClearOutputs(Reset(w, QuestionRefinement), QuestionRefinement), QuestionRefinement)

\* Mutant of Replan: a run that waits goes on waiting.
ReplanFailed(w) ==
  IF w.repaired # {} /\ w.run.status = "FAILED" THEN [w EXCEPT !.run.status = "PLANNED_RESEARCH"] ELSE w

Replan(w) ==
  IF w.repaired # {} /\ w.run.status \in {"FAILED", "WAITING_FOR_HUMAN"}
  THEN [w EXCEPT !.run.status = "PLANNED_RESEARCH"] ELSE w

RepairStructuredGeneration(r, p, recovery, preserved) ==
  LET started == RetireCandidate(RetireSkeleton([run |-> r, plan |-> p, repaired |-> {}], recovery))
      decided == DiscoveryDecisions(RefinementDecisions(started))
      analysed == FeasibilityDecisions(RetireRoutes(decided), preserved)
      refined == UnsuitableCandidate(SemanticDecisions(analysed))
  IN Replan(RevalidateSelection(MalformedOutputs(DecodingDecisions(refined))))

Recovered(w) == run' = w.run /\ planning' = [w.plan EXCEPT !.answered = @ \ w.repaired]

RepairStructured ==
  \E recovery \in {"none", "current", "fresh"}, preserved \in BOOLEAN :
    Recovered(RepairStructuredGeneration(run, planning, recovery, preserved))

\* repair-routing-decisions
RepairRouting ==
  \E recovery \in {"none", "current", "fresh"}, preserved \in BOOLEAN :
    Recovered(RepairStructuredGeneration(InvalidateStaleRouting(run), planning, recovery, preserved))

RepairNext ==
  \/ Discover \/ Collect \/ Refine \/ RefineNothing \/ Recover \/ Regenerate \/ RegenerateNoMore
  \/ Analyze \/ Downstreams \/ \E n \in Node : Fails(n)
  \/ AnswerNode \/ SubmitOption \/ Upgrade
  \/ RepairEvidenceRelevance \/ RepairCompletionCoverage \/ RepairStructured \/ RepairRouting

RepairSpec == RepairInit /\ [][RepairNext]_repairVars

-----------------------------------------------------------------------------
\* A planning node that waits for a human is named by an open decision, whatever
\* repairs invalidated: an answer can still reach it.
WaitingNodeIsAsked ==
  \A n \in Node : run.node[n] = "WAITING_FOR_HUMAN" => \E d \in run.open : d.node = n

\* An open decision about a planning result is about a node that waits, or that a
\* coverage repair restored since: no repair queues a node again and leaves its
\* question to the human.
QuestionsAreCurrent ==
  \A d \in run.open : d.node \in ModelNodes => run.node[d.node] \in {"WAITING_FOR_HUMAN", "COMPLETED"}

\* The same of every decision, about the evidence too.
EvidenceQuestionsAreCurrent ==
  \A d \in run.open : run.node[d.node] \in {"WAITING_FOR_HUMAN", "COMPLETED"}

\* Whatever the run went through, a second repair finds nothing left to do.
RepairConverges ==
  \A recovery \in {"none", "current", "fresh"}, preserved \in BOOLEAN :
    LET once == RepairStructuredGeneration(run, planning, recovery, preserved)
        twice == RepairStructuredGeneration(once.run, once.plan, recovery, preserved)
    IN twice.repaired = {} /\ twice.run = once.run

\* A run whose status waits for a human has a question for one.
WaitingRunAsks == run.status = "WAITING_FOR_HUMAN" => run.open # {}

\* The questions of a run reach its nodes: a planning node that waits for a human has
\* an open decision, through all repairs; a run that waits has one; and the open
\* decisions ask about the planning results that are in force.  A coverage repair
\* restores a node without its decision, which is all that the second part loses.
QuestionsAreAsked ==
  /\ WaitingNodeIsAsked
  /\ "repair-research-completion-coverage" \notin Commands => QuestionsAreCurrent /\ WaitingRunAsks

\* The feasibility of a question is not COMPLETED while the question is refined.
FeasibilityFollowsRefinement ==
  run.node[Feasibility] = "COMPLETED" => run.node[QuestionRefinement] = "COMPLETED"

\* A candidate is replaced by the skeleton-first regeneration once.
OneRegeneration == planning.done <= 1

\* Work is accepted in dependency order, as RunLifecycle has it of its commands
\* (CompletionRespectsDependencies): a candidate that is dropped queues discovery
\* again and leaves the evidence that was collected for it.
CompletedFollowsDependencies ==
  \A n \in Node : run.node[n] = "COMPLETED" => DependenciesSatisfied(run, n)

\* A run that has ended has done its work (VerifiedRunIsEarned of RunLifecycle): a
\* repair queues the planning nodes and their dependents and keeps the status.  The
\* coverage is not followed here, so that a run ends as PARTIAL_RESEARCH, which one
\* branch of the code writes with RESEARCH_COMPLETE.
FinishedRunIsExecuted ==
  run.status \in {"PARTIAL_RESEARCH", "RESEARCH_COMPLETE"} =>
    \A n \in Node : run.node[n] = "COMPLETED"

\* Refinement is not reached, and stopped for good, before its candidate exists.
RefinementHasACandidate ==
  run.node[QuestionRefinement] = "BLOCKED_OTHER" => planning.candidate

\* A repair keeps the refinement that a human answered, as long as the answer and
\* the candidate pass the validators.
AnswerSurvivesRepair ==
  [][RepairStructured /\ QuestionRefinement \in planning.answered
       /\ run.node[QuestionRefinement] = "COMPLETED"
       /\ planning.stale \cap {"candidate", "selection"} = {}
     => run'.node[QuestionRefinement] = "COMPLETED"]_repairVars
=============================================================================
