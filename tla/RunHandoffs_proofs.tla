--------------------------- MODULE RunHandoffs_proofs ---------------------------
(***************************************************************************)
(* What a run record says of what happened: that a run that waits can be   *)
(* answered, that an execution that is complete has its report, and that a *)
(* run that verify passes has earned it.  For any number of programs, with *)
(* any causes and any of the commands of LifecycleCommands, which leave    *)
(* out repair-routing-decisions, repair-structured-generation and          *)
(* repair-external-continuation.                                           *)
(***************************************************************************)
EXTENDS RunLifecycle_proofs

-----------------------------------------------------------------------------
(***************************************************************************)
(* RunLifecycle, handing a node to a human and the immutable reports.      *)
(* Each property is one of every record by itself, kept by every operation *)
(* that turns one record into another, so that it survives whatever is     *)
(* overwritten; the reports also need that a program that has stored one   *)
(* is only ever ahead of the store's content.                              *)
(***************************************************************************)

\* A node of the model that waits is named by an open decision, a run that waits
\* has one, and the executions of the record have their reports in S.
RecordHolds(s, S) ==
  /\ \A n \in ModelNodes :
       s.node[n] = "WAITING_FOR_HUMAN" => \E d \in s.open : n \in BlockedNodes(d)
  /\ s.status = "WAITING_FOR_HUMAN" => s.open # {}
  /\ \A n \in ExecutionNodes : s.node[n] = "COMPLETED" => n \in S

\* No model node is an execution node, and neither are the nodes a repair restores.
LEMMA KindsDiffer ==
  /\ ModelNodes \cap ExecutionNodes = {} /\ Upstream \cap ExecutionNodes = {}
  /\ ModelNodes \subseteq Node /\ ExecutionNodes \subseteq Node
BY DEF ModelNodes, ExecutionNodes, Upstream, QuestionDiscovery, EvidenceDiscovery,
       QuestionRefinement

\* What an operation has to leave alone: no node starts to wait, what a closed
\* decision named does not wait, no execution is completed without a report.
LEMMA HoldsKept ==
  ASSUME NEW s, NEW t, NEW S, RecordHolds(s, S),
         \A n \in ModelNodes :
           t.node[n] = "WAITING_FOR_HUMAN" =>
             /\ s.node[n] = "WAITING_FOR_HUMAN"
             /\ \A d \in s.open \ t.open : n \notin BlockedNodes(d),
         t.status = "WAITING_FOR_HUMAN" => t.open # {},
         \A n \in ExecutionNodes :
           t.node[n] = "COMPLETED" => s.node[n] = "COMPLETED" \/ n \in S
  PROVE  RecordHolds(t, S)
BY DEF RecordHolds

\* The same when only one node changes and no decision does.
LEMMA HoldsKeptOne ==
  ASSUME NEW s \in RunRecord, NEW t, NEW S, RecordHolds(s, S), NEW n \in Node, NEW st,
         st # "WAITING_FOR_HUMAN", st = "COMPLETED" /\ n \in ExecutionNodes => n \in S,
         t.node = [s.node EXCEPT ![n] = st], t.open = s.open,
         t.status = "WAITING_FOR_HUMAN" => s.status = "WAITING_FOR_HUMAN"
  PROVE  RecordHolds(t, S)
<1>1. \A m \in Node : t.node[m] = IF m = n THEN st ELSE s.node[m]
  BY DEF RunRecord
<1> QED BY <1>1, HoldsKept, KindsDiffer DEF RecordHolds

\* A new run's record.
LEMMA CreateRunStateHolds == \A S : RecordHolds(CreateRunState, S)
BY KindsDiffer DEF CreateRunState, RecordHolds

\* Recovering leases, leasing and the passing of time.
LEMMA LeasesHold ==
  ASSUME NEW s \in RunRecord, NEW S, RecordHolds(s, S)
  PROVE  /\ RecordHolds(RecoverExpiredLeases(s), S)
         /\ \A n \in Node : RecordHolds(LeaseNode(s, n), S)
         /\ RecordHolds(Elapse(s), S)
<1>1. RecordHolds(RecoverExpiredLeases(s), S)
  BY KindsDiffer DEF RecordHolds, RecoverExpiredLeases, SetNodes, RunRecord
<1>2. ASSUME NEW n \in Node PROVE RecordHolds(LeaseNode(s, n), S)
  BY KindsDiffer, <1>2 DEF RecordHolds, LeaseNode, RunRecord
<1>3. RecordHolds(Elapse(s), S)
  BY DEF RecordHolds, Elapse, RunRecord
<1> QED BY <1>1, <1>2, <1>3

\* Completing and stopping a node.
LEMMA OutcomesHold ==
  ASSUME NEW s \in RunRecord, NEW S, RecordHolds(s, S), NEW n \in Node
  PROVE  /\ (n \in ExecutionNodes => n \in S) => RecordHolds(CompleteNode(s, n), S)
         /\ \A st \in StopStatus \ {"WAITING_FOR_HUMAN"} :
              RecordHolds(BlockNode(s, n, st), S)
         /\ \A recorded \in BOOLEAN : RecordHolds(BudgetBlock(s, n, recorded), S)
<1>1. ASSUME n \in ExecutionNodes => n \in S PROVE RecordHolds(CompleteNode(s, n), S)
  <2> DEFINE t == CompleteNode(s, n)
  <2>1. /\ t.node = [s.node EXCEPT ![n] = "COMPLETED"] /\ t.open = s.open
        /\ t.status \in {s.status, "RESEARCH_COMPLETE", "PARTIAL_RESEARCH"}
    BY DEF CompleteNode, SetNode, RunRecord
  <2> QED BY <1>1, <2>1, HoldsKeptOne
<1>2. ASSUME NEW st \in StopStatus \ {"WAITING_FOR_HUMAN"}
      PROVE  RecordHolds(BlockNode(s, n, st), S)
  <2> DEFINE t == BlockNode(s, n, st)
  <2>1. t.node = [s.node EXCEPT ![n] = st] /\ t.open = s.open /\ t.status = st
    BY DEF BlockNode, SetNode, RunRecord
  <2> QED BY <2>1, HoldsKeptOne DEF StopStatus
<1>3. ASSUME NEW recorded \in BOOLEAN PROVE RecordHolds(BudgetBlock(s, n, recorded), S)
  <2> DEFINE t == BudgetBlock(s, n, recorded)
  <2>1. /\ t.node = [s.node EXCEPT ![n] = "BLOCKED_BUDGET"] /\ t.open = s.open
        /\ t.status = "BLOCKED_BUDGET"
    BY DEF BudgetBlock, BlockNode, SetNode, RunRecord
  <2> QED BY <2>1, HoldsKeptOne
<1> QED BY <1>1, <1>2, <1>3

\* Dropping the selected question, and completing a node with what it found.
LEMMA HandlersHold ==
  ASSUME NEW s \in RunRecord, NEW S, RecordHolds(s, S), NEW n \in Node
  PROVE  /\ \A t \in Cleared(s, n) : RecordHolds(t, S)
         /\ (n \in ExecutionNodes => n \in S) =>
              \A t \in Completions(s, n) : RecordHolds(t, S)
<1>1. ASSUME NEW t \in Cleared(s, n) PROVE RecordHolds(t, S)
  <2>1. t.node = s.node /\ t.open = s.open /\ t.status = s.status
    BY DEF Cleared, RunRecord
  <2> QED BY <2>1 DEF RecordHolds
<1>2. ASSUME n \in ExecutionNodes => n \in S, NEW t \in Completions(s, n)
      PROVE  RecordHolds(t, S)
  <2> DEFINE c == CompleteNode(s, n)
  <2>1. c \in RunRecord /\ RecordHolds(c, S)
    BY <1>2, OutcomesHold, OutcomeTypes DEF StopStatus
  <2>2. CASE n # ResearchReadiness
    <3>1. t.node = c.node /\ t.open = c.open /\ t.status = c.status
      BY <1>2, <2>1, <2>2 DEF Completions, RunRecord
    <3> QED BY <2>1, <3>1 DEF RecordHolds
  <2>3. CASE n = ResearchReadiness
    <3> DEFINE u == [s EXCEPT !.coverage = CoverageSufficient(s)]
               v == CompleteNode(u, n)
    <3>1. u \in RunRecord /\ u.node = s.node /\ u.open = s.open /\ u.status = s.status
      BY DEF RunRecord, CoverageSufficient
    <3>2. RecordHolds(u, S)
      BY <3>1 DEF RecordHolds
    <3>3. v \in RunRecord /\ RecordHolds(v, S)
      BY <1>2, <3>1, <3>2, OutcomesHold, OutcomeTypes DEF StopStatus
    <3>4. t = RunReadiness(s)
      BY <1>2, <2>3 DEF Completions
    <3>5. t \in {[v EXCEPT !.status = "PARTIAL_RESEARCH"], WritePackage(v),
                 BlockNode(v, n, "BLOCKED_OTHER")}
      BY <2>3, <3>4 DEF RunReadiness
    <3> HIDE DEF v
    <3>6. RecordHolds([v EXCEPT !.status = "PARTIAL_RESEARCH"], S)
          /\ RecordHolds(WritePackage(v), S)
      BY <3>3 DEF RecordHolds, WritePackage, RunRecord
    <3>7. RecordHolds(BlockNode(v, n, "BLOCKED_OTHER"), S)
      BY <3>3, OutcomesHold DEF StopStatus
    <3> QED BY <3>5, <3>6, <3>7
  <2> QED BY <2>2, <2>3
<1> QED BY <1>1, <1>2

\* Handing a node to a human.
LEMMA RequestHolds ==
  ASSUME NEW s \in RunRecord, NEW S, RecordHolds(s, S), NEW n \in Node,
         NEW cause \in Cause, MayHandOff(n, cause)
  PROVE  RecordHolds(RequestDecision(s, n, cause), S)
<1> DEFINE d == [id |-> CHOOSE i \in FreeIds(s) : TRUE, node |-> n, cause |-> cause]
           t == RequestDecision(s, n, cause)
<1>1. /\ t.node = [s.node EXCEPT ![n] = "WAITING_FOR_HUMAN"]
      /\ t.open = s.open \cup {d}
  BY DEF RequestDecision, BlockNode, SetNode, RunRecord
<1>2. n \in ModelNodes => cause # "SKILL"
  BY DEF MayHandOff, ModelNodes, SkillDiscovery, QuestionDiscovery, QuestionRefinement
<1>3. n \in ModelNodes => n \in BlockedNodes(d)
  BY <1>2 DEF BlockedNodes
<1>4. \A m \in Node : t.node[m] = IF m = n THEN "WAITING_FOR_HUMAN" ELSE s.node[m]
  BY <1>1 DEF RunRecord
<1> QED BY <1>1, <1>3, <1>4, KindsDiffer DEF RecordHolds

\* Every decision names at most the node it was requested for.
LEMMA BlockedIsNode == \A d : BlockedNodes(d) \subseteq {d.node}
BY DEF BlockedNodes

\* Closing the last decision plans the run again.
LEMMA PlannedIsNotWaiting ==
  ASSUME NEW s \in RunRecord
  PROVE  LET t == PlannedUnlessOpen(s) IN
         /\ t.node = s.node /\ t.open = s.open
         /\ t.open = {} => t.status = "PLANNED_RESEARCH"
BY DEF PlannedUnlessOpen, RunRecord

\* Answers, refusals and the decisions that a new supervisor takes back.
LEMMA DecisionsHoldOn ==
  ASSUME NEW s \in RunRecord, NEW S, RecordHolds(s, S)
  PROVE  /\ \A d \in s.open : /\ RecordHolds(SubmitDecision(s, d), S)
                             /\ RecordHolds(AnswerDecision(s, d), S)
         /\ RecordHolds(InvalidateStaleRouting(s), S)
<1>1. ASSUME NEW d \in s.open PROVE RecordHolds(SubmitDecision(s, d), S)
  <2> DEFINE N == {n \in BlockedNodes(d) : s.node[n] = "WAITING_FOR_HUMAN"}
             u == SetNodes(s, N, "PENDING")
             v == [u EXCEPT !.open = @ \ {d}]
             t == PlannedUnlessOpen(v)
  <2>1. /\ u \in RunRecord /\ v \in RunRecord /\ v.open = s.open \ {d}
        /\ v.node = [n \in Node |-> IF n \in N THEN "PENDING" ELSE s.node[n]]
    BY SetNodesType DEF NodeStatus, SetNodes, RunRecord
  <2> HIDE DEF v
  <2>2. /\ t.node = v.node /\ t.open = v.open
        /\ t.open = {} => t.status = "PLANNED_RESEARCH"
    BY <2>1, PlannedIsNotWaiting
  <2>3. t = SubmitDecision(s, d)
    BY DEF SubmitDecision, Resolve, v
  <2> HIDE DEF t
  <2>4. RecordHolds(t, S)
    BY <2>1, <2>2, HoldsKept, KindsDiffer
  <2> QED BY <2>3, <2>4
<1>2. ASSUME NEW d \in s.open PROVE RecordHolds(AnswerDecision(s, d), S)
  <2> DEFINE u == IF d.cause = "ATOMIC" THEN SetNode(s, d.node, "PENDING")
                                        ELSE ApplyHumanResponse(s, d.node)
             v == [u EXCEPT !.open = @ \ {d}]
             t == PlannedUnlessOpen(v)
  <2>1. d.node \in Node
    BY DEF RunRecord, Decision
  <2>2. CompleteNode(s, d.node) \in RunRecord
    BY <2>1, OutcomeTypes DEF StopStatus
  <2>3. /\ CompleteNode(s, d.node).node = [s.node EXCEPT ![d.node] = "COMPLETED"]
        /\ CompleteNode(s, d.node).open = s.open
    BY DEF CompleteNode, SetNode, RunRecord
  <2>4. /\ ApplyHumanResponse(s, d.node) \in RunRecord
        /\ ApplyHumanResponse(s, d.node).open = s.open
        /\ ApplyHumanResponse(s, d.node).node \in
              {s.node, [s.node EXCEPT ![d.node] = "COMPLETED"]}
        /\ d.node \in ModelNodes => ApplyHumanResponse(s, d.node).node
              = [s.node EXCEPT ![d.node] = "COMPLETED"]
        /\ d.node \notin ModelNodes => ApplyHumanResponse(s, d.node).node = s.node
    BY <2>2, <2>3 DEF ApplyHumanResponse, RunRecord
  <2>5. /\ u \in RunRecord /\ u.open = s.open
        /\ \A n \in Node : n # d.node => u.node[n] = s.node[n]
        /\ d.node \in ModelNodes => u.node[d.node] \in {"PENDING", "COMPLETED"}
        /\ d.node \notin ModelNodes => u.node[d.node] \in {"PENDING", s.node[d.node]}
    <3>1. CASE d.cause = "ATOMIC"
      <4>1. /\ SetNode(s, d.node, "PENDING").node = [s.node EXCEPT ![d.node] = "PENDING"]
            /\ SetNode(s, d.node, "PENDING").open = s.open
        BY DEF SetNode, RunRecord
      <4>2. SetNode(s, d.node, "PENDING") \in RunRecord
        BY <2>1, SetNodeType DEF NodeStatus
      <4> QED BY <2>1, <3>1, <4>1, <4>2 DEF RunRecord
    <3>2. CASE d.cause # "ATOMIC"
      BY <2>1, <2>4, <3>2 DEF RunRecord
    <3> QED BY <3>1, <3>2
  <2> HIDE DEF u
  <2>6. v \in RunRecord /\ v.open = s.open \ {d} /\ v.node = u.node
    BY <2>5 DEF RunRecord
  <2> HIDE DEF v
  <2>7. /\ t.node = v.node /\ t.open = v.open
        /\ t.open = {} => t.status = "PLANNED_RESEARCH"
    BY <2>6, PlannedIsNotWaiting
  <2>8. t = AnswerDecision(s, d)
    BY DEF AnswerDecision, Resolve, u, v
  <2> HIDE DEF t
  <2>9. ASSUME NEW n \in ModelNodes, t.node[n] = "WAITING_FOR_HUMAN"
        PROVE  n # d.node /\ s.node[n] = "WAITING_FOR_HUMAN"
    BY <2>5, <2>6, <2>7, <2>9, KindsDiffer
  <2>10. ASSUME NEW n \in ExecutionNodes, t.node[n] = "COMPLETED"
         PROVE  s.node[n] = "COMPLETED"
    BY <2>5, <2>6, <2>7, <2>10, KindsDiffer
  <2>11. \A e \in s.open \ t.open : BlockedNodes(e) \subseteq {d.node}
    BY <2>6, <2>7, BlockedIsNode
  <2>12. RecordHolds(t, S)
    BY <2>7, <2>9, <2>10, <2>11, HoldsKept
  <2> QED BY <2>8, <2>12
<1>3. RecordHolds(InvalidateStaleRouting(s), S)
  <2> DEFINE stale == StaleRoutingDecisions(s)
             N == {d.node : d \in stale}
             u == SetNodes(s, N, "PENDING")
             v == [u EXCEPT !.open = @ \ stale]
             t == PlannedUnlessOpen(v)
  <2>1. /\ u \in RunRecord /\ v \in RunRecord /\ v.open = s.open \ stale
        /\ v.node = [n \in Node |-> IF n \in N THEN "PENDING" ELSE s.node[n]]
    BY SetNodesType DEF NodeStatus, SetNodes, RunRecord
  <2>2. \A d \in s.open \ v.open : BlockedNodes(d) \subseteq N
    BY <2>1, BlockedIsNode
  <2>3. InvalidateStaleRouting(s) = IF stale = {} THEN s ELSE t
    BY DEF InvalidateStaleRouting
  <2> HIDE DEF v, N, stale
  <2>4. /\ t.node = v.node /\ t.open = v.open
        /\ t.open = {} => t.status = "PLANNED_RESEARCH"
    BY <2>1, PlannedIsNotWaiting
  <2> HIDE DEF t
  <2>5. RecordHolds(t, S)
    BY <2>1, <2>2, <2>4, HoldsKept, KindsDiffer
  <2> QED BY <2>3, <2>5
<1> QED BY <1>1, <1>2, <1>3

\* Extending the budget, writing a package, and what a supervisor reports.
LEMMA StatusesHold ==
  ASSUME NEW s \in RunRecord, NEW S, RecordHolds(s, S)
  PROVE  /\ RecordHolds(ExtendBudget(s), S)
         /\ RecordHolds(WritePackage(s), S)
         /\ RecordHolds([s EXCEPT !.status = "BLOCKED_RESEARCH_NOT_READY"], S)
         /\ s.open # {} =>
              RecordHolds([s EXCEPT !.status = "WAITING_FOR_HUMAN"], S)
<1>1. RecordHolds(ExtendBudget(s), S)
  <2> DEFINE N == {n \in s.blocked : s.node[n] = "BLOCKED_BUDGET"}
             u == SetNodes(s, N, "PENDING")
             t == ExtendBudget(s)
  <2>1. /\ u.node = [n \in Node |-> IF n \in N THEN "PENDING" ELSE s.node[n]]
        /\ u.open = s.open /\ u.status = s.status /\ u \in RunRecord
    BY SetNodesType DEF SetNodes, RunRecord, NodeStatus
  <2>2. t = u \/ t = [u EXCEPT !.status = "PLANNED_RESEARCH"]
    BY DEF ExtendBudget
  <2> HIDE DEF u, t
  <2>3. /\ t.node = u.node /\ t.open = s.open
        /\ t.status \in {s.status, "PLANNED_RESEARCH"}
    BY <2>1, <2>2 DEF RunRecord
  <2>4. RecordHolds(t, S)
    BY <2>1, <2>3, KindsDiffer DEF RecordHolds
  <2> QED BY <2>4 DEF t
<1>2. RecordHolds(WritePackage(s), S)
  BY DEF WritePackage, RecordHolds, RunRecord
<1>3. RecordHolds([s EXCEPT !.status = "BLOCKED_RESEARCH_NOT_READY"], S)
  BY DEF RecordHolds, RunRecord
<1>4. ASSUME s.open # {} PROVE RecordHolds([s EXCEPT !.status = "WAITING_FOR_HUMAN"], S)
  BY <1>4 DEF RecordHolds, RunRecord
<1> QED BY <1>1, <1>2, <1>3, <1>4

\* The two repairs: what they reopen waits no more and loses its decisions, and
\* what they restore is no execution.
LEMMA RepairsHold ==
  ASSUME NEW s \in RunRecord, NEW S, RecordHolds(s, S)
  PROVE  /\ \A withQuestion \in BOOLEAN : RecordHolds(RepairEvidence(s, withQuestion), S)
         /\ RecordHolds(RepairCoverage(s), S)
<1>1. ASSUME NEW withQuestion \in BOOLEAN
      PROVE  RecordHolds(RepairEvidence(s, withQuestion), S)
  <2> DEFINE N == EarliestNodes(withQuestion)
                    \cup {n \in Dependents[EvidenceDiscovery] :
                            s.node[n] \notin {"PENDING", "LEASED"}}
             u == SetNodes(s, N, "PENDING")
             v == [u EXCEPT !.open = {d \in @ : BlockedNodes(d) \cap N = {}},
                            !.selected = @ /\ QuestionRefinement \notin Node]
             t == PlannedUnlessOpen(v)
  <2>1. u \in RunRecord
    BY SetNodesType DEF NodeStatus
  <2>2. /\ u.node = [n \in Node |-> IF n \in N THEN "PENDING" ELSE s.node[n]]
        /\ u.open = s.open
    BY DEF SetNodes, RunRecord
  <2>3. t = RepairEvidence(s, withQuestion)
    BY DEF RepairEvidence
  <2> HIDE DEF u, N
  <2>4. /\ v \in RunRecord /\ v.node = u.node
        /\ v.open = {d \in s.open : BlockedNodes(d) \cap N = {}}
    BY <2>1, <2>2 DEF RunRecord
  <2>5. \A d \in s.open \ v.open : BlockedNodes(d) \subseteq N
    BY <2>4, BlockedIsNode
  <2> HIDE DEF v
  <2>6. /\ t.node = v.node /\ t.open = v.open
        /\ t.open = {} => t.status = "PLANNED_RESEARCH"
    BY <2>4, PlannedIsNotWaiting
  <2> HIDE DEF t
  <2>7. RecordHolds(t, S)
    BY <2>2, <2>4, <2>5, <2>6, HoldsKept, KindsDiffer
  <2> QED BY <2>3, <2>7
<1>2. RecordHolds(RepairCoverage(s), S)
  <2> DEFINE P == s.snapshot \cup {n \in Upstream : s.node[n] = "COMPLETED"}
             t == [s EXCEPT !.snapshot = P, !.coverage = CoverageSufficient(s)]
             u == SetNodes(t, P, "COMPLETED")
             v == SetNodes(u, Downstream, "PENDING")
             w == [v EXCEPT !.status = "PARTIAL_RESEARCH"]
  <2>1. P \subseteq Upstream
    BY DEF RunRecord
  <2>2. RepairCoverage(s) = IF t.coverage THEN t ELSE w
    BY DEF RepairCoverage
  <2> HIDE DEF P
  <2>3. /\ t \in RunRecord /\ t.node = s.node
        /\ t.open = s.open /\ t.status = s.status
    BY <2>1 DEF RunRecord, CoverageSufficient
  <2> HIDE DEF t
  <2>4. /\ u \in RunRecord /\ u.open = s.open
        /\ u.node = [n \in Node |-> IF n \in P THEN "COMPLETED" ELSE s.node[n]]
    BY <2>3, SetNodesType DEF SetNodes, RunRecord, NodeStatus
  <2> HIDE DEF u
  <2>5. /\ w.open = s.open /\ w.status = "PARTIAL_RESEARCH"
        /\ w.node = [n \in Node |-> IF n \in Downstream THEN "PENDING" ELSE u.node[n]]
    BY <2>4 DEF SetNodes, RunRecord
  <2> HIDE DEF w
  <2>6. RecordHolds(w, S)
    BY <2>1, <2>4, <2>5, HoldsKept, KindsDiffer
  <2>7. RecordHolds(t, S)
    BY <2>3 DEF RecordHolds
  <2> QED BY <2>2, <2>6, <2>7
<1> QED BY <1>1, <1>2

-----------------------------------------------------------------------------
(* The invariant *)

HandoffInvariant ==
  /\ TypeOK
  /\ RecordHolds(disk, stored)
  /\ \A p \in Proc :
       /\ RecordHolds(proc[p].copy, stored)
       /\ proc[p].pc = "stored" => proc[p].node \in stored

\* More reports in the store do not matter to a record.
LEMMA HoldsWithMore ==
  ASSUME NEW s, NEW S, NEW T, RecordHolds(s, S), S \subseteq T
  PROVE  RecordHolds(s, T)
BY DEF RecordHolds

\* Saving an outcome that holds, and going on or not.
LEMMA SaveOutcomeHolds ==
  ASSUME HandoffInvariant, TypeOK', UNCHANGED stored, NEW p \in Proc, NEW s,
         RecordHolds(s, stored), SaveOutcome(p, s)
  PROVE  HandoffInvariant'
<1>1. /\ disk' = s
      /\ proc'[p].copy \in {s, CreateRunState}
      /\ proc'[p].pc \in {"idle", "loop"}
      /\ \A q \in Proc : q # p => proc'[q] = proc[q]
  BY DEF SaveOutcome, HandoffInvariant, TypeOK, Program, IdleProgram
<1> QED BY <1>1, CreateRunStateHolds DEF HandoffInvariant

\* Exiting, after saving a record that holds or without saving.
LEMMA ExitHolds ==
  ASSUME HandoffInvariant, TypeOK', UNCHANGED stored, NEW p \in Proc,
         RecordHolds(disk', stored), Exit(p)
  PROVE  HandoffInvariant'
<1>1. /\ proc'[p] = IdleProgram
      /\ \A q \in Proc : q # p => proc'[q] = proc[q]
  BY DEF Exit, HandoffInvariant, TypeOK
<1> QED BY <1>1, CreateRunStateHolds DEF HandoffInvariant, IdleProgram

\* Starting a program on a record that holds.
LEMMA StartHolds ==
  ASSUME HandoffInvariant, TypeOK', NEW p \in Proc, NEW kind,
         NEW pc \in {"start"} \cup Commands, NEW s, RecordHolds(s, stored),
         Start(p, kind, pc, s)
  PROVE  HandoffInvariant'
<1>1. /\ disk' = disk /\ stored' = stored /\ proc'[p].copy = s /\ proc'[p].pc = pc
      /\ \A q \in Proc : q # p => proc'[q] = proc[q]
  BY DEF Start, HandoffInvariant, TypeOK
<1>2. pc # "stored"
  BY CommandAssumption DEF LifecycleCommands
<1> QED BY <1>1, <1>2 DEF HandoffInvariant

\* Every command.
LEMMA OperateHolds ==
  ASSUME HandoffInvariant, TypeOK', NEW p \in Proc, Operate(p)
  PROVE  HandoffInvariant'
<1> DEFINE c == proc[p].copy
<1>1. c \in RunRecord /\ RecordHolds(c, stored) /\ RecordHolds(disk, stored)
  BY DEF HandoffInvariant, TypeOK, Program
<1>2. ASSUME NEW m, NEW s, RecordHolds(s, stored), Run(p, m, s)
      PROVE  HandoffInvariant'
  BY <1>2, ExitHolds DEF Run, SaveAndExit
<1> HIDE DEF c
<1>3. CASE Answer(p)
  BY <1>1, <1>2, <1>3, DecisionsHoldOn DEF Answer, c
<1>4. CASE Submit(p)
  BY <1>1, <1>2, <1>4, DecisionsHoldOn DEF Submit, c
<1>5. CASE ExtendLimit(p)
  BY <1>1, <1>2, <1>5, StatusesHold DEF ExtendLimit, c
<1>6. CASE RepairEvidenceRelevance(p)
  BY <1>1, <1>2, <1>6, RepairsHold DEF RepairEvidenceRelevance, c
<1>7. CASE RepairCompletionCoverage(p)
  BY <1>1, <1>2, <1>7, RepairsHold DEF RepairCompletionCoverage, c
<1>8. CASE Package(p)
  BY <1>1, <1>2, <1>8, StatusesHold DEF Package, c
<1>9. CASE CommandFails(p)
  BY <1>1, <1>9, ExitHolds DEF CommandFails
<1> QED BY <1>3, <1>4, <1>5, <1>6, <1>7, <1>8, <1>9 DEF Operate

\* Leasing a node and every outcome of its execution.
LEMMA StepHolds ==
  ASSUME HandoffInvariant, TypeOK', NEW p \in Proc, Step(p)
  PROVE  HandoffInvariant'
<1> DEFINE c == proc[p].copy
<1>1. /\ c \in RunRecord /\ RecordHolds(c, stored) /\ RecordHolds(disk, stored)
      /\ TypeOK /\ (proc[p].pc = "stored" => proc[p].node \in stored)
  BY DEF HandoffInvariant, TypeOK, Program
<1>2. Recovered(p) \in RunRecord /\ RecordHolds(Recovered(p), stored)
  BY <1>1, LeaseTypes, LeasesHold, NodeAssumption DEF Recovered
<1> HIDE DEF c
<1>3. CASE LeaseReadyNode(p)
  <2>1. PICK n \in ReadyNodes(Recovered(p)) :
          /\ disk' = LeaseNode(Recovered(p), n)
          /\ proc' = [proc EXCEPT ![p] =
               [proc[p] EXCEPT !.pc = "executing",
                               !.copy = LeaseNode(Recovered(p), n),
                               !.node = n]]
    BY <1>3 DEF LeaseReadyNode
  <2> DEFINE s == LeaseNode(Recovered(p), n)
  <2>2. RecordHolds(s, stored)
    BY <1>2, LeasesHold DEF ReadyNodes
  <2>3. /\ disk' = s /\ proc'[p].copy = s /\ proc'[p].pc = "executing"
        /\ \A q \in Proc : q # p => proc'[q] = proc[q]
    BY <1>1, <2>1 DEF TypeOK, Program
  <2> HIDE DEF s
  <2> QED BY <1>3, <2>2, <2>3 DEF HandoffInvariant, LeaseReadyNode
<1>4. CASE LoopEnds(p)
  BY <1>1, <1>4, ExitHolds DEF LoopEnds
<1>5. CASE SupervisorWaits(p)
  BY <1>1, <1>5, StatusesHold, ExitHolds DEF SupervisorWaits, SaveAndExit, c
<1>6. CASE SupervisorPackages(p)
  BY <1>2, <1>6, StatusesHold, ExitHolds DEF SupervisorPackages, SaveAndExit
<1>7. CASE StoreReport(p)
  <2>1. /\ disk' = disk /\ stored' = stored \cup {proc[p].node}
        /\ proc'[p].copy = c /\ proc'[p].node = proc[p].node
        /\ \A q \in Proc : q # p => proc'[q] = proc[q]
    BY <1>1, <1>7 DEF StoreReport, TypeOK, Program, c
  <2>2. \A q \in Proc : RecordHolds(proc'[q].copy, stored')
    BY <2>1, HoldsWithMore DEF HandoffInvariant, c
  <2>3. RecordHolds(disk', stored')
    BY <1>1, <2>1, HoldsWithMore
  <2> QED BY <2>1, <2>2, <2>3 DEF HandoffInvariant
<1>8. CASE ReportConflict(p)
  <2>1. proc[p].node \in Node
    BY <1>8, NodeNames DEF ReportConflict
  <2> QED BY <1>1, <1>8, <2>1, OutcomesHold, SaveOutcomeHolds DEF ReportConflict, StopStatus, c
<1>9. CASE FinishNode(p)
  <2>1. PICK n \in Node :
          /\ Executing(p, n)
          /\ n \in ExecutionNodes => proc[p].pc = "stored"
          /\ \E s \in Completions(c, n) : SaveOutcome(p, s)
    BY <1>9 DEF FinishNode, c
  <2>2. n \in ExecutionNodes => n \in stored
    BY <1>1, <2>1 DEF Executing
  <2>3. \A s \in Completions(c, n) : RecordHolds(s, stored)
    BY <1>1, <2>2, HandlersHold
  <2> QED BY <1>9, <2>1, <2>3, SaveOutcomeHolds DEF FinishNode
<1>10. CASE StopNode(p)
  <2>1. PICK n \in Node, st \in Stops :
          \E s \in Cleared(c, n) : SaveOutcome(p, BlockNode(s, n, st))
    BY <1>10 DEF StopNode, c
  <2>2. PICK s \in Cleared(c, n) : SaveOutcome(p, BlockNode(s, n, st))
    BY <2>1
  <2>3. s \in RunRecord /\ RecordHolds(s, stored)
    BY <1>1, HandlerTypes, HandlersHold
  <2>4. RecordHolds(BlockNode(s, n, st), stored)
    BY <2>3, OutcomesHold, StopAssumption DEF StopStatus
  <2> QED BY <1>10, <2>2, <2>4, SaveOutcomeHolds DEF StopNode
<1>11. CASE ExhaustBudget(p)
  <2>1. PICK n \in Node, recorded \in BOOLEAN :
          SaveOutcome(p, BudgetBlock(c, n, recorded))
    BY <1>11 DEF ExhaustBudget, c
  <2>2. RecordHolds(BudgetBlock(c, n, recorded), stored)
    BY <1>1, OutcomesHold
  <2> QED BY <1>11, <2>1, <2>2, SaveOutcomeHolds DEF ExhaustBudget
<1>12. CASE HandOff(p)
  <2>1. PICK n \in Node, cause \in Causes :
          /\ MayHandOff(n, cause)
          /\ \E s \in Cleared(c, n) : SaveOutcome(p, RequestDecision(s, n, cause))
    BY <1>12 DEF HandOff, c
  <2>2. PICK s \in Cleared(c, n) : SaveOutcome(p, RequestDecision(s, n, cause))
    BY <2>1
  <2>3. s \in RunRecord /\ RecordHolds(s, stored) /\ cause \in Cause
    BY <1>1, HandlerTypes, HandlersHold, CauseAssumption
  <2>4. RecordHolds(RequestDecision(s, n, cause), stored)
    BY <2>1, <2>3, RequestHolds
  <2> QED BY <1>12, <2>2, <2>4, SaveOutcomeHolds DEF HandOff
<1> QED BY <1>3, <1>4, <1>5, <1>6, <1>7, <1>8, <1>9, <1>10, <1>11, <1>12 DEF Step

\* Every step keeps the invariant.
LEMMA HandoffStep == HandoffInvariant /\ [Next]_vars => HandoffInvariant'
<1> SUFFICES ASSUME HandoffInvariant, [Next]_vars PROVE HandoffInvariant'
  OBVIOUS
<1>1. TypeOK /\ TypeOK'
  BY TypeStep DEF HandoffInvariant
<1>2. /\ disk \in RunRecord /\ RecordHolds(disk, stored)
      /\ \A p \in Proc : proc[p].copy \in RunRecord /\ RecordHolds(proc[p].copy, stored)
  BY DEF HandoffInvariant, TypeOK, Program
<1>3. CASE UNCHANGED vars
  BY <1>1, <1>2, <1>3 DEF vars, HandoffInvariant
<1>4. ASSUME NEW p \in Proc, StartWorker(p) PROVE HandoffInvariant'
  BY <1>1, <1>2, <1>4, LeasesHold, StartHolds DEF StartWorker
<1>5. ASSUME NEW p \in Proc, StartSupervisor(p) PROVE HandoffInvariant'
  <2>1. /\ InvalidateStaleRouting(disk) \in RunRecord
        /\ RecordHolds(InvalidateStaleRouting(disk), stored)
    BY <1>2, DecisionTypes, DecisionsHoldOn
  <2> QED BY <1>1, <1>5, <2>1, LeasesHold, StartHolds DEF StartSupervisor
<1>6. ASSUME NEW p \in Proc, StartCommand(p) PROVE HandoffInvariant'
  BY <1>1, <1>2, <1>6, StartHolds DEF StartCommand
<1>7. ASSUME NEW p \in Proc, Step(p) PROVE HandoffInvariant'
  BY <1>1, <1>7, StepHolds
<1>8. ASSUME NEW p \in Proc, Operate(p) PROVE HandoffInvariant'
  BY <1>1, <1>8, OperateHolds
<1>9. ASSUME NEW p \in Proc, Crash(p) PROVE HandoffInvariant'
  BY <1>1, <1>2, <1>9, ExitHolds DEF Crash
<1>10. CASE Tick
  <2>1. /\ disk' = Elapse(disk) /\ stored' = stored
        /\ \A q \in Proc : /\ proc'[q].pc = proc[q].pc
                           /\ proc'[q].node = proc[q].node
                           /\ proc'[q].copy = Elapse(proc[q].copy)
    BY <1>1, <1>10 DEF Tick, TypeOK, Program
  <2> QED BY <1>1, <1>2, <2>1, LeasesHold DEF HandoffInvariant
<1> QED BY <1>3, <1>4, <1>5, <1>6, <1>7, <1>8, <1>9, <1>10 DEF Next

\* A node is handed to a human with a decision that reopens it, a run that waits
\* has one to answer, and reports precede completions, in every record that any
\* program holds, under the commands of LifecycleCommands.
THEOREM HandoffsHold == Spec => []HandoffInvariant
<1>1. Init => HandoffInvariant
  <2> SUFFICES ASSUME Init PROVE HandoffInvariant
    OBVIOUS
  <2>1. TypeOK
    BY CreateRunStateType, IdleType DEF Init, TypeOK
  <2> QED BY <2>1, CreateRunStateHolds DEF Init, HandoffInvariant, IdleProgram
<1> QED BY <1>1, HandoffStep, PTL DEF Spec

\* A node with an installer for the human's answer never waits in vain, whatever
\* was killed or overwritten and whichever commands of LifecycleCommands were
\* used (src/src/decisions.py:86-107).
THEOREM WaitingNodesAreAsked == Spec => []WaitingModelNodeHasOpenDecision
<1>1. HandoffInvariant => WaitingModelNodeHasOpenDecision
  BY DEF HandoffInvariant, RecordHolds, WaitingModelNodeHasOpenDecision, Records
<1> QED BY <1>1, HandoffsHold, PTL

\* No command of LifecycleCommands closes the last decision and leaves the run
\* waiting (src/src/supervisor.py:12-24).  The structured repairs, which are left
\* out, do: after a coverage repair they invalidate the last decision and keep
\* WAITING_FOR_HUMAN (src/src/research_runtime.py:2303-2359;
\* StructuredRepair!WaitingRunAsks is refuted with that repair).
THEOREM WaitingRunsAsk == Spec => []WaitingRunHasOpenDecision
<1>1. HandoffInvariant => WaitingRunHasOpenDecision
  BY DEF HandoffInvariant, RecordHolds, WaitingRunHasOpenDecision, Records
<1> QED BY <1>1, HandoffsHold, PTL

\* A COMPLETED execution has its report in the store, with any number of programs
\* that execute the same node and overwrite each other's record
\* (src/src/research_runtime.py:4594-4620).
THEOREM ReportsPrecedeCompletion == Spec => []CompletedExecutionHasReport
<1>1. HandoffInvariant => CompletedExecutionHasReport
  BY DEF HandoffInvariant, RecordHolds, CompletedExecutionHasReport, Records
<1> QED BY <1>1, HandoffsHold, PTL

-----------------------------------------------------------------------------
(***************************************************************************)
(* RunLifecycle, verification.  RESEARCH_COMPLETE is written by completing *)
(* a node, by the package and by the readiness node; nodes are reopened by *)
(* repairs and answers that may leave the status alone, so that the        *)
(* coverage, the claims and the status are judged at different times.      *)
(* They agree nevertheless, because a record's claims are judged once: a   *)
(* repair that reopens the adjudication reopens the executions, whose      *)
(* reports are immutable, so that none is completed a second time.         *)
(***************************************************************************)

\* The run's evidence comes from executions, on what was discovered; claims are
\* adjudicated behind them, and readiness is judged last, as in the default chain.
EvidenceIsExecuted ==
  /\ ClaimAdjudication \in Node /\ ResearchReadiness \in Node
  /\ ExecutionNodes # {}
  /\ \A e \in ExecutionNodes :
       e \in Dependents[EvidenceDiscovery] /\ ClaimAdjudication \in Dependents[e]
  /\ \A n \in Node \ {ResearchReadiness} : ResearchReadiness \in Dependents[n]

-----------------------------------------------------------------------------
(* What is said of a record *)

Executed(s) == \A e \in ExecutionNodes : s.node[e] = "COMPLETED"

Earned(s) == s.coverage /\ s.claims = "DIRECT" /\ Executed(s)

\* A record with a verdict has it from its adjudication, and then lost at least
\* one execution, or else has the adjudication.
VerdictStands(s) ==
  s.claims # "NONE" => s.node[ClaimAdjudication] = "COMPLETED" \/ ~ Executed(s)

RecordEarned(s, S) ==
  /\ VerdictStands(s)
  /\ s.claims # "NONE" => ExecutionNodes \subseteq S
  /\ s.coverage => s.claims \in {"DIRECT", "CONTESTED"}
  /\ s.status = "RESEARCH_COMPLETE" /\ s.open = {} => Earned(s)

\* Neither upstream nodes nor model nodes execute or adjudicate.
LEMMA JudgingNodes ==
  /\ Upstream \cap ExecutionNodes = {} /\ ClaimAdjudication \notin Upstream
  /\ ExecutionNodes \subseteq Downstream /\ ExecutionNodes \subseteq Node
  /\ ClaimAdjudication \notin ExecutionNodes /\ ResearchReadiness \notin ExecutionNodes
  /\ ClaimAdjudication # ResearchReadiness /\ ModelNodes \subseteq Upstream
BY NodeAssumption DEF Upstream, Downstream, ExecutionNodes, ModelNodes, ClaimAdjudication,
     ResearchReadiness, QuestionDiscovery, EvidenceDiscovery, QuestionRefinement,
     SkillDiscovery

\* What depends on a node that is not COMPLETED cannot run.
LEMMA NothingRunsBehind ==
  ASSUME NEW s \in RunRecord, DependenciesBehindProgress(s),
         NEW n \in Node, NEW k \in Dependents[n], s.node[n] # "COMPLETED"
  PROVE  ~ DependenciesSatisfied(s, k)
<1> DEFINE S == {m \in Node : ~ DependenciesSatisfied(s, m)}
<1>1. ASSUME NEW m \in Node, n \in Deps[m] \/ Deps[m] \cap S # {}
      PROVE  m \in S
  <2>1. CASE n \in Deps[m]
    BY <2>1 DEF DependenciesSatisfied
  <2>2. CASE Deps[m] \cap S # {}
    <3>1. PICK j \in Deps[m] : j \in Node /\ ~ DependenciesSatisfied(s, j)
      BY <2>2
    <3>2. s.node[j] # "COMPLETED"
      BY <3>1 DEF DependenciesBehindProgress
    <3> QED BY <3>1, <3>2 DEF DependenciesSatisfied
  <2> QED BY <1>1, <2>1, <2>2
<1>2. S \in SUBSET Node
  OBVIOUS
<1>3. k \in S
  BY <1>1, <1>2 DEF Dependents
<1> QED BY <1>3

\* A record that keeps the claims: the adjudication is not lost without an
\* execution, no execution is completed under a verdict, and the status is earned.
LEMMA EarnedKept ==
  ASSUME NEW s, NEW t, NEW S, RecordEarned(s, S), t.claims = s.claims,
         t.coverage => s.coverage \/ t.claims \in {"DIRECT", "CONTESTED"},
         s.claims # "NONE" /\ s.node[ClaimAdjudication] = "COMPLETED"
           => t.node[ClaimAdjudication] = "COMPLETED" \/ ~ Executed(t),
         s.claims # "NONE" /\ Executed(t) => Executed(s),
         t.status = "RESEARCH_COMPLETE" /\ t.open = {} => Earned(t)
  PROVE  RecordEarned(t, S)
BY DEF RecordEarned, VerdictStands

\* The same of a record whose status did not become RESEARCH_COMPLETE.
LEMMA EarnedQuietly ==
  ASSUME NEW s, NEW t, NEW S, RecordEarned(s, S),
         t.claims = s.claims, t.coverage = s.coverage,
         t.node[ClaimAdjudication] = s.node[ClaimAdjudication]
           \/ s.node[ClaimAdjudication] # "COMPLETED",
         \A e \in ExecutionNodes :
           s.node[e] = "COMPLETED" <=> t.node[e] = "COMPLETED",
         t.status = "RESEARCH_COMPLETE" /\ t.open = {} =>
           s.status = "RESEARCH_COMPLETE" /\ s.open = {}
  PROVE  RecordEarned(t, S)
BY DEF RecordEarned, VerdictStands, Executed, Earned

-----------------------------------------------------------------------------
(* The operations on records *)

\* A new run's record.
LEMMA CreateRunStateEarned == \A S : RecordEarned(CreateRunState, S)
BY DEF CreateRunState, RecordEarned, VerdictStands

\* Recovering leases, leasing and the passing of time.
LEMMA LeasesEarned ==
  ASSUME EvidenceIsExecuted, NEW s \in RunRecord, NEW S, RecordEarned(s, S)
  PROVE  /\ RecordEarned(RecoverExpiredLeases(s), S)
         /\ \A n \in ReadyNodes(s) : RecordEarned(LeaseNode(s, n), S)
         /\ RecordEarned(Elapse(s), S)
<1>1. RecordEarned(RecoverExpiredLeases(s), S)
  <2> DEFINE N == {n \in Node : s.node[n] = "LEASED" /\ s.lease[n] = 0}
             t == SetNodes(s, N, "PENDING")
  <2>1. /\ t.node = [n \in Node |-> IF n \in N THEN "PENDING" ELSE s.node[n]]
        /\ t.claims = s.claims /\ t.coverage = s.coverage
        /\ t.status = s.status /\ t.open = s.open
    BY DEF SetNodes, RunRecord
  <2>2. t = RecoverExpiredLeases(s)
    BY DEF RecoverExpiredLeases
  <2> HIDE DEF t
  <2>3. RecordEarned(t, S)
    BY <2>1, EarnedQuietly, JudgingNodes DEF EvidenceIsExecuted
  <2> QED BY <2>2, <2>3
<1>2. ASSUME NEW n \in ReadyNodes(s) PROVE RecordEarned(LeaseNode(s, n), S)
  <2> DEFINE t == LeaseNode(s, n)
  <2>1. /\ n \in Node /\ s.node[n] = "PENDING"
        /\ \A m \in Node : t.node[m] = IF m = n THEN "LEASED" ELSE s.node[m]
        /\ t.claims = s.claims /\ t.coverage = s.coverage
        /\ t.status = s.status /\ t.open = s.open
    BY DEF LeaseNode, RunRecord, ReadyNodes
  <2> HIDE DEF t
  <2>2. RecordEarned(t, S)
    BY <2>1, EarnedQuietly, JudgingNodes DEF EvidenceIsExecuted
  <2> QED BY <2>2 DEF t
<1>3. RecordEarned(Elapse(s), S)
  BY EarnedQuietly DEF Elapse, RunRecord
<1> QED BY <1>1, <1>2, <1>3

\* Stopping a node that is executed, and handing it over.
LEMMA StopsEarned ==
  ASSUME EvidenceIsExecuted, NEW s \in RunRecord, NEW S, RecordEarned(s, S),
         NEW n \in Node, s.node[n] = "LEASED"
  PROVE  /\ \A st \in StopStatus : RecordEarned(BlockNode(s, n, st), S)
         /\ \A recorded \in BOOLEAN : RecordEarned(BudgetBlock(s, n, recorded), S)
         /\ \A cause \in Cause : RecordEarned(RequestDecision(s, n, cause), S)
<1>1. ASSUME NEW t, NEW st \in StopStatus, t.node = [s.node EXCEPT ![n] = st],
             t.claims = s.claims, t.coverage = s.coverage, t.status = st
      PROVE  RecordEarned(t, S)
  <2>1. /\ \A m \in Node : t.node[m] = IF m = n THEN st ELSE s.node[m]
        /\ st # "COMPLETED" /\ st # "RESEARCH_COMPLETE"
    BY <1>1 DEF RunRecord, StopStatus
  <2>2. /\ \/ t.node[ClaimAdjudication] = s.node[ClaimAdjudication]
           \/ s.node[ClaimAdjudication] # "COMPLETED"
        /\ \A e \in ExecutionNodes :
             s.node[e] = "COMPLETED" <=> t.node[e] = "COMPLETED"
    BY <2>1, JudgingNodes DEF EvidenceIsExecuted
  <2>3. /\ t.status # "RESEARCH_COMPLETE"
        /\ t.claims = s.claims /\ t.coverage = s.coverage
    BY <1>1, <2>1
  <2> QED BY <2>2, <2>3, EarnedQuietly
<1>2. ASSUME NEW st \in StopStatus PROVE RecordEarned(BlockNode(s, n, st), S)
  <2> DEFINE t == BlockNode(s, n, st)
  <2>1. /\ t.node = [s.node EXCEPT ![n] = st] /\ t.status = st
        /\ t.claims = s.claims /\ t.coverage = s.coverage
    BY DEF BlockNode, SetNode, RunRecord
  <2> QED BY <1>1, <2>1
<1>3. ASSUME NEW recorded \in BOOLEAN PROVE RecordEarned(BudgetBlock(s, n, recorded), S)
  <2> DEFINE t == BudgetBlock(s, n, recorded)
  <2>1. /\ t.node = [s.node EXCEPT ![n] = "BLOCKED_BUDGET"] /\ t.status = "BLOCKED_BUDGET"
        /\ t.claims = s.claims /\ t.coverage = s.coverage
    BY DEF BudgetBlock, BlockNode, SetNode, RunRecord
  <2> QED BY <1>1, <2>1 DEF StopStatus
<1>4. ASSUME NEW cause \in Cause PROVE RecordEarned(RequestDecision(s, n, cause), S)
  <2> DEFINE t == RequestDecision(s, n, cause)
  <2>1. /\ t.node = [s.node EXCEPT ![n] = "WAITING_FOR_HUMAN"]
        /\ t.status = "WAITING_FOR_HUMAN"
        /\ t.claims = s.claims /\ t.coverage = s.coverage
    BY DEF RequestDecision, BlockNode, SetNode, RunRecord
  <2> QED BY <1>1, <2>1 DEF StopStatus
<1> QED BY <1>2, <1>3, <1>4

\* Dropping the selected question.
LEMMA ClearedEarned ==
  ASSUME NEW s \in RunRecord, NEW S, RecordEarned(s, S), NEW n, NEW t \in Cleared(s, n)
  PROVE  RecordEarned(t, S)
BY EarnedQuietly DEF Cleared, RunRecord

\* Writing a package behind the gate.
LEMMA PackageEarned ==
  ASSUME NEW s \in RunRecord, NEW S, RecordEarned(s, S), PaperReady(s)
  PROVE  RecordEarned(WritePackage(s), S)
<1> DEFINE t == WritePackage(s)
<1>1. /\ t.node = s.node /\ t.claims = s.claims /\ t.coverage = s.coverage
  BY DEF WritePackage, RunRecord
<1>2. Earned(t)
  BY <1>1 DEF RecordEarned, PaperReady, Earned, Executed
<1> HIDE DEF t
<1>3. RecordEarned(t, S)
  BY <1>1, <1>2, EarnedKept DEF Executed
<1> QED BY <1>3 DEF t

\* Completing a node that is executed.  An execution is completed without a
\* verdict only, and the verdict is given without one.
LEMMA CompletionsEarned ==
  ASSUME EvidenceIsExecuted, NEW s \in RunRecord, NEW S, RecordEarned(s, S),
         RecordConsistent(s), RecordHolds(s, S),
         NEW n \in Node, s.node[n] = "LEASED", DependenciesSatisfied(s, n),
         n \in ExecutionNodes => s.claims = "NONE"
  PROVE  \A t \in Completions(s, n) : RecordEarned(t, S)
<1>1. DependenciesBehindProgress(s)
  BY DEF RecordConsistent
<1>2. ASSUME n # ResearchReadiness PROVE s.node[ResearchReadiness] # "COMPLETED"
  <2>1. ~ DependenciesSatisfied(s, ResearchReadiness)
    BY <1>1, <1>2, NothingRunsBehind DEF EvidenceIsExecuted
  <2> QED BY <1>1, <2>1 DEF DependenciesBehindProgress, EvidenceIsExecuted
<1>3. ASSUME n = ClaimAdjudication PROVE s.claims = "NONE" /\ Executed(s)
  <2>1. Executed(s)
    BY <1>1, <1>3, NothingRunsBehind, JudgingNodes DEF Executed, EvidenceIsExecuted
  <2> QED BY <1>3, <2>1 DEF RecordEarned, VerdictStands
<1> DEFINE c == CompleteNode(s, n)
<1>4. ASSUME n # ResearchReadiness
      PROVE  /\ \A m \in Node : c.node[m] = IF m = n THEN "COMPLETED" ELSE s.node[m]
             /\ c.claims = s.claims /\ c.coverage = s.coverage
             /\ c.status = s.status /\ c.open = s.open /\ c \in RunRecord
  <2>1. SetNode(s, n, "COMPLETED").node[ResearchReadiness] # "COMPLETED"
    BY <1>2, <1>4 DEF SetNode, RunRecord, EvidenceIsExecuted
  <2>2. c = SetNode(s, n, "COMPLETED")
    BY <2>1 DEF CompleteNode, AllCompleted, EvidenceIsExecuted
  <2>3. c \in RunRecord
    BY OutcomeTypes DEF StopStatus
  <2> QED BY <2>2, <2>3 DEF SetNode, RunRecord
<1>5. CASE n \notin {ResearchReadiness, ClaimAdjudication}
  <2> HIDE DEF c
  <2>1. ASSUME NEW t, t.node = c.node, t.claims = s.claims, t.coverage = s.coverage,
               t.status = s.status, t.open = s.open
        PROVE  RecordEarned(t, S)
    <3>1. t.node[ClaimAdjudication] = s.node[ClaimAdjudication]
      BY <1>4, <1>5, <2>1 DEF EvidenceIsExecuted
    <3>2. s.claims # "NONE" => \A e \in ExecutionNodes : t.node[e] = s.node[e]
      BY <1>4, <1>5, <2>1, JudgingNodes
    <3>3. s.status = "RESEARCH_COMPLETE" /\ s.open = {} => Earned(s) /\ s.claims # "NONE"
      BY DEF RecordEarned, Earned
    <3>4. t.status = "RESEARCH_COMPLETE" /\ t.open = {} => Earned(t)
      BY <2>1, <3>2, <3>3 DEF Earned, Executed
    <3>5. s.claims # "NONE" /\ Executed(t) => Executed(s)
      BY <3>2 DEF Executed
    <3> QED BY <2>1, <3>1, <3>4, <3>5, EarnedKept
  <2>2. ASSUME NEW t \in Completions(s, n)
        PROVE  /\ t.node = c.node /\ t.claims = s.claims /\ t.coverage = s.coverage
               /\ t.status = s.status /\ t.open = s.open
    <3>1. t = [c EXCEPT !.selected = @ \/ n = QuestionRefinement]
      BY <1>5, <2>2 DEF Completions, c
    <3> QED BY <1>4, <1>5, <3>1 DEF RunRecord
  <2> QED BY <2>1, <2>2
<1>6. CASE n = ClaimAdjudication
  <2> HIDE DEF c
  <2>1. n # ResearchReadiness /\ s.claims = "NONE" /\ Executed(s)
    BY <1>3, <1>6, JudgingNodes
  <2>2. ~ s.coverage /\ ExecutionNodes \subseteq S
        /\ ~ (s.status = "RESEARCH_COMPLETE" /\ s.open = {})
    BY <2>1 DEF RecordEarned, Earned, RecordHolds, Executed
  <2>3. ASSUME NEW v \in ClaimVerdict PROVE RecordEarned([c EXCEPT !.claims = v], S)
    <3> DEFINE t == [c EXCEPT !.claims = v]
    <3>1. /\ t.node[ClaimAdjudication] = "COMPLETED" /\ ~ t.coverage
          /\ t.status = s.status /\ t.open = s.open
      BY <1>4, <1>6, <2>1, <2>2 DEF RunRecord
    <3> QED BY <2>2, <3>1 DEF RecordEarned, VerdictStands
  <2> QED BY <1>6, <2>1, <2>3 DEF Completions, c
<1>7. CASE n = ResearchReadiness
  <2> DEFINE u == [s EXCEPT !.coverage = CoverageSufficient(s)]
             v == CompleteNode(u, n)
  <2>1. /\ u \in RunRecord /\ u.node = s.node /\ u.open = s.open
        /\ u.status = s.status /\ u.claims = s.claims
        /\ u.coverage => u.claims \in {"DIRECT", "CONTESTED"}
    BY DEF RunRecord, CoverageSufficient
  <2> HIDE DEF u
  <2>2. /\ v \in RunRecord /\ v.claims = u.claims /\ v.coverage = u.coverage
        /\ v.open = u.open /\ v.node = [u.node EXCEPT ![n] = "COMPLETED"]
    BY <2>1, OutcomeTypes DEF StopStatus, CompleteNode, SetNode, RunRecord
  <2> HIDE DEF v
  <2>3. /\ v.node[ClaimAdjudication] = s.node[ClaimAdjudication]
        /\ \A e \in ExecutionNodes : v.node[e] = s.node[e]
    BY <1>7, <2>1, <2>2, JudgingNodes DEF EvidenceIsExecuted, RunRecord
  <2>4. ASSUME NEW t, t.claims = v.claims, t.coverage = v.coverage,
               t.node[ClaimAdjudication] = v.node[ClaimAdjudication],
               \A e \in ExecutionNodes : t.node[e] = v.node[e],
               t.status = "RESEARCH_COMPLETE" => PaperReady(v)
        PROVE  RecordEarned(t, S)
    <3>1. t.claims = s.claims /\ (t.coverage => t.claims \in {"DIRECT", "CONTESTED"})
      BY <2>1, <2>2, <2>4
    <3>2. /\ t.node[ClaimAdjudication] = s.node[ClaimAdjudication]
          /\ Executed(t) => Executed(s)
      BY <2>3, <2>4 DEF Executed
    <3>3. t.status = "RESEARCH_COMPLETE" => Earned(t)
      BY <2>4, <3>1 DEF PaperReady, Earned, Executed
    <3> QED BY <3>1, <3>2, <3>3, EarnedKept
  <2>5. RecordEarned([v EXCEPT !.status = "PARTIAL_RESEARCH"], S)
    BY <2>2, <2>4 DEF RunRecord
  <2>6. PaperReady(v) => RecordEarned(WritePackage(v), S)
    BY <2>2, <2>4 DEF WritePackage, RunRecord
  <2>7. RecordEarned(BlockNode(v, n, "BLOCKED_OTHER"), S)
    <3> DEFINE t == BlockNode(v, n, "BLOCKED_OTHER")
    <3>1. /\ t.claims = v.claims /\ t.coverage = v.coverage /\ t.status = "BLOCKED_OTHER"
          /\ t.node = [v.node EXCEPT ![n] = "BLOCKED_OTHER"]
      BY <2>2 DEF BlockNode, SetNode, RunRecord
    <3>2. /\ t.node[ClaimAdjudication] = v.node[ClaimAdjudication]
          /\ \A e \in ExecutionNodes : t.node[e] = v.node[e]
      BY <1>7, <2>2, <3>1, JudgingNodes DEF EvidenceIsExecuted, RunRecord
    <3> HIDE DEF t
    <3>3. RecordEarned(t, S)
      BY <2>4, <3>1, <3>2
    <3> QED BY <3>3 DEF t
  <2>8. RunReadiness(s) =
          IF ~ v.coverage THEN [v EXCEPT !.status = "PARTIAL_RESEARCH"]
          ELSE IF PaperReady(v) THEN WritePackage(v) ELSE BlockNode(v, n, "BLOCKED_OTHER")
    BY <1>7 DEF RunReadiness, u, v
  <2>9. RecordEarned(RunReadiness(s), S)
    BY <2>5, <2>6, <2>7, <2>8
  <2> QED BY <1>7, <2>9 DEF Completions
<1> QED BY <1>5, <1>6, <1>7

\* Decisions: answering, submitting, and those a new supervisor takes back.  What
\* they complete is no execution, and the last one that is closed plans the run.
LEMMA DecisionsEarned ==
  ASSUME EvidenceIsExecuted, NEW s \in RunRecord, NEW S, RecordEarned(s, S),
         RecordConsistent(s)
  PROVE  /\ \A d \in s.open :
              /\ RecordEarned(SubmitDecision(s, d), S)
              /\ BlockedNodes(d) # {} => RecordEarned(AnswerDecision(s, d), S)
         /\ RecordEarned(InvalidateStaleRouting(s), S)
<1>1. ASSUME NEW v \in RunRecord, NEW t, t = PlannedUnlessOpen(v),
             v.claims = s.claims, v.coverage = s.coverage,
             \/ v.node[ClaimAdjudication] = s.node[ClaimAdjudication]
             \/ s.node[ClaimAdjudication] # "COMPLETED",
             \A e \in ExecutionNodes :
               s.node[e] = "COMPLETED" <=> v.node[e] = "COMPLETED"
      PROVE  RecordEarned(t, S)
  <2>1. /\ t.node = v.node /\ t.claims = v.claims /\ t.coverage = v.coverage
        /\ ~ (t.status = "RESEARCH_COMPLETE" /\ t.open = {})
    BY <1>1 DEF PlannedUnlessOpen, RunRecord
  <2> QED BY <1>1, <2>1, EarnedQuietly
<1>2. ASSUME NEW N, NEW D, \A n \in N : s.node[n] = "WAITING_FOR_HUMAN"
      PROVE  RecordEarned(
               PlannedUnlessOpen([SetNodes(s, N, "PENDING") EXCEPT !.open = @ \ D]), S)
  <2> DEFINE u == SetNodes(s, N, "PENDING")
             v == [u EXCEPT !.open = @ \ D]
  <2>1. u \in RunRecord
    BY SetNodesType DEF NodeStatus
  <2>2. /\ \A n \in Node : u.node[n] = IF n \in N THEN "PENDING" ELSE s.node[n]
        /\ u.claims = s.claims /\ u.coverage = s.coverage
    BY DEF SetNodes, RunRecord
  <2> HIDE DEF u
  <2>3. /\ v \in RunRecord /\ v.node = u.node
        /\ v.claims = s.claims /\ v.coverage = s.coverage
    BY <2>1, <2>2 DEF RunRecord
  <2>4. /\ \/ v.node[ClaimAdjudication] = s.node[ClaimAdjudication]
           \/ s.node[ClaimAdjudication] # "COMPLETED"
        /\ \A e \in ExecutionNodes :
             s.node[e] = "COMPLETED" <=> v.node[e] = "COMPLETED"
    BY <1>2, <2>2, <2>3, JudgingNodes DEF EvidenceIsExecuted
  <2> HIDE DEF v
  <2> DEFINE t == PlannedUnlessOpen(v)
  <2> HIDE DEF t
  <2>5. t = PlannedUnlessOpen(v)
    BY DEF t
  <2>6. RecordEarned(t, S)
    BY <1>1, <2>3, <2>4, <2>5
  <2> QED BY <2>6 DEF t, v, u
<1>3. ASSUME NEW d \in s.open PROVE RecordEarned(SubmitDecision(s, d), S)
  BY <1>2 DEF SubmitDecision, Resolve
<1>4. RecordEarned(InvalidateStaleRouting(s), S)
  <2> DEFINE stale == StaleRoutingDecisions(s)
             N == {d.node : d \in stale}
  <2>1. \A n \in N : s.node[n] = "WAITING_FOR_HUMAN"
    BY DEF StaleRoutingDecisions
  <2>2. InvalidateStaleRouting(s) =
          IF stale = {} THEN s
          ELSE PlannedUnlessOpen([SetNodes(s, N, "PENDING") EXCEPT !.open = @ \ stale])
    BY DEF InvalidateStaleRouting
  <2> HIDE DEF N, stale
  <2> QED BY <1>2, <2>1, <2>2
<1>5. ASSUME NEW d \in s.open, BlockedNodes(d) # {}
      PROVE  RecordEarned(AnswerDecision(s, d), S)
  <2> DEFINE u == IF d.cause = "ATOMIC" THEN SetNode(s, d.node, "PENDING")
                                        ELSE ApplyHumanResponse(s, d.node)
             v == [u EXCEPT !.open = @ \ {d}]
             t == PlannedUnlessOpen(v)
  <2>1. d.node \in Upstream /\ d.node \in Node
    BY <1>5 DEF BlockedNodes, RecordConsistent, DecisionsHoldTheirNodes, RunRecord, Decision
  <2>2. CompleteNode(s, d.node) \in RunRecord /\ SetNode(s, d.node, "PENDING") \in RunRecord
    BY <2>1, OutcomeTypes, SetNodeType DEF StopStatus, NodeStatus
  <2>3. /\ SetNode(s, d.node, "PENDING").node = [s.node EXCEPT ![d.node] = "PENDING"]
        /\ SetNode(s, d.node, "PENDING").claims = s.claims
        /\ SetNode(s, d.node, "PENDING").coverage = s.coverage
        /\ CompleteNode(s, d.node).node = [s.node EXCEPT ![d.node] = "COMPLETED"]
        /\ CompleteNode(s, d.node).claims = s.claims
        /\ CompleteNode(s, d.node).coverage = s.coverage
    BY DEF CompleteNode, SetNode, RunRecord
  <2>4. /\ ApplyHumanResponse(s, d.node) \in RunRecord
        /\ ApplyHumanResponse(s, d.node).node \in
              {s.node, [s.node EXCEPT ![d.node] = "COMPLETED"]}
        /\ ApplyHumanResponse(s, d.node).claims = s.claims
        /\ ApplyHumanResponse(s, d.node).coverage = s.coverage
    BY <2>2, <2>3 DEF ApplyHumanResponse, RunRecord
  <2>5. /\ u \in RunRecord /\ u.claims = s.claims /\ u.coverage = s.coverage
        /\ u.node \in {s.node, [s.node EXCEPT ![d.node] = "COMPLETED"],
                       [s.node EXCEPT ![d.node] = "PENDING"]}
    BY <2>2, <2>3, <2>4
  <2>6. \A n \in Node : n # d.node => u.node[n] = s.node[n]
    BY <2>5 DEF RunRecord
  <2> HIDE DEF u
  <2>7. /\ v \in RunRecord /\ v.node = u.node
        /\ v.claims = s.claims /\ v.coverage = s.coverage
    BY <2>5 DEF RunRecord
  <2>8. /\ v.node[ClaimAdjudication] = s.node[ClaimAdjudication]
        /\ \A e \in ExecutionNodes :
             s.node[e] = "COMPLETED" <=> v.node[e] = "COMPLETED"
    BY <2>1, <2>6, <2>7, JudgingNodes DEF EvidenceIsExecuted
  <2> HIDE DEF v
  <2>9. t = AnswerDecision(s, d)
    BY DEF AnswerDecision, Resolve, u, v
  <2> HIDE DEF t
  <2>10. t = PlannedUnlessOpen(v)
    BY DEF t
  <2>11. RecordEarned(t, S)
    BY <1>1, <2>7, <2>8, <2>10
  <2> QED BY <2>9, <2>11
<1> QED BY <1>3, <1>4, <1>5

\* Extending the budget, and what a supervisor reports.
LEMMA ReportsEarned ==
  ASSUME EvidenceIsExecuted, NEW s \in RunRecord, NEW S, RecordEarned(s, S)
  PROVE  /\ RecordEarned(ExtendBudget(s), S)
         /\ \A st \in {"BLOCKED_RESEARCH_NOT_READY", "WAITING_FOR_HUMAN"} :
              RecordEarned([s EXCEPT !.status = st], S)
<1>1. RecordEarned(ExtendBudget(s), S)
  <2> DEFINE N == {n \in s.blocked : s.node[n] = "BLOCKED_BUDGET"}
             u == SetNodes(s, N, "PENDING")
             t == ExtendBudget(s)
  <2>1. /\ \A n \in Node : u.node[n] = IF n \in N THEN "PENDING" ELSE s.node[n]
        /\ u.open = s.open /\ u.status = s.status /\ u.claims = s.claims
        /\ u.coverage = s.coverage /\ u \in RunRecord
    BY SetNodesType DEF SetNodes, RunRecord, NodeStatus
  <2>2. t = u \/ t = [u EXCEPT !.status = "PLANNED_RESEARCH"]
    BY DEF ExtendBudget
  <2> HIDE DEF u, t
  <2>3. /\ t.node = u.node /\ t.open = s.open /\ t.claims = s.claims
        /\ t.coverage = s.coverage /\ t.status \in {s.status, "PLANNED_RESEARCH"}
    BY <2>1, <2>2 DEF RunRecord
  <2>4. /\ \/ t.node[ClaimAdjudication] = s.node[ClaimAdjudication]
           \/ s.node[ClaimAdjudication] # "COMPLETED"
        /\ \A e \in ExecutionNodes :
             s.node[e] = "COMPLETED" <=> t.node[e] = "COMPLETED"
    BY <2>1, <2>3, JudgingNodes DEF EvidenceIsExecuted
  <2>5. RecordEarned(t, S)
    BY <2>3, <2>4, EarnedQuietly
  <2> QED BY <2>5 DEF t
<1>2. ASSUME NEW st \in {"BLOCKED_RESEARCH_NOT_READY", "WAITING_FOR_HUMAN"}
      PROVE  RecordEarned([s EXCEPT !.status = st], S)
  <2> DEFINE t == [s EXCEPT !.status = st]
  <2>1. /\ t.node = s.node /\ t.claims = s.claims /\ t.coverage = s.coverage
        /\ t.status # "RESEARCH_COMPLETE"
    BY DEF RunRecord
  <2> HIDE DEF t
  <2>2. RecordEarned(t, S)
    BY <2>1, EarnedQuietly
  <2> QED BY <2>2 DEF t
<1> QED BY <1>1, <1>2

\* The two repairs: what reopens the adjudication reopens the executions.
LEMMA RepairsEarned ==
  ASSUME EvidenceIsExecuted, NEW s \in RunRecord, NEW S, RecordEarned(s, S)
  PROVE  /\ \A withQuestion \in BOOLEAN : RecordEarned(RepairEvidence(s, withQuestion), S)
         /\ RecordEarned(RepairCoverage(s), S)
<1>1. ASSUME NEW withQuestion \in BOOLEAN
      PROVE  RecordEarned(RepairEvidence(s, withQuestion), S)
  <2> DEFINE changed == {n \in Dependents[EvidenceDiscovery] :
                           s.node[n] \notin {"PENDING", "LEASED"}}
             N == EarliestNodes(withQuestion) \cup changed
             u == SetNodes(s, N, "PENDING")
             v == [u EXCEPT !.open = {d \in @ : BlockedNodes(d) \cap N = {}},
                            !.selected = @ /\ QuestionRefinement \notin Node]
             t == PlannedUnlessOpen(v)
  <2>1. u \in RunRecord
    BY SetNodesType DEF NodeStatus
  <2>2. /\ \A n \in Node : u.node[n] = IF n \in N THEN "PENDING" ELSE s.node[n]
        /\ u.claims = s.claims /\ u.coverage = s.coverage
    BY DEF SetNodes, RunRecord
  <2>3. t = RepairEvidence(s, withQuestion)
    BY DEF RepairEvidence
  <2>4. \A e \in ExecutionNodes : e \in N \/ s.node[e] # "COMPLETED"
    BY DEF EvidenceIsExecuted
  <2> HIDE DEF u, N
  <2>5. /\ v \in RunRecord /\ v.node = u.node
        /\ v.claims = s.claims /\ v.coverage = s.coverage
    BY <2>1, <2>2 DEF RunRecord
  <2> HIDE DEF v
  <2>6. /\ t.node = u.node /\ t.claims = s.claims /\ t.coverage = s.coverage
        /\ ~ (t.status = "RESEARCH_COMPLETE" /\ t.open = {})
    BY <2>5 DEF PlannedUnlessOpen, RunRecord
  <2> HIDE DEF t
  <2>7. ~ Executed(t)
    BY <2>2, <2>4, <2>6, JudgingNodes DEF Executed, EvidenceIsExecuted
  <2>8. RecordEarned(t, S)
    BY <2>6, <2>7, EarnedKept
  <2> QED BY <2>3, <2>8
<1>2. RecordEarned(RepairCoverage(s), S)
  <2> DEFINE P == s.snapshot \cup {n \in Upstream : s.node[n] = "COMPLETED"}
             t == [s EXCEPT !.snapshot = P, !.coverage = CoverageSufficient(s)]
             u == SetNodes(t, P, "COMPLETED")
             v == SetNodes(u, Downstream, "PENDING")
             w == [v EXCEPT !.status = "PARTIAL_RESEARCH"]
  <2>1. P \subseteq Upstream
    BY DEF RunRecord
  <2>2. RepairCoverage(s) = IF t.coverage THEN t ELSE w
    BY DEF RepairCoverage
  <2> HIDE DEF P
  <2>3. /\ t \in RunRecord /\ t.node = s.node /\ t.claims = s.claims
        /\ t.open = s.open /\ t.status = s.status
        /\ t.coverage => t.claims \in {"DIRECT", "CONTESTED"}
    BY <2>1 DEF RunRecord, CoverageSufficient
  <2> HIDE DEF t
  <2>4. t.coverage => RecordEarned(t, S)
    BY <2>3, EarnedKept DEF RecordEarned, Earned, Executed
  <2>5. /\ u \in RunRecord /\ u.claims = s.claims /\ u.coverage = t.coverage
    BY <2>3, SetNodesType DEF SetNodes, RunRecord, NodeStatus
  <2> HIDE DEF u
  <2>6. /\ w.claims = s.claims /\ w.coverage = t.coverage /\ w.status = "PARTIAL_RESEARCH"
        /\ \A n \in Downstream : w.node[n] = "PENDING"
    BY <2>5, NodeNames DEF SetNodes, RunRecord
  <2> HIDE DEF w
  <2>7. ~ Executed(w)
    BY <2>6, JudgingNodes DEF Executed, EvidenceIsExecuted
  <2>8. ~ t.coverage => RecordEarned(w, S)
    BY <2>6, <2>7, EarnedKept
  <2> QED BY <2>2, <2>4, <2>8
<1> QED BY <1>1, <1>2

-----------------------------------------------------------------------------
(* The invariant *)

\* A program that has stored a report holds a record without a verdict.
ProgramEarned(p) ==
  /\ RecordEarned(proc[p].copy, stored)
  /\ proc[p].pc = "stored" => proc[p].copy.claims = "NONE"

EarnedInvariant ==
  /\ InductiveInvariant /\ HandoffInvariant
  /\ RecordEarned(disk, stored)
  /\ \A p \in Proc : ProgramEarned(p)

\* What it says of the records, and what the other invariants add.
LEMMA EarnedRecords ==
  ASSUME EarnedInvariant
  PROVE  /\ TypeOK /\ disk \in RunRecord /\ RecordConsistent(disk)
         /\ RecordEarned(disk, stored)
         /\ \A p \in Proc : /\ proc[p].copy \in RunRecord
                            /\ RecordConsistent(proc[p].copy)
                            /\ RecordHolds(proc[p].copy, stored)
                            /\ RecordEarned(proc[p].copy, stored)
BY InvariantByProgram DEF EarnedInvariant, HandoffInvariant, ProgramEarned, Sound, TypeOK, Program

\* More reports in the store do not matter to a record.
LEMMA EarnedWithMore ==
  ASSUME NEW s, NEW S, NEW T, RecordEarned(s, S), S \subseteq T
  PROVE  RecordEarned(s, T)
BY DEF RecordEarned

\* The part of the invariant that this module adds.
EarnedPart == RecordEarned(disk, stored) /\ \A p \in Proc : ProgramEarned(p)

\* Saving an outcome that is earned, and going on or not.
LEMMA SaveOutcomeEarned ==
  ASSUME EarnedInvariant, UNCHANGED stored, NEW p \in Proc, NEW s,
         RecordEarned(s, stored), SaveOutcome(p, s)
  PROVE  EarnedPart'
<1>1. /\ disk' = s
      /\ proc'[p].copy \in {s, CreateRunState}
      /\ proc'[p].pc \in {"idle", "loop"}
      /\ \A q \in Proc : q # p => proc'[q] = proc[q]
  BY EarnedRecords DEF SaveOutcome, TypeOK, Program, IdleProgram
<1> QED BY <1>1, CreateRunStateEarned DEF EarnedInvariant, EarnedPart, ProgramEarned

\* Exiting, after saving a record that is earned or without saving.
LEMMA ExitEarned ==
  ASSUME EarnedInvariant, UNCHANGED stored, NEW p \in Proc,
         RecordEarned(disk', stored), Exit(p)
  PROVE  EarnedPart'
<1>1. /\ proc'[p] = IdleProgram
      /\ \A q \in Proc : q # p => proc'[q] = proc[q]
  BY EarnedRecords DEF Exit, TypeOK
<1> QED BY <1>1, CreateRunStateEarned DEF EarnedInvariant, EarnedPart, ProgramEarned, IdleProgram

\* Starting a program on a record that is earned.
LEMMA StartEarned ==
  ASSUME EarnedInvariant, NEW p \in Proc, NEW kind,
         NEW pc \in {"start"} \cup Commands, NEW s, RecordEarned(s, stored),
         Start(p, kind, pc, s)
  PROVE  EarnedPart'
<1>1. /\ disk' = disk /\ stored' = stored /\ proc'[p].copy = s /\ proc'[p].pc = pc
      /\ \A q \in Proc : q # p => proc'[q] = proc[q]
  BY EarnedRecords DEF Start, TypeOK
<1>2. pc # "stored"
  BY CommandAssumption DEF LifecycleCommands
<1> QED BY <1>1, <1>2 DEF EarnedInvariant, EarnedPart, ProgramEarned

\* Every command.
LEMMA OperateEarned ==
  ASSUME EvidenceIsExecuted, EarnedInvariant, NEW p \in Proc, Operate(p)
  PROVE  EarnedPart'
<1> DEFINE c == proc[p].copy
<1>1. /\ c \in RunRecord /\ RecordConsistent(c) /\ RecordEarned(c, stored)
      /\ RecordEarned(disk, stored)
  BY EarnedRecords
<1>2. ASSUME NEW m, NEW s, RecordEarned(s, stored), Run(p, m, s)
      PROVE  EarnedPart'
  BY <1>2, ExitEarned DEF Run, SaveAndExit
<1> HIDE DEF c
<1>3. CASE Answer(p)
  BY <1>1, <1>2, <1>3, DecisionsEarned DEF Answer, c
<1>4. CASE Submit(p)
  BY <1>1, <1>2, <1>4, DecisionsEarned DEF Submit, c
<1>5. CASE ExtendLimit(p)
  BY <1>1, <1>2, <1>5, ReportsEarned DEF ExtendLimit, c
<1>6. CASE RepairEvidenceRelevance(p)
  BY <1>1, <1>2, <1>6, RepairsEarned DEF RepairEvidenceRelevance, c
<1>7. CASE RepairCompletionCoverage(p)
  BY <1>1, <1>2, <1>7, RepairsEarned DEF RepairCompletionCoverage, c
<1>8. CASE Package(p)
  BY <1>1, <1>2, <1>8, PackageEarned DEF Package, c
<1>9. CASE CommandFails(p)
  BY <1>1, <1>9, ExitEarned DEF CommandFails
<1> QED BY <1>3, <1>4, <1>5, <1>6, <1>7, <1>8, <1>9 DEF Operate

\* Leasing a node and every outcome of its execution.
LEMMA StepEarned ==
  ASSUME EvidenceIsExecuted, EarnedInvariant, NEW p \in Proc, Step(p)
  PROVE  EarnedPart'
<1> DEFINE c == proc[p].copy
<1>1. /\ c \in RunRecord /\ RecordConsistent(c) /\ RecordHolds(c, stored)
      /\ RecordEarned(c, stored) /\ RecordEarned(disk, stored) /\ TypeOK
      /\ (proc[p].pc = "stored" => c.claims = "NONE")
  BY EarnedRecords DEF EarnedInvariant, ProgramEarned
<1>2. Recovered(p) \in RunRecord /\ RecordEarned(Recovered(p), stored)
  BY <1>1, LeaseTypes, LeasesEarned, NodeAssumption DEF Recovered
<1>3. ASSUME NEW n, Executing(p, n), NEW s \in Cleared(c, n)
      PROVE  /\ n \in Node /\ s \in RunRecord /\ RecordConsistent(s)
             /\ s.node[n] = "LEASED" /\ DependenciesSatisfied(s, n)
             /\ RecordEarned(s, stored)
  <2>1. /\ n \in Node /\ s \in RunRecord /\ Sound(s)
        /\ s.node[n] = "LEASED" /\ DependenciesSatisfied(s, n)
    BY <1>3, ExecutingSound DEF EarnedInvariant
  <2> QED BY <1>1, <1>3, <2>1, ClearedEarned DEF Sound
<1> HIDE DEF c
<1>4. CASE LeaseReadyNode(p)
  <2>1. PICK n \in ReadyNodes(Recovered(p)) :
          /\ disk' = LeaseNode(Recovered(p), n)
          /\ proc' = [proc EXCEPT ![p] =
               [proc[p] EXCEPT !.pc = "executing",
                               !.copy = LeaseNode(Recovered(p), n),
                               !.node = n]]
    BY <1>4 DEF LeaseReadyNode
  <2> DEFINE s == LeaseNode(Recovered(p), n)
  <2>2. RecordEarned(s, stored)
    BY <1>2, LeasesEarned
  <2>3. /\ disk' = s /\ proc'[p].copy = s /\ proc'[p].pc = "executing"
        /\ \A q \in Proc : q # p => proc'[q] = proc[q]
    BY <1>1, <2>1 DEF TypeOK, Program
  <2> HIDE DEF s
  <2> QED BY <1>4, <2>2, <2>3 DEF EarnedInvariant, EarnedPart, ProgramEarned, LeaseReadyNode
<1>5. CASE LoopEnds(p)
  BY <1>1, <1>5, ExitEarned DEF LoopEnds
<1>6. CASE SupervisorWaits(p)
  BY <1>1, <1>6, ReportsEarned, ExitEarned DEF SupervisorWaits, SaveAndExit, c
<1>7. CASE SupervisorPackages(p)
  <2>1. disk' \in {WritePackage(Recovered(p)),
                   [Recovered(p) EXCEPT !.status = "BLOCKED_RESEARCH_NOT_READY"]}
        /\ (disk' = WritePackage(Recovered(p)) => PaperReady(Recovered(p))
              \/ disk' = [Recovered(p) EXCEPT !.status = "BLOCKED_RESEARCH_NOT_READY"])
    BY <1>7 DEF SupervisorPackages, SaveAndExit
  <2>2. RecordEarned(disk', stored)
    BY <1>2, <2>1, PackageEarned, ReportsEarned
  <2> QED BY <1>7, <2>2, ExitEarned DEF SupervisorPackages, SaveAndExit
<1>8. CASE StoreReport(p)
  <2>1. /\ disk' = disk /\ stored' = stored \cup {proc[p].node}
        /\ proc'[p].copy = c /\ proc[p].node \in ExecutionNodes \ stored
        /\ \A q \in Proc : q # p => proc'[q] = proc[q]
    BY <1>1, <1>8 DEF StoreReport, TypeOK, Program, c
  <2>2. c.claims = "NONE"
    BY <1>1, <2>1 DEF RecordEarned
  <2>3. \A q \in Proc : RecordEarned(proc'[q].copy, stored')
    BY <2>1, EarnedWithMore DEF EarnedInvariant, ProgramEarned, c
  <2>4. RecordEarned(disk', stored')
    BY <1>1, <2>1, EarnedWithMore
  <2> QED BY <2>1, <2>2, <2>3, <2>4 DEF EarnedInvariant, EarnedPart, ProgramEarned
<1>9. CASE ReportConflict(p)
  <2>1. Executing(p, proc[p].node) /\ c \in Cleared(c, proc[p].node)
    BY <1>9 DEF ReportConflict, Executing, Cleared
  <2>2. RecordEarned(BlockNode(c, proc[p].node, "FAILED"), stored)
    BY <1>3, <2>1, StopsEarned DEF StopStatus
  <2> QED BY <1>9, <2>2, SaveOutcomeEarned DEF ReportConflict, c
<1>10. CASE FinishNode(p)
  <2>1. PICK n \in Node :
          /\ Executing(p, n)
          /\ n \in ExecutionNodes => proc[p].pc = "stored"
          /\ \E s \in Completions(c, n) : SaveOutcome(p, s)
    BY <1>10 DEF FinishNode, c
  <2>2. c \in Cleared(c, n)
    BY DEF Cleared
  <2>3. \A s \in Completions(c, n) : RecordEarned(s, stored)
    BY <1>1, <1>3, <2>1, <2>2, CompletionsEarned
  <2> QED BY <1>10, <2>1, <2>3, SaveOutcomeEarned DEF FinishNode
<1>11. CASE StopNode(p)
  <2>1. PICK n \in Node, st \in Stops :
          /\ Executing(p, n)
          /\ \E s \in Cleared(c, n) : SaveOutcome(p, BlockNode(s, n, st))
    BY <1>11 DEF StopNode, c
  <2>2. PICK s \in Cleared(c, n) : SaveOutcome(p, BlockNode(s, n, st))
    BY <2>1
  <2>3. RecordEarned(BlockNode(s, n, st), stored)
    BY <1>3, <2>1, StopsEarned, StopAssumption DEF StopStatus
  <2> QED BY <1>11, <2>2, <2>3, SaveOutcomeEarned DEF StopNode
<1>12. CASE ExhaustBudget(p)
  <2>1. PICK n \in Node, recorded \in BOOLEAN :
          Executing(p, n) /\ SaveOutcome(p, BudgetBlock(c, n, recorded))
    BY <1>12 DEF ExhaustBudget, c
  <2>2. c \in Cleared(c, n)
    BY DEF Cleared
  <2>3. RecordEarned(BudgetBlock(c, n, recorded), stored)
    BY <1>3, <2>1, <2>2, StopsEarned
  <2> QED BY <1>12, <2>1, <2>3, SaveOutcomeEarned DEF ExhaustBudget
<1>13. CASE HandOff(p)
  <2>1. PICK n \in Node, cause \in Causes :
          /\ Executing(p, n)
          /\ \E s \in Cleared(c, n) : SaveOutcome(p, RequestDecision(s, n, cause))
    BY <1>13 DEF HandOff, c
  <2>2. PICK s \in Cleared(c, n) : SaveOutcome(p, RequestDecision(s, n, cause))
    BY <2>1
  <2>3. RecordEarned(RequestDecision(s, n, cause), stored)
    BY <1>3, <2>1, StopsEarned, CauseAssumption
  <2> QED BY <1>13, <2>2, <2>3, SaveOutcomeEarned DEF HandOff
<1> QED BY <1>4, <1>5, <1>6, <1>7, <1>8, <1>9, <1>10, <1>11, <1>12, <1>13 DEF Step

\* Every step keeps what this module adds.
LEMMA EarnedStep ==
  ASSUME EvidenceIsExecuted
  PROVE  EarnedInvariant /\ [Next]_vars => EarnedPart'
<1> SUFFICES ASSUME EarnedInvariant, [Next]_vars PROVE EarnedPart'
  OBVIOUS
<1>1. /\ disk \in RunRecord /\ RecordConsistent(disk) /\ RecordEarned(disk, stored)
      /\ \A p \in Proc : /\ proc[p].copy \in RunRecord
                         /\ RecordEarned(proc[p].copy, stored)
      /\ TypeOK
  BY EarnedRecords
<1>2. CASE UNCHANGED vars
  BY <1>1, <1>2 DEF vars, EarnedInvariant, EarnedPart, ProgramEarned
<1>3. ASSUME NEW p \in Proc, StartWorker(p) PROVE EarnedPart'
  BY <1>1, <1>3, LeasesEarned, StartEarned DEF StartWorker
<1>4. ASSUME NEW p \in Proc, StartSupervisor(p) PROVE EarnedPart'
  <2>1. /\ InvalidateStaleRouting(disk) \in RunRecord
        /\ RecordEarned(InvalidateStaleRouting(disk), stored)
    BY <1>1, DecisionTypes, DecisionsEarned
  <2> QED BY <1>4, <2>1, LeasesEarned, StartEarned DEF StartSupervisor
<1>5. ASSUME NEW p \in Proc, StartCommand(p) PROVE EarnedPart'
  BY <1>1, <1>5, StartEarned DEF StartCommand
<1>6. ASSUME NEW p \in Proc, Step(p) PROVE EarnedPart'
  BY <1>6, StepEarned
<1>7. ASSUME NEW p \in Proc, Operate(p) PROVE EarnedPart'
  BY <1>7, OperateEarned
<1>8. ASSUME NEW p \in Proc, Crash(p) PROVE EarnedPart'
  BY <1>1, <1>8, ExitEarned DEF Crash
<1>9. CASE Tick
  <2>1. /\ disk' = Elapse(disk) /\ stored' = stored
        /\ \A q \in Proc : /\ proc'[q].pc = proc[q].pc
                           /\ proc'[q].copy = Elapse(proc[q].copy)
    BY <1>1, <1>9 DEF Tick, TypeOK, Program
  <2>2. \A q \in Proc : Elapse(proc[q].copy).claims = proc[q].copy.claims
    BY <1>1 DEF Elapse, RunRecord
  <2> QED BY <1>1, <2>1, <2>2, LeasesEarned DEF EarnedInvariant, EarnedPart, ProgramEarned
<1> QED BY <1>2, <1>3, <1>4, <1>5, <1>6, <1>7, <1>8, <1>9 DEF Next

\* Whatever is killed or overwritten and whichever commands of LifecycleCommands
\* are used: verify passes a run only with a sufficient coverage, direct claims
\* and completed executions (src/src/research_package.py,
\* src/src/objective_coverage.py).  The structured repairs, which are left out,
\* undo executions of a finished run and keep its status
\* (src/src/research_runtime.py:1752-1791, 2359, 2581;
\* StructuredRepair!FinishedRunIsExecuted is refuted).
THEOREM VerifiedRunsAreEarned ==
  ASSUME EvidenceIsExecuted, NoAtomicWithCoverage
  PROVE  Spec => []VerifiedRunIsEarned
<1>1. Init => EarnedPart
  <2> SUFFICES ASSUME Init PROVE EarnedPart
    OBVIOUS
  <2> QED BY CreateRunStateEarned DEF Init, EarnedPart, ProgramEarned, IdleProgram
<1>2. EarnedPart /\ InductiveInvariant /\ HandoffInvariant <=> EarnedInvariant
  BY DEF EarnedPart, EarnedInvariant
<1>3. EarnedInvariant /\ [Next]_vars => EarnedPart'
  BY EarnedStep
<1>4. EarnedInvariant => VerifiedRunIsEarned
  BY EarnedRecords DEF VerifiedRunIsEarned, Verified, Records, RecordEarned, Earned, Executed
<1> QED BY <1>1, <1>2, <1>3, <1>4, InvariantHolds, HandoffsHold, PTL DEF Spec
=============================================================================
