-------------------------- MODULE RunLifecycle_proofs --------------------------
(***************************************************************************)
(* Theorems about RunLifecycle, for every set of nodes and dependencies    *)
(* the assumptions of RunState admit, any number of programs and any of    *)
(* the commands of LifecycleCommands (CommandAssumption).  They do not     *)
(* speak of repair-routing-decisions, repair-structured-generation and     *)
(* repair-external-continuation, which RunLifecycle leaves out and under   *)
(* which all but the type invariant would be false (README section 6).     *)
(***************************************************************************)
EXTENDS RunLifecycle, TLAPS

-----------------------------------------------------------------------------
(***************************************************************************)
(* RunState.  Each of its operators returns a run record, and keeps a      *)
(* consistent record consistent.                                           *)
(***************************************************************************)

(* Types *)

\* The nodes the operators name are nodes of the run.
LEMMA NodeNames ==
  /\ ModelNodes \subseteq Node /\ ExecutionNodes \subseteq Node
  /\ Upstream \subseteq Node /\ Downstream \subseteq Node
  /\ Node = Upstream \cup Downstream
BY NodeAssumption DEF ModelNodes, ExecutionNodes, Upstream, Downstream

\* A new run starts from a well-typed record.
LEMMA CreateRunStateType == CreateRunState \in RunRecord
BY DEF CreateRunState, RunRecord, RunStatus, NodeStatus, StopStatus,
       ClaimVerdict

\* Setting one node's status keeps the record's type.
LEMMA SetNodeType ==
  ASSUME NEW s \in RunRecord, NEW n \in Node, NEW st \in NodeStatus
  PROVE  SetNode(s, n, st) \in RunRecord
BY DEF SetNode, RunRecord

\* Setting the status of a set of nodes keeps the record's type.
LEMMA SetNodesType ==
  ASSUME NEW s \in RunRecord, NEW N, NEW st \in NodeStatus
  PROVE  SetNodes(s, N, st) \in RunRecord
BY DEF SetNodes, RunRecord

\* Recovering leases, leasing and the passing of time keep the type.
LEMMA LeaseTypes ==
  ASSUME NEW s \in RunRecord, NEW n \in Node
  PROVE  /\ RecoverExpiredLeases(s) \in RunRecord
         /\ LeaseNode(s, n) \in RunRecord
         /\ Elapse(s) \in RunRecord
<1>1. RecoverExpiredLeases(s) \in RunRecord
  BY SetNodesType DEF RecoverExpiredLeases, NodeStatus
<1>2. LeaseNode(s, n) \in RunRecord
  BY BoundAssumption DEF LeaseNode, RunRecord, NodeStatus
<1>3. Elapse(s) \in RunRecord
  <2>1. \A m \in Node : s.lease[m] \in Nat
    BY DEF RunRecord
  <2> DEFINE left == [m \in Node |-> IF s.lease[m] > 0 THEN s.lease[m] - 1 ELSE 0]
  <2>2. left \in [Node -> Nat]
    BY <2>1
  <2>3. Elapse(s) = [s EXCEPT !.lease = left]
    BY DEF Elapse
  <2> HIDE DEF left
  <2> QED BY <2>2, <2>3 DEF RunRecord
<1> QED BY <1>1, <1>2, <1>3

\* Completing or blocking a node keeps the type.
LEMMA OutcomeTypes ==
  ASSUME NEW s \in RunRecord, NEW n \in Node, NEW st \in StopStatus
  PROVE  /\ CompleteNode(s, n) \in RunRecord
         /\ BlockNode(s, n, st) \in RunRecord
<1>1. "COMPLETED" \in NodeStatus /\ st \in NodeStatus /\ st \in RunStatus
  BY DEF NodeStatus, RunStatus
<1>2. SetNode(s, n, "COMPLETED") \in RunRecord /\ SetNode(s, n, st) \in RunRecord
  BY <1>1, SetNodeType
<1>3. CompleteNode(s, n) \in RunRecord
  BY <1>2 DEF CompleteNode, RunRecord, RunStatus
<1>4. BlockNode(s, n, st) \in RunRecord
  BY <1>1, <1>2 DEF BlockNode, RunRecord
<1> QED BY <1>3, <1>4

\* Requesting, submitting and answering a decision keep the type.
LEMMA DecisionTypes ==
  ASSUME NEW s \in RunRecord
  PROVE  /\ \A n \in Node, cause \in Cause :
              FreeIds(s) # {} => RequestDecision(s, n, cause) \in RunRecord
         /\ \A d \in s.open : /\ SubmitDecision(s, d) \in RunRecord
                             /\ AnswerDecision(s, d) \in RunRecord
         /\ InvalidateStaleRouting(s) \in RunRecord
<1>1. \A t \in RunRecord : PlannedUnlessOpen(t) \in RunRecord
  BY DEF PlannedUnlessOpen, RunRecord, RunStatus
<1>2. ASSUME NEW t \in RunRecord, NEW D
      PROVE  [t EXCEPT !.open = t.open \ D] \in RunRecord
  BY DEF RunRecord
<1>3. ASSUME NEW t \in RunRecord, NEW d
      PROVE  Resolve(t, d) \in RunRecord
  BY <1>1, <1>2 DEF Resolve
<1>4. "PENDING" \in NodeStatus /\ "WAITING_FOR_HUMAN" \in StopStatus
  BY DEF NodeStatus, StopStatus
<1>5. ASSUME NEW n \in Node, NEW cause \in Cause, FreeIds(s) # {}
      PROVE  RequestDecision(s, n, cause) \in RunRecord
  <2> DEFINE id == CHOOSE i \in FreeIds(s) : TRUE
             d == [id |-> id, node |-> n, cause |-> cause]
             t == BlockNode(s, n, "WAITING_FOR_HUMAN")
  <2>1. id \in 1 .. MaxOpen
    BY <1>5 DEF FreeIds
  <2>2. d \in Decision
    BY <2>1 DEF Decision
  <2>3. t \in RunRecord
    BY <1>4, OutcomeTypes
  <2>4. RequestDecision(s, n, cause) = [t EXCEPT !.open = t.open \cup {d}]
    BY DEF RequestDecision
  <2> HIDE DEF d, t
  <2> QED BY <2>2, <2>3, <2>4 DEF RunRecord
<1>6. ASSUME NEW d \in s.open
      PROVE  SubmitDecision(s, d) \in RunRecord /\ AnswerDecision(s, d) \in RunRecord
  <2>1. d.node \in Node
    BY DEF RunRecord, Decision
  <2>2. SubmitDecision(s, d) \in RunRecord
    BY <1>3, <1>4, SetNodesType DEF SubmitDecision
  <2>3. CompleteNode(s, d.node) \in RunRecord
    BY <2>1, <1>4, OutcomeTypes
  <2>4. ApplyHumanResponse(s, d.node) \in RunRecord
    BY <2>3 DEF ApplyHumanResponse, RunRecord
  <2>5. SetNode(s, d.node, "PENDING") \in RunRecord
    BY <2>1, <1>4, SetNodeType
  <2> QED BY <2>2, <2>4, <2>5, <1>3 DEF AnswerDecision
<1>7. InvalidateStaleRouting(s) \in RunRecord
  <2> DEFINE t == SetNodes(s, {d.node : d \in StaleRoutingDecisions(s)}, "PENDING")
  <2>1. t \in RunRecord
    BY <1>4, SetNodesType
  <2>2. [t EXCEPT !.open = t.open \ StaleRoutingDecisions(s)] \in RunRecord
    BY <2>1, <1>2
  <2> QED BY <1>1, <2>2 DEF InvalidateStaleRouting
<1> QED BY <1>5, <1>6, <1>7

\* Budget blocks and extensions keep the type.
LEMMA BudgetTypes ==
  ASSUME NEW s \in RunRecord, NEW n \in Node, NEW recorded \in BOOLEAN
  PROVE  /\ BudgetBlock(s, n, recorded) \in RunRecord
         /\ ExtendBudget(s) \in RunRecord
<1>1. BlockNode(s, n, "BLOCKED_BUDGET") \in RunRecord
  BY OutcomeTypes DEF StopStatus
<1>2. BudgetBlock(s, n, recorded) \in RunRecord
  BY <1>1 DEF BudgetBlock, RunRecord
<1>3. \A N : SetNodes(s, N, "PENDING") \in RunRecord
  BY SetNodesType DEF NodeStatus
<1>4. \A t \in RunRecord : [t EXCEPT !.status = "PLANNED_RESEARCH"] \in RunRecord
  BY DEF RunRecord, RunStatus
<1>5. ExtendBudget(s) \in RunRecord
  BY <1>3, <1>4 DEF ExtendBudget
<1> QED BY <1>2, <1>5

\* Packaging and the readiness node keep the type.
LEMMA PackageTypes ==
  ASSUME NEW s \in RunRecord
  PROVE  /\ WritePackage(s) \in RunRecord
         /\ ResearchReadiness \in Node => RunReadiness(s) \in RunRecord
<1>1. \A t \in RunRecord : WritePackage(t) \in RunRecord
  BY DEF WritePackage, RunRecord, RunStatus
<1>2. ASSUME ResearchReadiness \in Node PROVE RunReadiness(s) \in RunRecord
  <2> DEFINE u == [s EXCEPT !.coverage = CoverageSufficient(s)]
             t == CompleteNode(u, ResearchReadiness)
  <2>1. u \in RunRecord
    BY DEF CoverageSufficient, RunRecord
  <2> HIDE DEF u
  <2>2. t \in RunRecord
    BY <1>2, <2>1, OutcomeTypes DEF StopStatus
  <2> HIDE DEF t
  <2>3. BlockNode(t, ResearchReadiness, "BLOCKED_OTHER") \in RunRecord
    BY <1>2, <2>2, OutcomeTypes DEF StopStatus
  <2>4. [t EXCEPT !.status = "PARTIAL_RESEARCH"] \in RunRecord
    BY <2>2 DEF RunRecord, RunStatus
  <2> QED BY <1>1, <2>2, <2>3, <2>4 DEF RunReadiness, u, t
<1> QED BY <1>1, <1>2

\* The repair commands keep the type.
LEMMA RepairTypes ==
  ASSUME NEW s \in RunRecord, NEW withQuestion \in BOOLEAN
  PROVE  /\ RepairEvidence(s, withQuestion) \in RunRecord
         /\ RepairCoverage(s) \in RunRecord
<1>1. "PENDING" \in NodeStatus /\ "COMPLETED" \in NodeStatus
  BY DEF NodeStatus
<1>2. \A t \in RunRecord : PlannedUnlessOpen(t) \in RunRecord
  BY DEF PlannedUnlessOpen, RunRecord, RunStatus
<1>3. ASSUME NEW N PROVE SetNodes(s, N, "PENDING") \in RunRecord
  BY <1>1, SetNodesType
<1>4. ASSUME NEW t \in RunRecord, NEW N
      PROVE  [t EXCEPT !.open = {d \in t.open : BlockedNodes(d) \cap N = {}},
                       !.selected = t.selected /\ QuestionRefinement \notin Node]
               \in RunRecord
  BY DEF RunRecord
<1>5. RepairEvidence(s, withQuestion) \in RunRecord
  BY <1>2, <1>3, <1>4 DEF RepairEvidence
<1>6. RepairCoverage(s) \in RunRecord
  <2> DEFINE snapshot == s.snapshot \cup {n \in Upstream : s.node[n] = "COMPLETED"}
             t == [s EXCEPT !.snapshot = snapshot, !.coverage = CoverageSufficient(s)]
             u == SetNodes(SetNodes(t, snapshot, "COMPLETED"), Downstream, "PENDING")
  <2>1. t \in RunRecord
    BY DEF CoverageSufficient, RunRecord
  <2> HIDE DEF t
  <2>2. u \in RunRecord
    BY <2>1, <1>1, SetNodesType
  <2> HIDE DEF u
  <2>3. [u EXCEPT !.status = "PARTIAL_RESEARCH"] \in RunRecord
    BY <2>2 DEF RunRecord, RunStatus
  <2> QED BY <2>1, <2>3 DEF RepairCoverage, t, u
<1> QED BY <1>5, <1>6

-----------------------------------------------------------------------------
(* Consistency: three ways in which a record changes. *)

\* A record with the same nodes and no new decision stays consistent.
LEMMA SameNodes ==
  ASSUME NEW s \in RunRecord, NEW t \in RunRecord, RecordConsistent(s),
         t.node = s.node, t.open \subseteq s.open, t.snapshot = s.snapshot
  PROVE  RecordConsistent(t)
<1>1. DependenciesBehindProgress(t)
  BY DEF RecordConsistent, DependenciesBehindProgress, DependenciesSatisfied
<1>2. SnapshotClosed(t)
  BY DEF RecordConsistent, SnapshotClosed
<1>3. DecisionsHoldTheirNodes(t)
  BY DEF RecordConsistent, DecisionsHoldTheirNodes
<1> QED BY <1>1, <1>2, <1>3 DEF RecordConsistent

\* One node moves on, its dependencies being COMPLETED and itself not leaving
\* COMPLETED: progress stays behind dependencies.
LEMMA SettleOne ==
  ASSUME NEW s \in RunRecord, NEW t \in RunRecord, NEW n \in Node, NEW st,
         DependenciesBehindProgress(s), DependenciesSatisfied(s, n),
         s.node[n] # "COMPLETED" \/ st = "COMPLETED",
         t.node = [s.node EXCEPT ![n] = st]
  PROVE  DependenciesBehindProgress(t)
<1> SUFFICES ASSUME NEW m \in Node, t.node[m] \notin {"PENDING", "LEASED"}
             PROVE  DependenciesSatisfied(t, m)
  BY DEF DependenciesBehindProgress
<1>1. s.node \in [Node -> NodeStatus]
  BY DEF RunRecord
<1>2. \A k \in Deps[m] : k \in Node
  BY NodeAssumption
<1>3. DependenciesSatisfied(s, m)
  BY <1>1 DEF DependenciesBehindProgress
<1>4. \A k \in Node : s.node[k] = "COMPLETED" => t.node[k] = "COMPLETED"
  BY <1>1
<1> QED BY <1>2, <1>3, <1>4 DEF DependenciesSatisfied

\* The nodes of N become PENDING, and nothing that stays advanced depends on
\* one of them.
LEMMA ReopenSet ==
  ASSUME NEW s \in RunRecord, NEW t \in RunRecord, NEW N,
         DependenciesBehindProgress(s),
         \A m \in Node \ N :
           s.node[m] \notin {"PENDING", "LEASED"} => Deps[m] \cap N = {},
         t.node = [m \in Node |-> IF m \in N THEN "PENDING" ELSE s.node[m]]
  PROVE  DependenciesBehindProgress(t)
<1> SUFFICES ASSUME NEW m \in Node, t.node[m] \notin {"PENDING", "LEASED"}
             PROVE  DependenciesSatisfied(t, m)
  BY DEF DependenciesBehindProgress
<1>1. m \notin N /\ s.node[m] \notin {"PENDING", "LEASED"}
  OBVIOUS
<1>2. Deps[m] \cap N = {} /\ DependenciesSatisfied(s, m)
  BY <1>1 DEF DependenciesBehindProgress
<1>3. \A k \in Deps[m] : k \in Node
  BY NodeAssumption
<1> QED BY <1>2, <1>3 DEF DependenciesSatisfied

\* Nothing that is advanced depends on a node that is not COMPLETED.
LEMMA NoProgressPastOpenNodes ==
  ASSUME NEW s \in RunRecord, NEW N, DependenciesBehindProgress(s),
         \A n \in N \cap Node : s.node[n] # "COMPLETED"
  PROVE  \A m \in Node : s.node[m] \notin {"PENDING", "LEASED"} =>
           Deps[m] \cap N = {}
BY NodeAssumption DEF DependenciesBehindProgress, DependenciesSatisfied

\* Nodes that are not COMPLETED become PENDING, and no decision that stays
\* open blocks one of them.
LEMMA ReopenUncompleted ==
  ASSUME NEW s \in RunRecord, NEW t \in RunRecord, NEW N, RecordConsistent(s),
         \A n \in N \cap Node : s.node[n] # "COMPLETED",
         t.node = [m \in Node |-> IF m \in N THEN "PENDING" ELSE s.node[m]],
         t.open \subseteq s.open, t.snapshot = s.snapshot,
         \A d \in t.open : BlockedNodes(d) \cap N = {}
  PROVE  RecordConsistent(t)
<1>1. DependenciesBehindProgress(t)
  <2>1. DependenciesBehindProgress(s)
    BY DEF RecordConsistent
  <2>2. \A m \in Node \ N :
          s.node[m] \notin {"PENDING", "LEASED"} => Deps[m] \cap N = {}
    BY <2>1, NoProgressPastOpenNodes
  <2> QED BY <2>1, <2>2, ReopenSet
<1>2. SnapshotClosed(t)
  BY DEF RecordConsistent, SnapshotClosed
<1>3. DecisionsHoldTheirNodes(t)
  <2>1. DecisionsHoldTheirNodes(s)
    BY DEF RecordConsistent
  <2>2. \A d \in t.open : \A n \in BlockedNodes(d) :
          n \in Upstream => t.node[n] = s.node[n]
    BY NodeNames
  <2> QED BY <2>1, <2>2 DEF DecisionsHoldTheirNodes
<1> QED BY <1>1, <1>2, <1>3 DEF RecordConsistent

\* A leased node whose dependencies are COMPLETED gets its outcome.
LEMMA SettleLeased ==
  ASSUME NEW s \in RunRecord, NEW t \in RunRecord, NEW n \in Node, NEW st,
         RecordConsistent(s), s.node[n] = "LEASED", DependenciesSatisfied(s, n),
         t.node = [s.node EXCEPT ![n] = st],
         t.open = s.open, t.snapshot = s.snapshot
  PROVE  RecordConsistent(t)
<1>1. DependenciesBehindProgress(t)
  BY SettleOne DEF RecordConsistent
<1>2. SnapshotClosed(t)
  BY DEF RecordConsistent, SnapshotClosed
<1>3. DecisionsHoldTheirNodes(t)
  <2>1. DecisionsHoldTheirNodes(s)
    BY DEF RecordConsistent
  <2>2. \A d \in s.open : n \notin BlockedNodes(d)
    BY <2>1 DEF DecisionsHoldTheirNodes
  <2>3. \A m \in Node : m # n => t.node[m] = s.node[m]
    BY DEF RunRecord
  <2> QED BY <2>1, <2>2, <2>3, NodeNames DEF DecisionsHoldTheirNodes
<1> QED BY <1>1, <1>2, <1>3 DEF RecordConsistent

-----------------------------------------------------------------------------
(* Consistency: the operators. *)

\* Recovering expired leases, leasing a ready node and the passing of time
\* keep a record consistent.
LEMMA LeasesConsistent ==
  ASSUME NEW s \in RunRecord, RecordConsistent(s)
  PROVE  /\ RecordConsistent(RecoverExpiredLeases(s))
         /\ \A n \in ReadyNodes(s) : RecordConsistent(LeaseNode(s, n))
         /\ RecordConsistent(Elapse(s))
<1>1. RecordConsistent(RecoverExpiredLeases(s))
  <2> DEFINE N == {n \in Node : s.node[n] = "LEASED" /\ s.lease[n] = 0}
             t == SetNodes(s, N, "PENDING")
  <2>1. t \in RunRecord
    BY SetNodesType DEF NodeStatus
  <2>2. /\ t.node = [m \in Node |-> IF m \in N THEN "PENDING" ELSE s.node[m]]
        /\ t.open = s.open /\ t.snapshot = s.snapshot
    BY DEF SetNodes, RunRecord
  <2>3. \A d \in s.open : BlockedNodes(d) \cap N = {}
    BY DEF RecordConsistent, DecisionsHoldTheirNodes
  <2> HIDE DEF t
  <2>4. RecordConsistent(t)
    BY <2>1, <2>2, <2>3, ReopenUncompleted
  <2> QED BY <2>4 DEF RecoverExpiredLeases, t
<1>2. ASSUME NEW n \in ReadyNodes(s) PROVE RecordConsistent(LeaseNode(s, n))
  <2> DEFINE t == LeaseNode(s, n)
  <2>1. n \in Node /\ s.node[n] = "PENDING" /\ DependenciesSatisfied(s, n)
    BY DEF ReadyNodes
  <2>2. t \in RunRecord
    BY <2>1, LeaseTypes
  <2>3. /\ t.node = [s.node EXCEPT ![n] = "LEASED"]
        /\ t.open = s.open /\ t.snapshot = s.snapshot
    BY DEF LeaseNode, RunRecord
  <2> HIDE DEF t
  <2>4. DependenciesBehindProgress(t)
    BY <2>1, <2>2, <2>3, SettleOne DEF RecordConsistent
  <2>5. DecisionsHoldTheirNodes(t)
    <3>1. DecisionsHoldTheirNodes(s)
      BY DEF RecordConsistent
    <3>2. \A m \in Node : m # n => t.node[m] = s.node[m]
      BY <2>3 DEF RunRecord
    <3> QED BY <2>1, <2>3, <3>1, <3>2, NodeNames DEF DecisionsHoldTheirNodes
  <2> QED BY <2>3, <2>4, <2>5 DEF RecordConsistent, SnapshotClosed, t
<1>3. RecordConsistent(Elapse(s))
  <2>1. Elapse(s) \in RunRecord
    BY <1>1, LeaseTypes, NodeAssumption
  <2>2. /\ Elapse(s).node = s.node /\ Elapse(s).open = s.open
        /\ Elapse(s).snapshot = s.snapshot
    BY DEF Elapse, RunRecord
  <2> QED BY <2>1, <2>2, SameNodes
<1> QED BY <1>1, <1>2, <1>3

\* Completing or blocking a leased node keeps a record consistent.
LEMMA OutcomesConsistent ==
  ASSUME NEW s \in RunRecord, RecordConsistent(s), NEW n \in Node,
         s.node[n] = "LEASED", DependenciesSatisfied(s, n)
  PROVE  /\ RecordConsistent(CompleteNode(s, n))
         /\ \A st \in StopStatus : RecordConsistent(BlockNode(s, n, st))
<1>1. /\ CompleteNode(s, n).node = [s.node EXCEPT ![n] = "COMPLETED"]
      /\ CompleteNode(s, n).open = s.open
      /\ CompleteNode(s, n).snapshot = s.snapshot
  BY DEF CompleteNode, SetNode, RunRecord
<1>2. CompleteNode(s, n) \in RunRecord
  BY OutcomeTypes DEF StopStatus
<1>3. RecordConsistent(CompleteNode(s, n))
  BY <1>1, <1>2, SettleLeased
<1>4. ASSUME NEW st \in StopStatus PROVE RecordConsistent(BlockNode(s, n, st))
  <2>1. /\ BlockNode(s, n, st).node = [s.node EXCEPT ![n] = st]
        /\ BlockNode(s, n, st).open = s.open
        /\ BlockNode(s, n, st).snapshot = s.snapshot
    BY DEF BlockNode, SetNode, RunRecord
  <2>2. BlockNode(s, n, st) \in RunRecord
    BY OutcomeTypes
  <2> QED BY <2>1, <2>2, SettleLeased
<1> QED BY <1>3, <1>4

\* Running out of budget and extending it keep a record consistent.
LEMMA BudgetConsistent ==
  ASSUME NEW s \in RunRecord, RecordConsistent(s)
  PROVE  /\ \A n \in Node, recorded \in BOOLEAN :
              s.node[n] = "LEASED" /\ DependenciesSatisfied(s, n)
                => RecordConsistent(BudgetBlock(s, n, recorded))
         /\ RecordConsistent(ExtendBudget(s))
<1>1. ASSUME NEW n \in Node, NEW recorded \in BOOLEAN,
             s.node[n] = "LEASED", DependenciesSatisfied(s, n)
      PROVE  RecordConsistent(BudgetBlock(s, n, recorded))
  <2> DEFINE t == BlockNode(s, n, "BLOCKED_BUDGET")
             u == BudgetBlock(s, n, recorded)
  <2>1. t \in RunRecord /\ u \in RunRecord
    BY OutcomeTypes, BudgetTypes DEF StopStatus
  <2>2. RecordConsistent(t)
    BY <1>1, OutcomesConsistent DEF StopStatus
  <2>3. u.node = t.node /\ u.open = t.open /\ u.snapshot = t.snapshot
    BY <2>1 DEF BudgetBlock, RunRecord
  <2> QED BY <2>1, <2>2, <2>3, SameNodes
<1>2. RecordConsistent(ExtendBudget(s))
  <2> DEFINE N == {n \in s.blocked : s.node[n] = "BLOCKED_BUDGET"}
             t == ExtendBudget(s)
  <2>1. t \in RunRecord
    BY BudgetTypes, NodeAssumption
  <2>2. /\ t.node = [m \in Node |-> IF m \in N THEN "PENDING" ELSE s.node[m]]
        /\ t.open = s.open /\ t.snapshot = s.snapshot
    BY DEF ExtendBudget, SetNodes, RunRecord
  <2>3. \A d \in s.open : BlockedNodes(d) \cap N = {}
    BY DEF RecordConsistent, DecisionsHoldTheirNodes
  <2> HIDE DEF t
  <2>4. RecordConsistent(t)
    BY <2>1, <2>2, <2>3, ReopenUncompleted
  <2> QED BY <2>4 DEF t
<1> QED BY <1>1, <1>2

\* Handing a leased node over to a human keeps a record consistent.
LEMMA RequestConsistent ==
  ASSUME NEW s \in RunRecord, RecordConsistent(s), NEW n \in Node,
         NEW cause \in Cause, cause = "SKILL" \/ n \in Upstream,
         s.node[n] = "LEASED", DependenciesSatisfied(s, n), FreeIds(s) # {}
  PROVE  RecordConsistent(RequestDecision(s, n, cause))
<1> DEFINE t == RequestDecision(s, n, cause)
           u == BlockNode(s, n, "WAITING_FOR_HUMAN")
           new == [id |-> CHOOSE i \in FreeIds(s) : TRUE, node |-> n,
                   cause |-> cause]
<1>1. u \in RunRecord /\ t \in RunRecord
  BY OutcomeTypes, DecisionTypes DEF StopStatus
<1>2. RecordConsistent(u)
  BY OutcomesConsistent DEF StopStatus
<1>3. u.node = [s.node EXCEPT ![n] = "WAITING_FOR_HUMAN"] /\ u.open = s.open
  BY DEF BlockNode, SetNode, RunRecord
<1>4. t = [u EXCEPT !.open = u.open \cup {new}]
  BY DEF RequestDecision
<1> HIDE DEF u
<1>5. /\ t.node = u.node /\ t.snapshot = u.snapshot
      /\ t.open = s.open \cup {new}
  BY <1>1, <1>3, <1>4 DEF RunRecord
<1>6. new.node = n /\ new.cause = cause
  OBVIOUS
<1> HIDE DEF t, new
<1>7. DependenciesBehindProgress(t) /\ SnapshotClosed(t)
  BY <1>2, <1>5 DEF RecordConsistent, DependenciesBehindProgress,
                    DependenciesSatisfied, SnapshotClosed
<1>8. DecisionsHoldTheirNodes(t)
  <2>1. DecisionsHoldTheirNodes(u) /\ DecisionsHoldTheirNodes(s)
    BY <1>2 DEF RecordConsistent
  <2>2. \A d \in s.open : n \notin BlockedNodes(d)
    BY <2>1 DEF DecisionsHoldTheirNodes
  <2>3. \A m \in BlockedNodes(new) : m = n /\ n \in Upstream
    BY <1>6 DEF BlockedNodes
  <2>4. u.node[n] = "WAITING_FOR_HUMAN"
    BY <1>3 DEF RunRecord
  <2> SUFFICES ASSUME NEW d \in t.open, NEW m \in BlockedNodes(d)
               PROVE  /\ m \in Upstream
                      /\ t.node[m] \in {"WAITING_FOR_HUMAN", "COMPLETED"}
                      /\ d.cause = "ATOMIC" => t.node[m] = "WAITING_FOR_HUMAN"
                      /\ \A e \in t.open : m \in BlockedNodes(e) => e = d
    BY DEF DecisionsHoldTheirNodes
  <2>5. CASE d \in s.open
    BY <1>3, <1>5, <2>1, <2>2, <2>3, <2>5 DEF DecisionsHoldTheirNodes
  <2>6. CASE d = new
    BY <1>5, <2>2, <2>3, <2>4, <2>6
  <2> QED BY <1>5, <2>5, <2>6
<1> QED BY <1>7, <1>8 DEF RecordConsistent, t

\* Of an open decision: the nodes it blocks are blocked by no other.
LEMMA BlockedOnce ==
  ASSUME NEW s \in RunRecord, RecordConsistent(s), NEW d \in s.open
  PROVE  /\ \A e \in s.open \ {d} : BlockedNodes(e) \cap BlockedNodes(d) = {}
         /\ \A n \in BlockedNodes(d) :
              /\ n \in Node /\ n = d.node
              /\ s.node[n] \in {"WAITING_FOR_HUMAN", "COMPLETED"}
              /\ DependenciesSatisfied(s, n)
              /\ d.cause = "ATOMIC" => s.node[n] = "WAITING_FOR_HUMAN"
<1>1. DecisionsHoldTheirNodes(s) /\ DependenciesBehindProgress(s)
  BY DEF RecordConsistent
<1>2. \A e \in s.open \ {d} : BlockedNodes(e) \cap BlockedNodes(d) = {}
  BY <1>1 DEF DecisionsHoldTheirNodes
<1>3. \A n \in BlockedNodes(d) :
        /\ n \in Node /\ n = d.node
        /\ s.node[n] \in {"WAITING_FOR_HUMAN", "COMPLETED"}
        /\ d.cause = "ATOMIC" => s.node[n] = "WAITING_FOR_HUMAN"
  BY <1>1, NodeNames DEF DecisionsHoldTheirNodes, BlockedNodes
<1>4. \A n \in BlockedNodes(d) : DependenciesSatisfied(s, n)
  BY <1>1, <1>3 DEF DependenciesBehindProgress
<1> QED BY <1>2, <1>3, <1>4

\* Submitting an option keeps a record consistent: its node waits anew.
LEMMA SubmitConsistent ==
  ASSUME NEW s \in RunRecord, RecordConsistent(s), NEW d \in s.open
  PROVE  RecordConsistent(SubmitDecision(s, d))
<1> DEFINE N == {n \in BlockedNodes(d) : s.node[n] = "WAITING_FOR_HUMAN"}
           t == SubmitDecision(s, d)
<1>1. t \in RunRecord
  BY DecisionTypes
<1>2. /\ t.node = [m \in Node |-> IF m \in N THEN "PENDING" ELSE s.node[m]]
      /\ t.open = s.open \ {d} /\ t.snapshot = s.snapshot
  BY DEF SubmitDecision, Resolve, PlannedUnlessOpen, SetNodes, RunRecord
<1>3. \A e \in t.open : BlockedNodes(e) \cap N = {}
  BY <1>2, BlockedOnce
<1> HIDE DEF t
<1>4. RecordConsistent(t)
  BY <1>1, <1>2, <1>3, ReopenUncompleted
<1> QED BY <1>4 DEF t

\* Answering a decision keeps a record consistent: the node it completes has
\* COMPLETED dependencies, the node it reopens was not COMPLETED.
LEMMA AnswerConsistent ==
  ASSUME NEW s \in RunRecord, RecordConsistent(s), NEW d \in s.open,
         BlockedNodes(d) # {}
  PROVE  RecordConsistent(AnswerDecision(s, d))
<1> DEFINE t == AnswerDecision(s, d)
           n == d.node
<1>1. t \in RunRecord
  BY DecisionTypes
<1>2. /\ BlockedNodes(d) = {n} /\ n \in Node
      /\ s.node[n] \in {"WAITING_FOR_HUMAN", "COMPLETED"}
      /\ DependenciesSatisfied(s, n)
      /\ d.cause = "ATOMIC" => s.node[n] = "WAITING_FOR_HUMAN"
  BY BlockedOnce DEF BlockedNodes
<1>3. \A e \in s.open \ {d} : n \notin BlockedNodes(e)
  BY <1>2, BlockedOnce
<1>4. CASE d.cause = "ATOMIC"
  <2>1. /\ t.node = [m \in Node |-> IF m \in {n} THEN "PENDING" ELSE s.node[m]]
        /\ t.open = s.open \ {d} /\ t.snapshot = s.snapshot
    BY <1>4 DEF AnswerDecision, Resolve, PlannedUnlessOpen, SetNode, RunRecord
  <2>2. \A m \in {n} \cap Node : s.node[m] # "COMPLETED"
    BY <1>2, <1>4
  <2>3. \A e \in t.open : BlockedNodes(e) \cap {n} = {}
    BY <1>3, <2>1
  <2> HIDE DEF t, n
  <2>4. t.open \subseteq s.open
    BY <2>1
  <2>5. RecordConsistent(t)
    BY <1>1, <2>1, <2>2, <2>3, <2>4, ReopenUncompleted
  <2> QED BY <2>5 DEF t
<1>5. CASE d.cause # "ATOMIC" /\ n \notin ModelNodes
  <2>1. t.node = s.node /\ t.open = s.open \ {d} /\ t.snapshot = s.snapshot
    BY <1>5 DEF AnswerDecision, ApplyHumanResponse, Resolve, PlannedUnlessOpen,
                RunRecord
  <2> QED BY <1>1, <2>1, SameNodes
<1>6. CASE d.cause # "ATOMIC" /\ n \in ModelNodes
  <2>1. /\ t.node = [s.node EXCEPT ![n] = "COMPLETED"]
        /\ t.open = s.open \ {d} /\ t.snapshot = s.snapshot
    BY <1>6 DEF AnswerDecision, ApplyHumanResponse, CompleteNode, SetNode,
                Resolve, PlannedUnlessOpen, RunRecord
  <2> HIDE DEF t
  <2>2. DependenciesBehindProgress(t)
    BY <1>1, <1>2, <2>1, SettleOne DEF RecordConsistent
  <2>3. SnapshotClosed(t)
    BY <2>1 DEF RecordConsistent, SnapshotClosed
  <2>4. DecisionsHoldTheirNodes(t)
    <3>1. DecisionsHoldTheirNodes(s)
      BY DEF RecordConsistent
    <3>2. \A m \in Node : m # n => t.node[m] = s.node[m]
      BY <2>1 DEF RunRecord
    <3> QED BY <1>3, <2>1, <3>1, <3>2, NodeNames DEF DecisionsHoldTheirNodes
  <2> QED BY <2>2, <2>3, <2>4 DEF RecordConsistent, t
<1> QED BY <1>4, <1>5, <1>6

\* Invalidating stale routing decisions keeps a record consistent.
LEMMA InvalidateConsistent ==
  ASSUME NEW s \in RunRecord, RecordConsistent(s)
  PROVE  RecordConsistent(InvalidateStaleRouting(s))
<1> DEFINE stale == StaleRoutingDecisions(s)
           N == {d.node : d \in stale}
           t == InvalidateStaleRouting(s)
<1>1. CASE stale = {}
  BY <1>1 DEF InvalidateStaleRouting
<1>2. CASE stale # {}
  <2>1. t \in RunRecord
    BY DecisionTypes
  <2>2. /\ t.node = [m \in Node |-> IF m \in N THEN "PENDING" ELSE s.node[m]]
        /\ t.open = s.open \ stale /\ t.snapshot = s.snapshot
    BY <1>2 DEF InvalidateStaleRouting, PlannedUnlessOpen, SetNodes, RunRecord
  <2>3. /\ stale \subseteq s.open
        /\ \A d \in stale : BlockedNodes(d) = {d.node}
        /\ \A n \in N : s.node[n] # "COMPLETED"
    BY DEF StaleRoutingDecisions, BlockedNodes
  <2>4. \A e \in s.open \ stale : BlockedNodes(e) \cap N = {}
    <3> SUFFICES ASSUME NEW e \in s.open \ stale, NEW d \in stale,
                        d.node \in BlockedNodes(e)
                 PROVE  FALSE
      OBVIOUS
    <3>1. BlockedNodes(e) \cap BlockedNodes(d) = {}
      BY <2>3, BlockedOnce
    <3> QED BY <2>3, <3>1
  <2> HIDE DEF t, stale
  <2>5. RecordConsistent(t)
    BY <2>1, <2>2, <2>3, <2>4, ReopenUncompleted
  <2> QED BY <2>5 DEF t
<1> QED BY <1>1, <1>2

\* Packaging, and the readiness node with the package it attempts, keep a
\* record consistent.
LEMMA PackageConsistent ==
  ASSUME NEW s \in RunRecord, RecordConsistent(s)
  PROVE  /\ RecordConsistent(WritePackage(s))
         /\ (/\ ResearchReadiness \in Node
             /\ s.node[ResearchReadiness] = "LEASED"
             /\ DependenciesSatisfied(s, ResearchReadiness))
              => RecordConsistent(RunReadiness(s))
<1>1. RecordConsistent(WritePackage(s))
  <2>1. WritePackage(s) \in RunRecord
    BY PackageTypes
  <2> QED BY <2>1, SameNodes DEF WritePackage, RunRecord
<1>2. ASSUME ResearchReadiness \in Node, s.node[ResearchReadiness] = "LEASED",
             DependenciesSatisfied(s, ResearchReadiness)
      PROVE  RecordConsistent(RunReadiness(s))
  <2> DEFINE n == ResearchReadiness
             r == RunReadiness(s)
  <2>1. r \in RunRecord
    BY <1>2, PackageTypes
  <2>2. /\ \/ r.node = [s.node EXCEPT ![n] = "COMPLETED"]
           \/ r.node = [s.node EXCEPT ![n] = "BLOCKED_OTHER"]
        /\ r.open = s.open /\ r.snapshot = s.snapshot
    BY DEF RunReadiness, WritePackage, BlockNode, CompleteNode, SetNode,
           RunRecord
  <2> HIDE DEF n, r
  <2>3. n \in Node /\ s.node[n] = "LEASED" /\ DependenciesSatisfied(s, n)
    BY <1>2 DEF n
  <2>4. RecordConsistent(r)
    BY <2>1, <2>2, <2>3, SettleLeased
  <2> QED BY <2>4 DEF r
<1> QED BY <1>1, <1>2

\* Dependents[n] holds the direct dependents of n and of its members.
LEMMA DependentsClosed ==
  ASSUME NEW n \in Node, NEW k \in Node,
         n \in Deps[k] \/ Deps[k] \cap Dependents[n] # {}
  PROVE  k \in Dependents[n]
<1> DEFINE Closed(S) ==
      \A m \in Node : n \in Deps[m] \/ Deps[m] \cap S # {} => m \in S
<1>1. Dependents[n] = {m \in Node : \A S \in SUBSET Node : Closed(S) => m \in S}
  BY DEF Dependents
<1> SUFFICES ASSUME NEW S \in SUBSET Node, Closed(S) PROVE k \in S
  BY <1>1
<1>2. Dependents[n] \subseteq S
  BY <1>1
<1> QED BY <1>2

\* Repairing evidence keeps a record consistent: what it leaves advanced does
\* not depend on what it reopens, and no decision on a reopened node survives.
LEMMA RepairEvidenceConsistent ==
  ASSUME NEW s \in RunRecord, RecordConsistent(s), NEW withQuestion \in BOOLEAN
  PROVE  RecordConsistent(RepairEvidence(s, withQuestion))
<1> DEFINE behind == Dependents[EvidenceDiscovery]
           changed == {n \in behind : s.node[n] \notin {"PENDING", "LEASED"}}
           N == EarliestNodes(withQuestion) \cup changed
           t == RepairEvidence(s, withQuestion)
<1>1. t \in RunRecord
  BY RepairTypes
<1>2. /\ t.node = [m \in Node |-> IF m \in N THEN "PENDING" ELSE s.node[m]]
      /\ t.open = {d \in s.open : BlockedNodes(d) \cap N = {}}
      /\ t.snapshot = s.snapshot
  BY DEF RepairEvidence, PlannedUnlessOpen, SetNodes, RunRecord
<1> HIDE DEF t
<1>3. ASSUME NEW m \in Node \ N, s.node[m] \notin {"PENDING", "LEASED"},
             NEW k \in Deps[m], k \in N
      PROVE  FALSE
  <2>1. m \notin behind
    BY <1>3
  <2>2. EvidenceDiscovery \in Node /\ k \in Node
    BY NodeAssumption
  <2>3. {EvidenceDiscovery, QuestionRefinement} \cap Node \subseteq N
    BY DEF EarliestNodes
  <2>4. CASE k \in behind
    BY <2>1, <2>2, <2>4, DependentsClosed
  <2>5. CASE k \in {EvidenceDiscovery, QuestionRefinement}
    <3>1. m \in {QuestionRefinement} \cup behind
      BY <2>5, DiscoveryAssumption
    <3> QED BY <2>1, <2>3, <3>1
  <2>6. CASE k = QuestionDiscovery
    <3>1. m \in {EvidenceDiscovery, QuestionRefinement} \cup behind
      BY <2>6, DiscoveryAssumption
    <3> QED BY <2>1, <2>3, <3>1
  <2> QED BY <1>3, <2>4, <2>5, <2>6 DEF EarliestNodes
<1>4. DependenciesBehindProgress(t)
  <2>1. \A m \in Node \ N :
          s.node[m] \notin {"PENDING", "LEASED"} => Deps[m] \cap N = {}
    BY <1>3
  <2> HIDE DEF N
  <2> QED BY <1>1, <1>2, <2>1, ReopenSet DEF RecordConsistent
<1>5. SnapshotClosed(t)
  BY <1>2 DEF RecordConsistent, SnapshotClosed
<1>6. DecisionsHoldTheirNodes(t)
  <2>1. DecisionsHoldTheirNodes(s)
    BY DEF RecordConsistent
  <2>2. \A d \in t.open : \A n \in BlockedNodes(d) :
          n \in Upstream => t.node[n] = s.node[n]
    BY <1>2, NodeNames
  <2> QED BY <1>2, <2>1, <2>2 DEF DecisionsHoldTheirNodes
<1> QED BY <1>4, <1>5, <1>6 DEF RecordConsistent, t

\* Repairing coverage keeps a record consistent as long as no open decision
\* reopens its node when answered: the nodes it restores are closed under
\* dependencies, and everything behind them is reopened.
LEMMA RepairCoverageConsistent ==
  ASSUME NEW s \in RunRecord, RecordConsistent(s),
         \A d \in s.open : d.cause # "ATOMIC"
  PROVE  RecordConsistent(RepairCoverage(s))
<1> DEFINE S == s.snapshot \cup {n \in Upstream : s.node[n] = "COMPLETED"}
           t == RepairCoverage(s)
<1>1. t \in RunRecord
  BY RepairTypes
<1>2. /\ t.open = s.open /\ t.snapshot = S
      /\ \/ t.node = s.node
         \/ t.node = [m \in Node |-> IF m \in Downstream THEN "PENDING"
                                     ELSE IF m \in S THEN "COMPLETED"
                                     ELSE s.node[m]]
  BY DEF RepairCoverage, SetNodes, RunRecord
<1> HIDE DEF t
<1>3. /\ DependenciesBehindProgress(s) /\ SnapshotClosed(s)
      /\ DecisionsHoldTheirNodes(s)
  BY DEF RecordConsistent
<1>4. s.snapshot \subseteq Upstream
  BY DEF RunRecord
<1>5. \A n \in Upstream :
        s.node[n] \notin {"PENDING", "LEASED"} => Deps[n] \subseteq S
  BY <1>3, NodeNames, UpstreamAssumption
     DEF DependenciesBehindProgress, DependenciesSatisfied
<1>6. \A n \in S : Deps[n] \subseteq S
  BY <1>3, <1>5 DEF SnapshotClosed
<1>7. DependenciesBehindProgress(t)
  <2>1. CASE t.node = s.node
    BY <1>3, <2>1 DEF DependenciesBehindProgress, DependenciesSatisfied
  <2>2. CASE t.node # s.node
    <3> SUFFICES ASSUME NEW m \in Node, t.node[m] \notin {"PENDING", "LEASED"},
                        NEW k \in Deps[m]
                 PROVE  t.node[k] = "COMPLETED"
      BY DEF DependenciesBehindProgress, DependenciesSatisfied
    <3>1. m \notin Downstream /\ m \in Upstream
      BY <1>2, <2>2, NodeNames
    <3>2. k \in S
      BY <1>2, <1>5, <1>6, <2>2, <3>1
    <3>3. k \in Upstream /\ k \in Node /\ k \notin Downstream
      BY <3>1, UpstreamAssumption, NodeNames DEF Upstream, Downstream,
         QuestionDiscovery, EvidenceDiscovery, QuestionRefinement,
         SkillDiscovery, ClaimAdjudication, ResearchReadiness
    <3> HIDE DEF S
    <3> QED BY <1>2, <2>2, <3>2, <3>3
  <2> QED BY <2>1, <2>2
<1>8. SnapshotClosed(t)
  BY <1>2, <1>6 DEF SnapshotClosed
<1>9. DecisionsHoldTheirNodes(t)
  <2>1. \A n \in Upstream : n \in Node /\ n \notin Downstream
    BY NodeNames DEF Upstream, Downstream,
       QuestionDiscovery, EvidenceDiscovery, QuestionRefinement,
       SkillDiscovery, ClaimAdjudication, ResearchReadiness
  <2>2. \A n \in Upstream : t.node[n] \in {s.node[n], "COMPLETED"}
    BY <1>2, <2>1
  <2> QED BY <1>2, <1>3, <2>2 DEF DecisionsHoldTheirNodes
<1> QED BY <1>7, <1>8, <1>9 DEF RecordConsistent, t

-----------------------------------------------------------------------------
\* Only requesting a decision opens one.
LEMMA NoNewDecisions ==
  ASSUME NEW s \in RunRecord
  PROVE  /\ RecoverExpiredLeases(s).open = s.open
         /\ Elapse(s).open = s.open
         /\ InvalidateStaleRouting(s).open \subseteq s.open
         /\ \A n : /\ LeaseNode(s, n).open = s.open
                   /\ CompleteNode(s, n).open = s.open
                   /\ \A st : BlockNode(s, n, st).open = s.open
         /\ ExtendBudget(s).open = s.open
         /\ \A d : /\ SubmitDecision(s, d).open \subseteq s.open
                   /\ AnswerDecision(s, d).open \subseteq s.open
         /\ WritePackage(s).open = s.open
         /\ RunReadiness(s).open = s.open
         /\ \A q : RepairEvidence(s, q).open \subseteq s.open
         /\ RepairCoverage(s).open = s.open
<1>2. /\ RecoverExpiredLeases(s).open = s.open
      /\ Elapse(s).open = s.open
      /\ ExtendBudget(s).open = s.open
  BY DEF RecoverExpiredLeases, SetNodes, Elapse, ExtendBudget, RunRecord
<1>3. InvalidateStaleRouting(s).open \subseteq s.open
  BY DEF InvalidateStaleRouting, PlannedUnlessOpen, SetNodes, RunRecord
<1>4. ASSUME NEW n
      PROVE  /\ LeaseNode(s, n).open = s.open
             /\ CompleteNode(s, n).open = s.open
             /\ \A st : BlockNode(s, n, st).open = s.open
  BY DEF LeaseNode, CompleteNode, BlockNode, SetNode, RunRecord
<1>5. ASSUME NEW d
      PROVE  /\ SubmitDecision(s, d).open \subseteq s.open
             /\ AnswerDecision(s, d).open \subseteq s.open
  BY DEF SubmitDecision, AnswerDecision, ApplyHumanResponse, CompleteNode,
         SetNode, SetNodes, Resolve, PlannedUnlessOpen, RunRecord
<1>6. WritePackage(s).open = s.open /\ RunReadiness(s).open = s.open
  BY DEF RunReadiness, WritePackage, BlockNode, CompleteNode, SetNode, RunRecord
<1>7. ASSUME NEW q PROVE RepairEvidence(s, q).open \subseteq s.open
  BY DEF RepairEvidence, PlannedUnlessOpen, SetNodes, RunRecord
<1>8. RepairCoverage(s).open = s.open
  BY DEF RepairCoverage, SetNodes, RunRecord
<1> QED BY <1>2, <1>3, <1>4, <1>5, <1>6, <1>7, <1>8

-----------------------------------------------------------------------------
(***************************************************************************)
(* RunLifecycle.                                                           *)
(***************************************************************************)

(* Type correctness *)

\* A program that is not running.
LEMMA IdleType == IdleProgram \in Program
BY CreateRunStateType DEF IdleProgram, Program, Pc, Kind

\* Saving the outcome of a node, and going on or not.
LEMMA SaveOutcomeType ==
  ASSUME TypeOK, NEW p \in Proc, NEW s \in RunRecord, SaveOutcome(p, s),
         UNCHANGED stored
  PROVE  TypeOK'
<1>1. proc'[p] \in Program
  BY IdleType DEF TypeOK, SaveOutcome, Program, Pc
<1>2. \A q \in Proc : q # p => proc'[q] = proc[q]
  BY DEF TypeOK, SaveOutcome
<1>3. proc' \in [Proc -> Program]
  <2>1. proc' = [q \in Proc |-> proc'[q]]
    BY DEF TypeOK, SaveOutcome
  <2> QED BY <1>1, <1>2, <2>1 DEF TypeOK
<1> QED BY <1>3 DEF TypeOK, SaveOutcome

\* Saving a record, or none, and exiting.
LEMMA ExitType ==
  ASSUME TypeOK, NEW p \in Proc, Exit(p), UNCHANGED stored,
         disk' \in RunRecord
  PROVE  TypeOK'
BY IdleType DEF TypeOK, Exit

\* Starting a program on a record.
LEMMA StartType ==
  ASSUME TypeOK, NEW p \in Proc, NEW kind \in Kind, NEW pc \in Pc,
         NEW s \in RunRecord, Start(p, kind, pc, s)
  PROVE  TypeOK'
BY DEF TypeOK, Start, Program

\* The records a handler completes or clears.
LEMMA HandlerTypes ==
  ASSUME NEW s \in RunRecord, NEW n \in Node
  PROVE  Completions(s, n) \subseteq RunRecord /\ Cleared(s, n) \subseteq RunRecord
<1>1. CompleteNode(s, n) \in RunRecord
  BY OutcomeTypes DEF StopStatus
<1>2. n = ResearchReadiness => RunReadiness(s) \in RunRecord
  BY PackageTypes
<1>3. ASSUME NEW c \in ClaimVerdict
      PROVE  [CompleteNode(s, n) EXCEPT !.claims = c] \in RunRecord
  BY <1>1 DEF RunRecord
<1>4. ASSUME NEW b
      PROVE  [CompleteNode(s, n) EXCEPT !.selected = @ \/ b] \in RunRecord
  BY <1>1 DEF RunRecord
<1>5. Completions(s, n) \subseteq RunRecord
  BY <1>2, <1>3, <1>4 DEF Completions
<1> QED BY <1>5 DEF Cleared, RunRecord

\* Every step keeps the types.
LEMMA TypeStep == TypeOK /\ [Next]_vars => TypeOK'
<1> SUFFICES ASSUME TypeOK, [Next]_vars PROVE TypeOK'
  OBVIOUS
<1>1. /\ disk \in RunRecord /\ stored \subseteq ExecutionNodes
      /\ proc \in [Proc -> Program]
      /\ \A p \in Proc : proc[p].copy \in RunRecord
  BY DEF TypeOK, Program
<1>2. \A s \in RunRecord : RecoverExpiredLeases(s) \in RunRecord
  BY LeaseTypes, NodeAssumption
<1>3. CASE UNCHANGED vars
  BY <1>3 DEF vars, TypeOK
<1>4. ASSUME NEW p \in Proc, StartWorker(p) PROVE TypeOK'
  BY <1>1, <1>2, <1>4, StartType DEF StartWorker, Kind, Pc
<1>5. ASSUME NEW p \in Proc, StartSupervisor(p) PROVE TypeOK'
  BY <1>1, <1>2, <1>5, StartType, DecisionTypes DEF StartSupervisor, Kind, Pc
<1>6. ASSUME NEW p \in Proc, StartCommand(p) PROVE TypeOK'
  BY <1>1, <1>6, StartType, CommandAssumption DEF StartCommand, Kind, Pc
<1>7. ASSUME NEW p \in Proc, LeaseReadyNode(p) PROVE TypeOK'
  <2>1. PICK n \in ReadyNodes(Recovered(p)) :
          /\ disk' = LeaseNode(Recovered(p), n)
          /\ proc' = [proc EXCEPT ![p] =
               [proc[p] EXCEPT !.pc = "executing",
                               !.copy = LeaseNode(Recovered(p), n),
                               !.node = n]]
    BY <1>7 DEF LeaseReadyNode
  <2>2. n \in Node /\ LeaseNode(Recovered(p), n) \in RunRecord
    BY <1>1, <1>2, LeaseTypes DEF ReadyNodes, Recovered
  <2>3. [proc[p] EXCEPT !.pc = "executing",
                        !.copy = LeaseNode(Recovered(p), n),
                        !.node = n] \in Program
    BY <1>1, <2>2 DEF Program, Pc
  <2> QED BY <1>1, <1>7, <2>1, <2>2, <2>3 DEF LeaseReadyNode, TypeOK
<1>8. ASSUME NEW p \in Proc, LoopEnds(p) PROVE TypeOK'
  BY <1>1, <1>8, ExitType DEF LoopEnds
<1>9. ASSUME NEW p \in Proc, SupervisorWaits(p) PROVE TypeOK'
  <2>1. [proc[p].copy EXCEPT !.status = "WAITING_FOR_HUMAN"] \in RunRecord
    BY <1>1 DEF RunRecord, RunStatus, StopStatus
  <2> QED BY <1>9, <2>1, ExitType DEF SupervisorWaits, SaveAndExit
<1>10. ASSUME NEW p \in Proc, SupervisorPackages(p) PROVE TypeOK'
  <2>1. Recovered(p) \in RunRecord
    BY <1>1, <1>2 DEF Recovered
  <2>2. [Recovered(p) EXCEPT !.status = "BLOCKED_RESEARCH_NOT_READY"] \in RunRecord
    BY <2>1 DEF RunRecord, RunStatus
  <2>3. WritePackage(Recovered(p)) \in RunRecord
    BY <2>1, PackageTypes
  <2> QED BY <1>10, <2>2, <2>3, ExitType DEF SupervisorPackages, SaveAndExit
<1>11. ASSUME NEW p \in Proc, StoreReport(p) PROVE TypeOK'
  BY <1>1, <1>11 DEF StoreReport, TypeOK, Program, Pc
<1>12. ASSUME NEW p \in Proc, ReportConflict(p) PROVE TypeOK'
  <2>1. proc[p].node \in Node
    BY <1>12, NodeNames DEF ReportConflict
  <2>2. BlockNode(proc[p].copy, proc[p].node, "FAILED") \in RunRecord
    BY <1>1, <2>1, OutcomeTypes DEF StopStatus
  <2> QED BY <1>12, <2>2, SaveOutcomeType DEF ReportConflict
<1>13. ASSUME NEW p \in Proc, FinishNode(p) PROVE TypeOK'
  <2>1. PICK s \in RunRecord : SaveOutcome(p, s)
    BY <1>1, <1>13, HandlerTypes DEF FinishNode
  <2> QED BY <1>13, <2>1, SaveOutcomeType DEF FinishNode
<1>14. ASSUME NEW p \in Proc, StopNode(p) PROVE TypeOK'
  <2>1. PICK n \in Node, st \in Stops : \E s \in Cleared(proc[p].copy, n) :
          SaveOutcome(p, BlockNode(s, n, st))
    BY <1>14 DEF StopNode
  <2> PICK s \in Cleared(proc[p].copy, n) : SaveOutcome(p, BlockNode(s, n, st))
    BY <2>1
  <2>2. s \in RunRecord /\ st \in StopStatus
    BY <1>1, HandlerTypes, StopAssumption DEF StopStatus
  <2>3. BlockNode(s, n, st) \in RunRecord
    BY <2>2, OutcomeTypes
  <2> QED BY <1>14, <2>3, SaveOutcomeType DEF StopNode
<1>15. ASSUME NEW p \in Proc, ExhaustBudget(p) PROVE TypeOK'
  <2>1. PICK s \in RunRecord : SaveOutcome(p, s)
    BY <1>1, <1>15, BudgetTypes DEF ExhaustBudget
  <2> QED BY <1>15, <2>1, SaveOutcomeType DEF ExhaustBudget
<1>16. ASSUME NEW p \in Proc, HandOff(p) PROVE TypeOK'
  <2>1. PICK n \in Node, cause \in Causes : \E s \in Cleared(proc[p].copy, n) :
          SaveOutcome(p, RequestDecision(s, n, cause))
    BY <1>16 DEF HandOff
  <2> PICK s \in Cleared(proc[p].copy, n) :
          SaveOutcome(p, RequestDecision(s, n, cause))
    BY <2>1
  <2>2. s \in RunRecord /\ cause \in Cause
    BY <1>1, HandlerTypes, CauseAssumption
  <2>3. FreeIds(s) # {}
    BY <1>1, <1>16 DEF HandOff, Cleared, FreeIds, RunRecord
  <2>4. RequestDecision(s, n, cause) \in RunRecord
    BY <2>2, <2>3, DecisionTypes
  <2> QED BY <1>16, <2>4, SaveOutcomeType DEF HandOff
<1>17. ASSUME NEW p \in Proc, Operate(p) PROVE TypeOK'
  <2>1. ASSUME NEW c, NEW s \in RunRecord, Run(p, c, s) PROVE TypeOK'
    BY <2>1, ExitType DEF Run, SaveAndExit
  <2>2. CASE Answer(p)
    BY <1>1, <2>1, <2>2, DecisionTypes DEF Answer
  <2>3. CASE Submit(p)
    BY <1>1, <2>1, <2>3, DecisionTypes DEF Submit
  <2>4. CASE ExtendLimit(p)
    BY <1>1, <2>1, <2>4, BudgetTypes, NodeAssumption DEF ExtendLimit
  <2>5. CASE RepairEvidenceRelevance(p)
    BY <1>1, <2>1, <2>5, RepairTypes DEF RepairEvidenceRelevance
  <2>6. CASE RepairCompletionCoverage(p)
    BY <1>1, <2>1, <2>6, RepairTypes DEF RepairCompletionCoverage
  <2>7. CASE Package(p)
    BY <1>1, <2>1, <2>7, PackageTypes DEF Package
  <2>8. CASE CommandFails(p)
    BY <1>1, <2>8, ExitType DEF CommandFails
  <2> QED BY <1>17, <2>2, <2>3, <2>4, <2>5, <2>6, <2>7, <2>8 DEF Operate
<1>18. ASSUME NEW p \in Proc, Crash(p) PROVE TypeOK'
  BY <1>1, <1>18, ExitType DEF Crash
<1>19. CASE Tick
  <2>1. \A s \in RunRecord : Elapse(s) \in RunRecord
    BY LeaseTypes, NodeAssumption
  <2>2. \A p \in Proc : [proc[p] EXCEPT !.copy = Elapse(proc[p].copy)] \in Program
    BY <1>1, <2>1 DEF Program
  <2> QED BY <1>1, <1>19, <2>1, <2>2 DEF Tick, TypeOK
<1> QED BY <1>3, <1>4, <1>5, <1>6, <1>7, <1>8, <1>9, <1>10, <1>11, <1>12,
           <1>13, <1>14, <1>15, <1>16, <1>17, <1>18, <1>19 DEF Next, Step

\* The run record in the file and in every program's memory stays a run
\* record, whatever is executed, killed or overwritten and whichever commands
\* of LifecycleCommands are used.
THEOREM TypeCorrect == Spec => []TypeOK
<1>1. Init => TypeOK
  BY CreateRunStateType, IdleType DEF Init, TypeOK
<1> QED BY <1>1, TypeStep, PTL DEF Spec

-----------------------------------------------------------------------------
(* The inductive invariant *)

\* What the invariant says of one record.
Sound(s) == RecordConsistent(s) /\ CausesInUse(s)

\* A record that differs in neither nodes nor snapshot, without new decisions.
LEMMA SoundSameNodes ==
  ASSUME NEW s \in RunRecord, NEW t \in RunRecord, Sound(s),
         t.node = s.node, t.open \subseteq s.open, t.snapshot = s.snapshot
  PROVE  Sound(t)
BY SameNodes DEF Sound, CausesInUse

\* A new run's record is sound.
LEMMA CreateRunStateSound == Sound(CreateRunState)
BY DEF CreateRunState, Sound, CausesInUse, RecordConsistent,
       DependenciesBehindProgress, SnapshotClosed, DecisionsHoldTheirNodes

\* The invariant, over the file and the programs one by one.
LEMMA InvariantByProgram ==
  InductiveInvariant <=>
    /\ TypeOK /\ Sound(disk)
    /\ \A p \in Proc : Sound(proc[p].copy) /\ ExecutionHeld(p)
BY DEF InductiveInvariant, Records, Sound

\* The same of the next state.
LEMMA NextInvariantByProgram ==
  ASSUME TypeOK', Sound(disk'),
         \A p \in Proc : Sound(proc'[p].copy) /\ ExecutionHeld(p)'
  PROVE  InductiveInvariant'
BY DEF InductiveInvariant, Records, Sound

\* Saving a sound outcome, and going on or not, keeps the invariant.
LEMMA SaveOutcomeSound ==
  ASSUME InductiveInvariant, TypeOK', NEW p \in Proc, NEW s, Sound(s),
         SaveOutcome(p, s)
  PROVE  InductiveInvariant'
<1>1. /\ disk' = s
      /\ proc'[p].copy \in {s, CreateRunState}
      /\ proc'[p].pc \in {"idle", "loop"}
      /\ \A q \in Proc : q # p => proc'[q] = proc[q]
  BY InvariantByProgram DEF SaveOutcome, TypeOK, Program, IdleProgram
<1>2. \A q \in Proc : Sound(proc'[q].copy) /\ ExecutionHeld(q)'
  BY <1>1, InvariantByProgram, CreateRunStateSound
     DEF ExecutionHeld, LifecycleCommands
<1> QED BY <1>1, <1>2, NextInvariantByProgram

\* Exiting, after saving a sound record or without saving, keeps it.
LEMMA ExitSound ==
  ASSUME InductiveInvariant, TypeOK', NEW p \in Proc, Sound(disk'), Exit(p)
  PROVE  InductiveInvariant'
<1>1. /\ proc'[p] = IdleProgram
      /\ \A q \in Proc : q # p => proc'[q] = proc[q]
  BY InvariantByProgram DEF Exit, TypeOK
<1>2. \A q \in Proc : Sound(proc'[q].copy) /\ ExecutionHeld(q)'
  BY <1>1, InvariantByProgram, CreateRunStateSound
     DEF ExecutionHeld, LifecycleCommands, IdleProgram
<1> QED BY <1>2, NextInvariantByProgram

\* Starting a program on a sound record keeps it.
LEMMA StartSound ==
  ASSUME InductiveInvariant, TypeOK', NEW p \in Proc, NEW kind,
         NEW pc \in {"start"} \cup Commands, NEW s, Sound(s),
         Start(p, kind, pc, s)
  PROVE  InductiveInvariant'
<1>1. /\ disk' = disk /\ proc'[p].copy = s /\ proc'[p].pc = pc
      /\ \A q \in Proc : q # p => proc'[q] = proc[q]
  BY InvariantByProgram DEF Start, TypeOK
<1>2. \A q \in Proc : Sound(proc'[q].copy) /\ ExecutionHeld(q)'
  BY <1>1, InvariantByProgram, CommandAssumption
     DEF ExecutionHeld, LifecycleCommands
<1> QED BY <1>1, <1>2, InvariantByProgram, NextInvariantByProgram

\* What a program that executes n finds in its copy.
LEMMA ExecutingSound ==
  ASSUME InductiveInvariant, NEW p \in Proc, NEW n, Executing(p, n),
         NEW s \in Cleared(proc[p].copy, n)
  PROVE  /\ n \in Node /\ s \in RunRecord /\ Sound(s)
         /\ s.node[n] = "LEASED" /\ DependenciesSatisfied(s, n)
         /\ FreeIds(s) = FreeIds(proc[p].copy)
<1>1. /\ n \in Node /\ proc[p].copy \in RunRecord /\ Sound(proc[p].copy)
      /\ proc[p].copy.node[n] = "LEASED"
      /\ DependenciesSatisfied(proc[p].copy, n)
  BY InvariantByProgram DEF Executing, ExecutionHeld, TypeOK, Program
<1>2. /\ s \in RunRecord /\ s.node = proc[p].copy.node
      /\ s.open = proc[p].copy.open /\ s.snapshot = proc[p].copy.snapshot
  BY <1>1 DEF Cleared, RunRecord
<1>3. Sound(s)
  BY <1>1, <1>2, SoundSameNodes
<1> QED BY <1>1, <1>2, <1>3 DEF DependenciesSatisfied, FreeIds

\* A completed node leaves a sound record.
LEMMA CompletionsSound ==
  ASSUME NEW s \in RunRecord, Sound(s), NEW n \in Node,
         s.node[n] = "LEASED", DependenciesSatisfied(s, n)
  PROVE  \A t \in Completions(s, n) : Sound(t)
<1>1. RecordConsistent(s) /\ CausesInUse(s)
  BY DEF Sound
<1>2. CompleteNode(s, n) \in RunRecord
  BY OutcomeTypes DEF StopStatus
<1>3. Sound(CompleteNode(s, n))
  BY <1>1, OutcomesConsistent, NoNewDecisions DEF Sound, CausesInUse
<1>4. n = ResearchReadiness => Sound(RunReadiness(s))
  BY <1>1, PackageConsistent, NoNewDecisions DEF Sound, CausesInUse
<1>5. ASSUME NEW t \in Completions(s, n), n # ResearchReadiness
      PROVE  Sound(t)
  <2>1. t \in RunRecord
    BY HandlerTypes
  <2>2. /\ t.node = CompleteNode(s, n).node
        /\ t.open = CompleteNode(s, n).open
        /\ t.snapshot = CompleteNode(s, n).snapshot
    BY <1>2, <1>5 DEF Completions, RunRecord
  <2> QED BY <1>2, <1>3, <2>1, <2>2, SoundSameNodes
<1> QED BY <1>4, <1>5 DEF Completions

\* The answers that reopen a node and the repair that restores nodes are not
\* both in use.
NoAtomicWithCoverage ==
  "ATOMIC" \notin Causes \/ "repair-research-completion-coverage" \notin Commands

\* Every command keeps the invariant.
LEMMA OperateSound ==
  ASSUME NoAtomicWithCoverage, InductiveInvariant, TypeOK',
         NEW p \in Proc, Operate(p)
  PROVE  InductiveInvariant'
<1> DEFINE c == proc[p].copy
<1>1. /\ c \in RunRecord /\ RecordConsistent(c) /\ CausesInUse(c)
      /\ ExecutionHeld(p) /\ Sound(disk)
  BY InvariantByProgram DEF Sound, TypeOK, Program
<1> HIDE DEF c
<1>2. ASSUME NEW m, NEW s, Sound(s), Run(p, m, s) PROVE InductiveInvariant'
  BY <1>2, ExitSound DEF Run, SaveAndExit
<1>3. ASSUME NEW s, RecordConsistent(s), s.open \subseteq c.open
      PROVE  Sound(s)
  BY <1>1, <1>3 DEF Sound, CausesInUse
<1>4. CASE Answer(p)
  <2>1. PICK d \in c.open : /\ BlockedNodes(d) # {}
                            /\ Run(p, "answer", AnswerDecision(c, d))
    BY <1>4 DEF Answer, c
  <2>2. Sound(AnswerDecision(c, d))
    BY <1>1, <1>3, <2>1, AnswerConsistent, NoNewDecisions
  <2> QED BY <1>2, <2>1, <2>2
<1>5. CASE Submit(p)
  <2>1. PICK d \in c.open : Run(p, "decide", SubmitDecision(c, d))
    BY <1>5 DEF Submit, c
  <2>2. Sound(SubmitDecision(c, d))
    BY <1>1, <1>3, SubmitConsistent, NoNewDecisions
  <2> QED BY <1>2, <2>1, <2>2
<1>6. CASE ExtendLimit(p)
  <2>1. Sound(c) /\ Sound(ExtendBudget(c))
    BY <1>1, <1>3, BudgetConsistent, NoNewDecisions
  <2> QED BY <1>2, <1>6, <2>1 DEF ExtendLimit, c
<1>7. CASE RepairEvidenceRelevance(p)
  <2>1. Sound(c) /\ \A q \in BOOLEAN : Sound(RepairEvidence(c, q))
    BY <1>1, <1>3, RepairEvidenceConsistent, NoNewDecisions
  <2> QED BY <1>2, <1>7, <2>1 DEF RepairEvidenceRelevance, c
<1>8. CASE RepairCompletionCoverage(p)
  <2>1. "repair-research-completion-coverage" \in Commands
    BY <1>1, <1>8 DEF RepairCompletionCoverage, Run, ExecutionHeld, LifecycleCommands
  <2>2. \A d \in c.open : d.cause # "ATOMIC"
    BY <1>1, <2>1 DEF NoAtomicWithCoverage, CausesInUse
  <2>3. Sound(RepairCoverage(c))
    BY <1>1, <1>3, <2>2, RepairCoverageConsistent, NoNewDecisions
  <2> QED BY <1>2, <1>8, <2>3 DEF RepairCompletionCoverage, c
<1>9. CASE Package(p)
  <2>1. Sound(c) /\ Sound(WritePackage(c))
    BY <1>1, <1>3, PackageConsistent, NoNewDecisions
  <2> QED BY <1>2, <1>9, <2>1 DEF Package, c
<1>10. CASE CommandFails(p)
  BY <1>1, <1>10, ExitSound DEF CommandFails
<1> QED BY <1>4, <1>5, <1>6, <1>7, <1>8, <1>9, <1>10 DEF Operate

\* Leasing a node and every outcome of its execution keep the invariant.
LEMMA StepSound ==
  ASSUME InductiveInvariant, TypeOK', NEW p \in Proc, Step(p)
  PROVE  InductiveInvariant'
<1> DEFINE c == proc[p].copy
<1>1. /\ c \in RunRecord /\ RecordConsistent(c) /\ CausesInUse(c) /\ Sound(c)
      /\ Sound(disk) /\ disk \in RunRecord /\ TypeOK
  BY InvariantByProgram DEF Sound, TypeOK, Program
<1>2. Recovered(p) = RecoverExpiredLeases(c) /\ c \in Cleared(c, proc[p].node)
  BY DEF Recovered, Cleared
<1> HIDE DEF c
<1>3. Recovered(p) \in RunRecord /\ Sound(Recovered(p))
  BY <1>1, <1>2, LeaseTypes, LeasesConsistent, NoNewDecisions, NodeAssumption
     DEF Sound, CausesInUse
<1>4. CASE LeaseReadyNode(p)
  <2>1. PICK n \in ReadyNodes(Recovered(p)) :
          /\ disk' = LeaseNode(Recovered(p), n)
          /\ proc' = [proc EXCEPT ![p] =
               [proc[p] EXCEPT !.pc = "executing",
                               !.copy = LeaseNode(Recovered(p), n),
                               !.node = n]]
    BY <1>4 DEF LeaseReadyNode
  <2> DEFINE s == LeaseNode(Recovered(p), n)
  <2>2. n \in Node /\ DependenciesSatisfied(Recovered(p), n)
        /\ Recovered(p).node[n] = "PENDING"
    BY DEF ReadyNodes
  <2>3. Sound(s)
    BY <1>3, LeasesConsistent, NoNewDecisions DEF Sound, CausesInUse
  <2>4. s.node = [Recovered(p).node EXCEPT ![n] = "LEASED"]
    BY <1>3 DEF LeaseNode, RunRecord
  <2>5. s.node[n] = "LEASED" /\ DependenciesSatisfied(s, n)
    BY <1>3, <2>2, <2>4, NodeAssumption DEF DependenciesSatisfied, RunRecord
  <2> HIDE DEF s
  <2>6. /\ disk' = s /\ proc'[p].copy = s
        /\ proc'[p].node = n /\ proc'[p].pc = "executing"
        /\ \A q \in Proc : q # p => proc'[q] = proc[q]
    BY <1>1, <2>1 DEF TypeOK, Program, s
  <2>7. \A q \in Proc : Sound(proc'[q].copy) /\ ExecutionHeld(q)'
    BY <2>2, <2>3, <2>5, <2>6, InvariantByProgram DEF ExecutionHeld, LifecycleCommands
  <2> QED BY <2>3, <2>6, <2>7, NextInvariantByProgram
<1>5. CASE LoopEnds(p)
  BY <1>1, <1>5, ExitSound DEF LoopEnds
<1>6. CASE SupervisorWaits(p)
  <2> DEFINE t == [c EXCEPT !.status = "WAITING_FOR_HUMAN"]
  <2>1. t \in RunRecord
    BY <1>1 DEF RunRecord, RunStatus, StopStatus
  <2>2. t.node = c.node /\ t.open = c.open /\ t.snapshot = c.snapshot
    BY <1>1 DEF RunRecord
  <2>3. Sound(t)
    BY <1>1, <2>1, <2>2, SoundSameNodes
  <2> QED BY <1>6, <2>3, ExitSound DEF SupervisorWaits, SaveAndExit, c
<1>7. CASE SupervisorPackages(p)
  <2> DEFINE r == Recovered(p)
             t == [r EXCEPT !.status = "BLOCKED_RESEARCH_NOT_READY"]
             w == WritePackage(r)
  <2>1. t \in RunRecord /\ w \in RunRecord
    BY <1>3, PackageTypes DEF RunRecord, RunStatus
  <2>2. /\ t.node = r.node /\ t.open = r.open /\ t.snapshot = r.snapshot
        /\ w.node = r.node /\ w.open = r.open /\ w.snapshot = r.snapshot
    BY <1>3 DEF RunRecord, WritePackage
  <2>3. Sound(t) /\ Sound(w)
    BY <1>3, <2>1, <2>2, SoundSameNodes
  <2> QED BY <1>7, <2>3, ExitSound DEF SupervisorPackages, SaveAndExit
<1>8. CASE StoreReport(p)
  <2>1. /\ disk' = disk /\ proc'[p].pc = "stored"
        /\ proc'[p].copy = c /\ proc'[p].node = proc[p].node
        /\ proc[p].pc = "executing"
        /\ \A q \in Proc : q # p => proc'[q] = proc[q]
    BY <1>1, <1>8 DEF StoreReport, TypeOK, Program, c
  <2>2. \A q \in Proc : Sound(proc'[q].copy) /\ ExecutionHeld(q)'
    BY <1>1, <2>1, InvariantByProgram DEF ExecutionHeld, LifecycleCommands, c
  <2> QED BY <1>1, <2>1, <2>2, NextInvariantByProgram
<1>9. CASE ReportConflict(p)
  <2>1. Executing(p, proc[p].node)
    BY <1>9 DEF ReportConflict, Executing
  <2>2. Sound(BlockNode(c, proc[p].node, "FAILED"))
    BY <1>1, <1>2, <2>1, ExecutingSound, OutcomesConsistent, NoNewDecisions
       DEF Sound, CausesInUse, StopStatus, c
  <2> QED BY <1>9, <2>2, SaveOutcomeSound DEF ReportConflict, c
<1>10. CASE FinishNode(p)
  <2>1. PICK n \in Node :
          /\ Executing(p, n)
          /\ \E s \in Completions(c, n) : SaveOutcome(p, s)
    BY <1>10 DEF FinishNode, c
  <2>2. c.node[n] = "LEASED" /\ DependenciesSatisfied(c, n)
    BY <2>1, ExecutingSound DEF Cleared, c
  <2>3. \A s \in Completions(c, n) : Sound(s)
    BY <1>1, <2>2, CompletionsSound
  <2> QED BY <2>1, <2>3, SaveOutcomeSound
<1>11. CASE StopNode(p)
  <2>1. PICK n \in Node, st \in Stops :
          /\ Executing(p, n)
          /\ \E s \in Cleared(c, n) : SaveOutcome(p, BlockNode(s, n, st))
    BY <1>11 DEF StopNode, c
  <2>2. PICK s \in Cleared(c, n) : SaveOutcome(p, BlockNode(s, n, st))
    BY <2>1
  <2>3. /\ s \in RunRecord /\ Sound(s)
        /\ s.node[n] = "LEASED" /\ DependenciesSatisfied(s, n)
    BY <2>1, ExecutingSound DEF c
  <2>4. Sound(BlockNode(s, n, st))
    BY <2>3, OutcomesConsistent, NoNewDecisions, StopAssumption
       DEF Sound, CausesInUse, StopStatus
  <2> QED BY <2>2, <2>4, SaveOutcomeSound
<1>12. CASE ExhaustBudget(p)
  <2>1. PICK n \in Node, recorded \in BOOLEAN :
          Executing(p, n) /\ SaveOutcome(p, BudgetBlock(c, n, recorded))
    BY <1>12 DEF ExhaustBudget, c
  <2>2. c.node[n] = "LEASED" /\ DependenciesSatisfied(c, n)
    BY <2>1, ExecutingSound DEF Cleared, c
  <2>3. Sound(BudgetBlock(c, n, recorded))
    <3>1. RecordConsistent(BudgetBlock(c, n, recorded))
      BY <1>1, <2>2, BudgetConsistent
    <3>2. BudgetBlock(c, n, recorded).open = c.open
      BY <1>1 DEF BudgetBlock, BlockNode, SetNode, RunRecord
    <3> QED BY <1>1, <3>1, <3>2 DEF Sound, CausesInUse
  <2> QED BY <2>1, <2>3, SaveOutcomeSound
<1>13. CASE HandOff(p)
  <2>1. PICK n \in Node, cause \in Causes :
          /\ Executing(p, n) /\ MayHandOff(n, cause)
          /\ \E s \in Cleared(c, n) : SaveOutcome(p, RequestDecision(s, n, cause))
    BY <1>13 DEF HandOff, c
  <2>2. PICK s \in Cleared(c, n) : SaveOutcome(p, RequestDecision(s, n, cause))
    BY <2>1
  <2>3. /\ s \in RunRecord /\ Sound(s) /\ FreeIds(s) # {}
        /\ s.node[n] = "LEASED" /\ DependenciesSatisfied(s, n)
    BY <1>13, <2>1, ExecutingSound DEF HandOff, c
  <2>4. cause \in Cause
    BY CauseAssumption
  <2>5. cause = "SKILL" \/ n \in Upstream
    BY <2>1, <2>4 DEF MayHandOff, Cause, ModelNodes, Upstream
  <2>6. RecordConsistent(RequestDecision(s, n, cause))
    BY <2>3, <2>4, <2>5, RequestConsistent DEF Sound
  <2>7. CausesInUse(RequestDecision(s, n, cause))
    <3>1. s.open \in SUBSET Decision /\ \A d \in s.open : d.cause \in Causes
      BY <2>3 DEF RunRecord, Sound, CausesInUse
    <3>2. \A d \in RequestDecision(s, n, cause).open :
            d \in s.open \/ d.cause = cause
      BY <2>3 DEF RequestDecision, BlockNode, SetNode, RunRecord
    <3> QED BY <3>1, <3>2 DEF CausesInUse
  <2> QED BY <2>2, <2>6, <2>7, SaveOutcomeSound DEF Sound
<1> QED BY <1>4, <1>5, <1>6, <1>7, <1>8, <1>9, <1>10, <1>11, <1>12, <1>13 DEF Step

\* Every step keeps the invariant.
LEMMA InvariantStep ==
  ASSUME NoAtomicWithCoverage
  PROVE  InductiveInvariant /\ [Next]_vars => InductiveInvariant'
<1> SUFFICES ASSUME InductiveInvariant, [Next]_vars PROVE InductiveInvariant'
  OBVIOUS
<1>1. TypeOK /\ TypeOK'
  BY TypeStep DEF InductiveInvariant
<1>2. /\ disk \in RunRecord /\ Sound(disk)
      /\ \A p \in Proc : /\ proc[p].copy \in RunRecord
                         /\ Sound(proc[p].copy) /\ ExecutionHeld(p)
  BY InvariantByProgram DEF TypeOK, Program
<1>3. CASE UNCHANGED vars
  <2>1. disk' = disk /\ proc' = proc
    BY <1>3 DEF vars
  <2>2. \A q \in Proc : Sound(proc'[q].copy) /\ ExecutionHeld(q)'
    BY <1>2, <2>1 DEF ExecutionHeld
  <2> QED BY <1>1, <1>2, <2>1, <2>2, NextInvariantByProgram
<1>4. \A s \in RunRecord : Sound(s) => Sound(RecoverExpiredLeases(s))
  BY LeasesConsistent, NoNewDecisions DEF Sound, CausesInUse
<1>5. ASSUME NEW p \in Proc, StartWorker(p) PROVE InductiveInvariant'
  BY <1>1, <1>2, <1>4, <1>5, StartSound DEF StartWorker
<1>6. ASSUME NEW p \in Proc, StartSupervisor(p) PROVE InductiveInvariant'
  <2>1. InvalidateStaleRouting(disk) \in RunRecord
    BY <1>2, DecisionTypes
  <2>2. Sound(InvalidateStaleRouting(disk))
    BY <1>2, InvalidateConsistent, NoNewDecisions DEF Sound, CausesInUse
  <2> QED BY <1>1, <1>4, <1>6, <2>1, <2>2, StartSound DEF StartSupervisor
<1>7. ASSUME NEW p \in Proc, StartCommand(p) PROVE InductiveInvariant'
  BY <1>1, <1>2, <1>7, StartSound DEF StartCommand
<1>8. ASSUME NEW p \in Proc, Step(p) PROVE InductiveInvariant'
  BY <1>1, <1>8, StepSound
<1>9. ASSUME NEW p \in Proc, Operate(p) PROVE InductiveInvariant'
  BY <1>1, <1>9, OperateSound
<1>10. ASSUME NEW p \in Proc, Crash(p) PROVE InductiveInvariant'
  BY <1>1, <1>2, <1>10, ExitSound DEF Crash
<1>11. CASE Tick
  <2>1. \A s \in RunRecord :
          /\ Sound(s) => Sound(Elapse(s))
          /\ Elapse(s).node = s.node
    BY LeasesConsistent, NoNewDecisions DEF Sound, CausesInUse, Elapse, RunRecord
  <2>2. /\ disk' = Elapse(disk)
        /\ \A q \in Proc : /\ proc'[q].pc = proc[q].pc
                           /\ proc'[q].node = proc[q].node
                           /\ proc'[q].copy = Elapse(proc[q].copy)
    BY <1>1, <1>11 DEF Tick, TypeOK, Program
  <2>3. \A q \in Proc : Sound(proc'[q].copy)
    BY <1>2, <2>1, <2>2
  <2>4. \A q \in Proc : ExecutionHeld(q)'
    BY <1>2, <2>1, <2>2 DEF ExecutionHeld, DependenciesSatisfied
  <2> QED BY <1>1, <1>2, <2>1, <2>2, <2>3, <2>4, NextInvariantByProgram
<1> QED BY <1>3, <1>5, <1>6, <1>7, <1>8, <1>9, <1>10, <1>11 DEF Next

\* The inductive invariant holds throughout: a program executes a node only
\* while its copy shows it leased behind COMPLETED dependencies, and every
\* record anyone holds is consistent.  Of the commands of LifecycleCommands:
\* repair-external-continuation reopens a refinement under its COMPLETED
\* dependents, and the two structured repairs leave open decisions on PENDING
\* nodes (src/src/research_runtime.py:1655-1661, 2581), so it excludes these.
THEOREM InvariantHolds ==
  ASSUME NoAtomicWithCoverage PROVE Spec => []InductiveInvariant
<1>1. Init => InductiveInvariant
  <2> SUFFICES ASSUME Init PROVE InductiveInvariant
    OBVIOUS
  <2>1. TypeOK
    BY CreateRunStateType, IdleType DEF Init, TypeOK
  <2> QED BY <2>1, CreateRunStateSound, InvariantByProgram
          DEF Init, IdleProgram, ExecutionHeld, LifecycleCommands
<1> QED BY <1>1, InvariantStep, PTL DEF Spec

\* Work is accepted in dependency order, in the file and in the memory of any
\* number of programs that run at the same time and overwrite each other.  Of
\* the commands of LifecycleCommands: with repair-external-continuation or the
\* structured repairs it is false (ExternalContinuation!ReconcileKeepsCompleted
\* and StructuredRepair!CompletedFollowsDependencies are refuted).
THEOREM DependenciesRespected ==
  ASSUME NoAtomicWithCoverage PROVE Spec => []CompletionRespectsDependencies
<1>1. InductiveInvariant => CompletionRespectsDependencies
  BY DEF InductiveInvariant, CompletionRespectsDependencies, RecordConsistent,
         DependenciesBehindProgress
<1> QED BY <1>1, InvariantHolds, PTL

\* An open decision finds the node it blocks waiting (or restored), and is
\* the only one that blocks it.  Of the commands of LifecycleCommands: the
\* structured repairs put a waiting node back to PENDING under its decision
\* (StructuredRepair!EvidenceQuestionsAreCurrent is refuted).
THEOREM DecisionsHold ==
  ASSUME NoAtomicWithCoverage PROVE Spec => []OpenDecisionHoldsItsNode
<1>1. InductiveInvariant => OpenDecisionHoldsItsNode
  BY DEF InductiveInvariant, OpenDecisionHoldsItsNode, RecordConsistent,
         DecisionsHoldTheirNodes
<1> QED BY <1>1, InvariantHolds, PTL

-----------------------------------------------------------------------------
(* The refinement of DagProgress, by a run that one program at a time works on. *)

OneProgram == \E p \in Proc : Proc = {p}

\* The nodes whose work a record accepts: what the refinement maps it to.
Done(s) == {n \in Node : s.node[n] = "COMPLETED"}

\* The only program that runs has the progress of the file.
ProgressInvariant ==
  /\ InductiveInvariant
  /\ \A p \in Proc : proc[p].pc # "idle" => Done(proc[p].copy) = Done(disk)

\* One node's work is added, in dependency order, or none is.
Adds(s, t) ==
  \/ Done(t) = Done(s)
  \/ \E n \in Node : DependenciesSatisfied(s, n) /\ Done(t) = Done(s) \cup {n}

\* Setting one node to another status than COMPLETED.
LEMMA DoneSetOne ==
  ASSUME NEW s \in RunRecord, NEW t, NEW n \in Node, NEW st,
         t.node = [s.node EXCEPT ![n] = st]
  PROVE  /\ st = "COMPLETED" => Done(t) = Done(s) \cup {n}
         /\ st # "COMPLETED" /\ s.node[n] # "COMPLETED" => Done(t) = Done(s)
BY DEF Done, RunRecord

\* Reopening nodes that are not COMPLETED.
LEMMA DoneReopened ==
  ASSUME NEW s \in RunRecord, NEW t, NEW N,
         \A n \in N : s.node[n] # "COMPLETED",
         t.node = SetNodes(s, N, "PENDING").node
  PROVE  Done(t) = Done(s)
BY DEF Done, SetNodes, RunRecord

\* Recovering leases, leasing, and the passing of time.
LEMMA LeasesKeepDone ==
  ASSUME NEW s \in RunRecord
  PROVE  /\ Done(RecoverExpiredLeases(s)) = Done(s)
         /\ \A n \in ReadyNodes(s) : Done(LeaseNode(s, n)) = Done(s)
         /\ Done(Elapse(s)) = Done(s)
<1>1. Done(RecoverExpiredLeases(s)) = Done(s)
  BY DoneReopened DEF RecoverExpiredLeases
<1>2. ASSUME NEW n \in ReadyNodes(s) PROVE Done(LeaseNode(s, n)) = Done(s)
  BY DEF ReadyNodes, LeaseNode, Done, RunRecord
<1>3. Done(Elapse(s)) = Done(s)
  BY DEF Elapse, Done, RunRecord
<1> QED BY <1>1, <1>2, <1>3

\* Stopping or handing over a node that is executed, reporting, extending the budget.
LEMMA StopsKeepDone ==
  ASSUME NEW s \in RunRecord
  PROVE  /\ \A n \in Node : s.node[n] = "LEASED" =>
              /\ \A st \in StopStatus : Done(BlockNode(s, n, st)) = Done(s)
              /\ \A recorded \in BOOLEAN : Done(BudgetBlock(s, n, recorded)) = Done(s)
              /\ \A cause \in Cause : Done(RequestDecision(s, n, cause)) = Done(s)
         /\ \A st : Done([s EXCEPT !.status = st]) = Done(s)
         /\ Done(WritePackage(s)) = Done(s)
         /\ Done(ExtendBudget(s)) = Done(s)
<1>1. ASSUME NEW n \in Node, s.node[n] = "LEASED", NEW st \in StopStatus
      PROVE  Done(BlockNode(s, n, st)) = Done(s)
  <2>1. BlockNode(s, n, st).node = [s.node EXCEPT ![n] = st]
    BY DEF BlockNode, SetNode, RunRecord
  <2> QED BY <1>1, <2>1, DoneSetOne DEF StopStatus
<1>2. ASSUME NEW n \in Node, s.node[n] = "LEASED", NEW recorded \in BOOLEAN
      PROVE  Done(BudgetBlock(s, n, recorded)) = Done(s)
  <2>1. BudgetBlock(s, n, recorded).node = [s.node EXCEPT ![n] = "BLOCKED_BUDGET"]
    BY DEF BudgetBlock, BlockNode, SetNode, RunRecord
  <2> QED BY <1>2, <2>1, DoneSetOne
<1>3. ASSUME NEW n \in Node, s.node[n] = "LEASED", NEW cause \in Cause
      PROVE  Done(RequestDecision(s, n, cause)) = Done(s)
  <2>1. RequestDecision(s, n, cause).node = [s.node EXCEPT ![n] = "WAITING_FOR_HUMAN"]
    BY DEF RequestDecision, BlockNode, SetNode, RunRecord
  <2> QED BY <1>3, <2>1, DoneSetOne
<1>4. \A st : Done([s EXCEPT !.status = st]) = Done(s)
  BY DEF Done, RunRecord
<1>5. Done(ExtendBudget(s)) = Done(s)
  <2> DEFINE N == {n \in s.blocked : s.node[n] = "BLOCKED_BUDGET"}
             u == SetNodes(s, N, "PENDING")
             t == ExtendBudget(s)
  <2>1. u \in RunRecord
    BY SetNodesType DEF NodeStatus
  <2>2. t = u \/ t = [u EXCEPT !.status = "PLANNED_RESEARCH"]
    BY DEF ExtendBudget
  <2>3. t.node = u.node
    BY <2>1, <2>2 DEF RunRecord
  <2> HIDE DEF t
  <2>4. Done(t) = Done(s)
    BY <2>3, DoneReopened
  <2> QED BY <2>4 DEF t
<1> QED BY <1>1, <1>2, <1>3, <1>4, <1>5 DEF WritePackage

\* Completing the node that is executed.
LEMMA CompletionsAdd ==
  ASSUME NEW s \in RunRecord, NEW n \in Node,
         s.node[n] = "LEASED", DependenciesSatisfied(s, n)
  PROVE  \A t \in Completions(s, n) : Adds(s, t)
<1>1. ASSUME NEW r \in RunRecord PROVE CompleteNode(r, n).node = [r.node EXCEPT ![n] = "COMPLETED"]
  BY DEF CompleteNode, SetNode, RunRecord
<1>2. ASSUME NEW t, t.node = [s.node EXCEPT ![n] = "COMPLETED"] PROVE Adds(s, t)
  BY <1>2, DoneSetOne DEF Adds
<1>3. CompleteNode(s, n) \in RunRecord
  BY OutcomeTypes DEF StopStatus
<1>4. ASSUME n # ResearchReadiness, NEW t \in Completions(s, n) PROVE Adds(s, t)
  <2>1. t.node = CompleteNode(s, n).node
    BY <1>3, <1>4 DEF Completions, RunRecord
  <2> QED BY <1>1, <1>2, <2>1
<1>5. ASSUME n = ResearchReadiness PROVE Adds(s, RunReadiness(s))
  <2> DEFINE u == [s EXCEPT !.coverage = CoverageSufficient(s)]
             v == CompleteNode(u, n)
             t == RunReadiness(s)
  <2>1. u \in RunRecord /\ u.node = s.node
    BY DEF RunRecord, CoverageSufficient
  <2> HIDE DEF u
  <2>2. v \in RunRecord /\ v.node = [s.node EXCEPT ![n] = "COMPLETED"]
    BY <1>1, <2>1, OutcomeTypes DEF StopStatus
  <2> HIDE DEF v
  <2>3. t \in {[v EXCEPT !.status = "PARTIAL_RESEARCH"], WritePackage(v),
               BlockNode(v, n, "BLOCKED_OTHER")}
    BY <1>5 DEF RunReadiness, u, v
  <2> HIDE DEF t
  <2>4. t.node \in {v.node, [v.node EXCEPT ![n] = "BLOCKED_OTHER"]}
    BY <2>2, <2>3 DEF WritePackage, BlockNode, SetNode, RunRecord
  <2>5. [v.node EXCEPT ![n] = "BLOCKED_OTHER"] = [s.node EXCEPT ![n] = "BLOCKED_OTHER"]
    BY <2>2 DEF RunRecord
  <2>6. t.node = [s.node EXCEPT ![n] = "BLOCKED_OTHER"] => Done(t) = Done(s)
    BY DoneSetOne
  <2>7. Adds(s, t)
    BY <1>2, <2>2, <2>4, <2>5, <2>6 DEF Adds
  <2> QED BY <2>7 DEF t
<1> QED BY <1>4, <1>5 DEF Completions

\* Decisions: an answer adds the node it completes, the rest adds nothing.
LEMMA DecisionsAdd ==
  ASSUME NEW s \in RunRecord, RecordConsistent(s)
  PROVE  /\ \A d \in s.open : /\ Done(SubmitDecision(s, d)) = Done(s)
                              /\ (BlockedNodes(d) # {} => Adds(s, AnswerDecision(s, d)))
         /\ Done(InvalidateStaleRouting(s)) = Done(s)
<1>1. ASSUME NEW u \in RunRecord, NEW D
      PROVE  PlannedUnlessOpen([u EXCEPT !.open = @ \ D]).node = u.node
  BY DEF PlannedUnlessOpen, RunRecord
<1>2. ASSUME NEW d \in s.open PROVE Done(SubmitDecision(s, d)) = Done(s)
  <2> DEFINE N == {n \in BlockedNodes(d) : s.node[n] = "WAITING_FOR_HUMAN"}
             t == SubmitDecision(s, d)
  <2>1. SetNodes(s, N, "PENDING") \in RunRecord
    BY SetNodesType DEF NodeStatus
  <2>2. t.node = SetNodes(s, N, "PENDING").node
    BY <1>1, <2>1 DEF SubmitDecision, Resolve
  <2> HIDE DEF t
  <2>3. Done(t) = Done(s)
    BY <2>2, DoneReopened
  <2> QED BY <2>3 DEF t
<1>3. Done(InvalidateStaleRouting(s)) = Done(s)
  <2> DEFINE stale == StaleRoutingDecisions(s)
             N == {d.node : d \in stale}
             t == InvalidateStaleRouting(s)
  <2>1. \A n \in N : s.node[n] # "COMPLETED"
    BY DEF StaleRoutingDecisions
  <2>2. SetNodes(s, N, "PENDING") \in RunRecord
    BY SetNodesType DEF NodeStatus
  <2>3. t = IF stale = {} THEN s
            ELSE PlannedUnlessOpen([SetNodes(s, N, "PENDING") EXCEPT !.open = @ \ stale])
    BY DEF InvalidateStaleRouting
  <2> HIDE DEF t, N, stale
  <2>4. t = s \/ t.node = SetNodes(s, N, "PENDING").node
    BY <1>1, <2>2, <2>3
  <2>5. Done(t) = Done(s)
    BY <2>1, <2>4, DoneReopened
  <2> QED BY <2>5 DEF t
<1>4. ASSUME NEW d \in s.open, BlockedNodes(d) # {}
      PROVE  Adds(s, AnswerDecision(s, d))
  <2> DEFINE n == d.node
             u == IF d.cause = "ATOMIC" THEN SetNode(s, n, "PENDING")
                                        ELSE ApplyHumanResponse(s, n)
             t == AnswerDecision(s, d)
  <2>1. /\ n \in Node /\ DependenciesSatisfied(s, n)
        /\ d.cause = "ATOMIC" => s.node[n] = "WAITING_FOR_HUMAN"
    BY <1>4, BlockedOnce
  <2>2. /\ SetNode(s, n, "PENDING") \in RunRecord /\ CompleteNode(s, n) \in RunRecord
        /\ SetNode(s, n, "PENDING").node = [s.node EXCEPT ![n] = "PENDING"]
        /\ CompleteNode(s, n).node = [s.node EXCEPT ![n] = "COMPLETED"]
    BY <2>1, OutcomeTypes, SetNodeType DEF StopStatus, NodeStatus, CompleteNode, SetNode, RunRecord
  <2>3. /\ ApplyHumanResponse(s, n) \in RunRecord
        /\ ApplyHumanResponse(s, n).node \in {s.node, [s.node EXCEPT ![n] = "COMPLETED"]}
    BY <2>2 DEF ApplyHumanResponse, RunRecord
  <2>4. /\ u \in RunRecord
        /\ \/ u.node \in {s.node, [s.node EXCEPT ![n] = "COMPLETED"]}
           \/ u.node = [s.node EXCEPT ![n] = "PENDING"] /\ s.node[n] = "WAITING_FOR_HUMAN"
    BY <2>1, <2>2, <2>3
  <2> HIDE DEF u
  <2>5. t.node = u.node
    BY <1>1, <2>4 DEF AnswerDecision, Resolve, u
  <2> HIDE DEF t
  <2>6. t.node = s.node => Done(t) = Done(s)
    BY DEF Done
  <2>7. t.node = [s.node EXCEPT ![n] = "COMPLETED"] => Done(t) = Done(s) \cup {n}
    BY <2>1, DoneSetOne
  <2>8. t.node = [s.node EXCEPT ![n] = "PENDING"] /\ s.node[n] = "WAITING_FOR_HUMAN"
           => Done(t) = Done(s)
    BY <2>1, DoneSetOne
  <2>9. Adds(s, t)
    BY <2>1, <2>4, <2>5, <2>6, <2>7, <2>8 DEF Adds
  <2> QED BY <2>9 DEF t
<1> QED BY <1>2, <1>3, <1>4

\* What a worker or supervisor p does in a step.
AddsWork(p) ==
  /\ Adds(proc[p].copy, disk') /\ proc[p].pc \notin LifecycleCommands \cup {"idle"}
  /\ proc'[p].pc \notin LifecycleCommands
  /\ proc'[p].pc # "idle" => Done(proc'[p].copy) = Done(disk')

\* Leasing a node and every outcome of its execution.
LEMMA StepAdds ==
  ASSUME ProgressInvariant, NEW p \in Proc, Step(p)
  PROVE  AddsWork(p)
<1> DEFINE c == proc[p].copy
<1>1. /\ c \in RunRecord /\ RecordConsistent(c) /\ proc \in [Proc -> Program]
      /\ proc[p].pc \notin {"idle"} => Done(c) = Done(disk)
  BY InvariantByProgram DEF ProgressInvariant, Sound, TypeOK, Program
<1>2. /\ Recovered(p) \in RunRecord /\ Done(Recovered(p)) = Done(c)
  BY <1>1, LeaseTypes, LeasesKeepDone, NodeAssumption DEF Recovered
<1>3. ASSUME NEW n, Executing(p, n), NEW s \in Cleared(c, n)
      PROVE  /\ n \in Node /\ s \in RunRecord /\ Done(s) = Done(c)
             /\ s.node[n] = "LEASED" /\ DependenciesSatisfied(s, n)
  <2>1. /\ n \in Node /\ s \in RunRecord /\ s.node[n] = "LEASED"
        /\ DependenciesSatisfied(s, n)
    BY <1>3, ExecutingSound DEF ProgressInvariant
  <2>2. s.node = c.node
    BY <1>1, <1>3 DEF Cleared, RunRecord
  <2> QED BY <2>1, <2>2 DEF Done
<1>4. ASSUME NEW s, Adds(c, s), SaveOutcome(p, s),
             proc[p].pc \in {"executing", "stored"}
      PROVE  AddsWork(p)
  <2>1. /\ disk' = s
        /\ proc'[p] = IdleProgram \/ (proc'[p].pc = "loop" /\ proc'[p].copy = s)
    BY <1>1, <1>4 DEF SaveOutcome, Program
  <2> QED BY <1>4, <2>1 DEF IdleProgram, LifecycleCommands, AddsWork
<1>5. ASSUME Exit(p), InLoop(p), Adds(c, disk') PROVE AddsWork(p)
  BY <1>1, <1>5 DEF Exit, InLoop, IdleProgram, LifecycleCommands, AddsWork
<1>6. \A s : Done(s) = Done(c) => Adds(c, s)
  BY DEF Adds
<1> HIDE DEF c
<1>7. CASE LeaseReadyNode(p)
  <2>1. PICK n \in ReadyNodes(Recovered(p)) :
          /\ disk' = LeaseNode(Recovered(p), n)
          /\ proc' = [proc EXCEPT ![p] =
               [proc[p] EXCEPT !.pc = "executing",
                               !.copy = LeaseNode(Recovered(p), n),
                               !.node = n]]
    BY <1>7 DEF LeaseReadyNode
  <2>2. Done(LeaseNode(Recovered(p), n)) = Done(c)
    BY <1>2, LeasesKeepDone
  <2>3. proc'[p].pc = "executing" /\ proc'[p].copy = disk'
    BY <1>1, <2>1 DEF Program
  <2>4. InLoop(p)
    BY <1>7 DEF LeaseReadyNode
  <2> QED BY <1>6, <2>1, <2>2, <2>3, <2>4 DEF AddsWork, c, InLoop, LifecycleCommands
<1>8. CASE LoopEnds(p)
  <2>1. InLoop(p) /\ disk' = disk /\ Exit(p)
    BY <1>8 DEF LoopEnds, InLoop
  <2> QED BY <1>1, <1>5, <1>6, <2>1 DEF InLoop
<1>9. CASE SupervisorWaits(p)
  <2>1. disk' = [c EXCEPT !.status = "WAITING_FOR_HUMAN"] /\ InLoop(p) /\ Exit(p)
    BY <1>9 DEF SupervisorWaits, SaveAndExit, c
  <2> QED BY <1>1, <1>5, <1>6, <2>1, StopsKeepDone
<1>10. CASE SupervisorPackages(p)
  <2>1. /\ disk' \in {WritePackage(Recovered(p)),
                      [Recovered(p) EXCEPT !.status = "BLOCKED_RESEARCH_NOT_READY"]}
        /\ InLoop(p) /\ Exit(p)
    BY <1>10 DEF SupervisorPackages, SaveAndExit
  <2>2. Done(disk') = Done(c)
    BY <1>2, <2>1, StopsKeepDone
  <2> QED BY <1>5, <1>6, <2>1, <2>2
<1>11. CASE StoreReport(p)
  <2>1. disk' = disk /\ proc'[p].copy = c /\ proc[p].pc = "executing" /\ proc'[p].pc = "stored"
    BY <1>1, <1>11 DEF StoreReport, Program, c
  <2> QED BY <1>1, <1>6, <2>1 DEF AddsWork, c, LifecycleCommands
<1>12. CASE ReportConflict(p)
  <2>1. /\ Executing(p, proc[p].node) /\ c \in Cleared(c, proc[p].node)
        /\ proc[p].pc = "executing"
        /\ SaveOutcome(p, BlockNode(c, proc[p].node, "FAILED"))
    BY <1>12 DEF ReportConflict, Executing, Cleared, c
  <2>2. Done(BlockNode(c, proc[p].node, "FAILED")) = Done(c)
    BY <1>1, <1>3, <2>1, StopsKeepDone DEF StopStatus
  <2> QED BY <1>4, <1>6, <2>1, <2>2
<1>13. CASE FinishNode(p)
  <2>1. PICK n \in Node : Executing(p, n) /\ \E s \in Completions(c, n) : SaveOutcome(p, s)
    BY <1>13 DEF FinishNode, c
  <2>2. c \in Cleared(c, n) /\ proc[p].pc \in {"executing", "stored"}
    BY <2>1 DEF Cleared, Executing
  <2>3. \A s \in Completions(c, n) : Adds(c, s)
    BY <1>1, <1>3, <2>1, <2>2, CompletionsAdd
  <2> QED BY <1>4, <2>1, <2>2, <2>3
<1>14. CASE StopNode(p)
  <2>1. PICK n \in Node, st \in Stops :
          /\ Executing(p, n)
          /\ \E s \in Cleared(c, n) : SaveOutcome(p, BlockNode(s, n, st))
    BY <1>14 DEF StopNode, c
  <2>2. PICK s \in Cleared(c, n) : SaveOutcome(p, BlockNode(s, n, st))
    BY <2>1
  <2>3. Done(BlockNode(s, n, st)) = Done(c)
    BY <1>3, <2>1, StopsKeepDone, StopAssumption DEF StopStatus
  <2> QED BY <1>4, <1>6, <2>1, <2>2, <2>3 DEF Executing
<1>15. CASE ExhaustBudget(p)
  <2>1. PICK n \in Node, recorded \in BOOLEAN :
          Executing(p, n) /\ SaveOutcome(p, BudgetBlock(c, n, recorded))
    BY <1>15 DEF ExhaustBudget, c
  <2>2. c \in Cleared(c, n)
    BY DEF Cleared
  <2>3. Done(BudgetBlock(c, n, recorded)) = Done(c)
    BY <1>1, <1>3, <2>1, <2>2, StopsKeepDone
  <2> QED BY <1>4, <1>6, <2>1, <2>3 DEF Executing
<1>16. CASE HandOff(p)
  <2>1. PICK n \in Node, cause \in Causes :
          /\ Executing(p, n)
          /\ \E s \in Cleared(c, n) : SaveOutcome(p, RequestDecision(s, n, cause))
    BY <1>16 DEF HandOff, c
  <2>2. PICK s \in Cleared(c, n) : SaveOutcome(p, RequestDecision(s, n, cause))
    BY <2>1
  <2>3. Done(RequestDecision(s, n, cause)) = Done(c)
    BY <1>3, <2>1, StopsKeepDone, CauseAssumption
  <2> QED BY <1>4, <1>6, <2>1, <2>2, <2>3 DEF Executing
<1> QED
  BY <1>7, <1>8, <1>9, <1>10, <1>11, <1>12, <1>13, <1>14, <1>15, <1>16 DEF Step

\* A command leaves, and adds work unless it is a repair.
LEMMA OperateAdds ==
  ASSUME ProgressInvariant, NEW p \in Proc, Operate(p)
  PROVE  /\ proc'[p].pc = "idle"
         /\ proc[p].pc \notin RepairCommands =>
              disk' = disk \/ (proc[p].pc # "idle" /\ Adds(proc[p].copy, disk'))
<1> DEFINE c == proc[p].copy
<1>1. c \in RunRecord /\ RecordConsistent(c) /\ proc \in [Proc -> Program]
  BY InvariantByProgram DEF ProgressInvariant, Sound, TypeOK, Program
<1>2. Exit(p) => proc'[p].pc = "idle"
  BY <1>1 DEF Exit, IdleProgram
<1>3. \A s : Done(s) = Done(c) => Adds(c, s)
  BY DEF Adds
<1> HIDE DEF c
<1>4. CASE Answer(p)
  <2>1. PICK d \in c.open :
          /\ BlockedNodes(d) # {} /\ proc[p].pc = "answer"
          /\ disk' = AnswerDecision(c, d) /\ Exit(p)
    BY <1>4 DEF Answer, Run, SaveAndExit, c
  <2>2. Adds(c, disk')
    BY <1>1, <2>1, DecisionsAdd
  <2> QED BY <1>2, <2>1, <2>2 DEF c
<1>5. CASE Submit(p)
  <2>1. PICK d \in c.open :
          proc[p].pc = "decide" /\ disk' = SubmitDecision(c, d) /\ Exit(p)
    BY <1>5 DEF Submit, Run, SaveAndExit, c
  <2>2. Adds(c, disk')
    BY <1>1, <1>3, <2>1, DecisionsAdd
  <2> QED BY <1>2, <2>1, <2>2 DEF c
<1>6. CASE ExtendLimit(p)
  BY <1>1, <1>2, <1>3, <1>6, StopsKeepDone DEF ExtendLimit, Run, SaveAndExit, c
<1>7. CASE RepairEvidenceRelevance(p)
  BY <1>2, <1>7 DEF RepairEvidenceRelevance, Run, SaveAndExit, RepairCommands
<1>8. CASE RepairCompletionCoverage(p)
  BY <1>2, <1>8 DEF RepairCompletionCoverage, Run, SaveAndExit, RepairCommands
<1>9. CASE Package(p)
  BY <1>1, <1>2, <1>3, <1>9, StopsKeepDone DEF Package, Run, SaveAndExit, c
<1>10. CASE CommandFails(p)
  BY <1>2, <1>10 DEF CommandFails
<1> QED BY <1>4, <1>5, <1>6, <1>7, <1>8, <1>9, <1>10 DEF Operate, c

\* What the mapping makes of a step that adds work, and of a repair.
LEMMA MappedSteps ==
  ASSUME disk \in RunRecord, disk' \in RunRecord
  PROVE  /\ Adds(disk, disk') /\ Repairing' = Repairing
              => [Progress!Next]_<<{n \in Node : disk.node[n] = "COMPLETED"}, Repairing>>
         /\ Done(disk') = Done(disk) /\ ~ Repairing /\ Repairing'
              => Progress!BeginRepair
         /\ DependenciesBehindProgress(disk') /\ Repairing /\ ~ Repairing'
              => Progress!EndRepair
<1>1. ASSUME Adds(disk, disk'), Repairing' = Repairing
      PROVE  [Progress!Next]_<<{n \in Node : disk.node[n] = "COMPLETED"}, Repairing>>
  <2>1. CASE Done(disk') = Done(disk)
    BY <1>1, <2>1 DEF Done
  <2>2. ASSUME NEW n \in Node, DependenciesSatisfied(disk, n),
               Done(disk') = Done(disk) \cup {n}
        PROVE  Progress!Complete(n)
    <3>1. Deps[n] \subseteq Done(disk)
      BY <2>2, NodeAssumption DEF Done, DependenciesSatisfied
    <3> QED BY <1>1, <2>2, <3>1 DEF Progress!Complete, Done
  <2> QED BY <1>1, <2>1, <2>2 DEF Adds, Progress!Next
<1>2. ASSUME Done(disk') = Done(disk), ~ Repairing, Repairing'
      PROVE  Progress!BeginRepair
  BY <1>2 DEF Progress!BeginRepair, Done, Repairing
<1>3. ASSUME DependenciesBehindProgress(disk'), Repairing, ~ Repairing'
      PROVE  Progress!EndRepair
  <2>1. Done(disk') \in SUBSET Node /\ Progress!Closed(Done(disk'))
    BY <1>3, NodeAssumption
       DEF Done, Progress!Closed, DependenciesBehindProgress, DependenciesSatisfied
  <2> QED BY <1>3, <2>1 DEF Progress!EndRepair, Done, Repairing
<1> QED BY <1>1, <1>2, <1>3

\* What a step adds, seen from another record with the same progress.
LEMMA AddsFrom ==
  ASSUME NEW s, NEW t, NEW u, Done(s) = Done(t), Adds(s, u)
  PROVE  Adds(t, u)
<1>1. \A n \in Node : DependenciesSatisfied(s, n) => DependenciesSatisfied(t, n)
  BY NodeAssumption DEF Done, DependenciesSatisfied
<1> QED BY <1>1 DEF Adds

\* Every step of one program is a step of DagProgress, or none.
LEMMA ProgressStep ==
  ASSUME OneProgram, NoAtomicWithCoverage, ProgressInvariant, [Next]_vars
  PROVE  /\ ProgressInvariant'
         /\ [Progress!Next]_<<{n \in Node : disk.node[n] = "COMPLETED"}, Repairing>>
<1> DEFINE mapped == <<{n \in Node : disk.node[n] = "COMPLETED"}, Repairing>>
<1>1. PICK p \in Proc : Proc = {p}
  BY DEF OneProgram
<1>2. InductiveInvariant' /\ TypeOK
  BY InvariantStep DEF ProgressInvariant, InductiveInvariant
<1>3. /\ disk \in RunRecord /\ disk' \in RunRecord /\ RecordConsistent(disk)
      /\ DependenciesBehindProgress(disk) /\ DependenciesBehindProgress(disk')
  BY <1>2 DEF ProgressInvariant, InductiveInvariant, TypeOK, RecordConsistent, Records
<1>4. /\ Repairing <=> proc[p].pc \in RepairCommands
      /\ Repairing' <=> proc'[p].pc \in RepairCommands
  BY <1>1 DEF Repairing
<1>5. proc[p].pc # "idle" => Done(proc[p].copy) = Done(disk)
  BY DEF ProgressInvariant
<1>6. ASSUME Done(disk') = Done(disk), Repairing' = Repairing,
             proc'[p].pc # "idle" => Done(proc'[p].copy) = Done(disk')
      PROVE  ProgressInvariant' /\ [Progress!Next]_mapped
  <2>1. Adds(disk, disk')
    BY <1>6 DEF Adds
  <2>2. ProgressInvariant'
    BY <1>1, <1>2, <1>6 DEF ProgressInvariant, Done
  <2> QED BY <1>3, <1>6, <2>1, <2>2, MappedSteps
<1>7. ASSUME proc'[p].pc = "idle", disk' = disk
      PROVE  ProgressInvariant' /\ [Progress!Next]_mapped
  <2>1. ProgressInvariant'
    BY <1>1, <1>2, <1>7 DEF ProgressInvariant
  <2>2. ~ Repairing'
    BY <1>4, <1>7 DEF RepairCommands
  <2>3. Adds(disk, disk')
    BY <1>7 DEF Adds
  <2>4. CASE Repairing
    BY <1>3, <2>1, <2>2, <2>4, MappedSteps DEF Progress!Next
  <2>5. CASE ~ Repairing
    <3>1. Repairing' = Repairing
      BY <2>2, <2>5 DEF Repairing
    <3> QED BY <1>3, <2>1, <2>3, <3>1, MappedSteps
  <2> QED BY <2>4, <2>5
<1>8. CASE UNCHANGED vars
  <2>1. disk' = disk /\ proc' = proc
    BY <1>8 DEF vars
  <2> QED BY <1>5, <1>6, <2>1 DEF Repairing
<1>9. ASSUME NEW kind, NEW pc \in {"start"} \cup Commands, NEW s,
             Done(s) = Done(disk), Start(p, kind, pc, s)
      PROVE  ProgressInvariant' /\ [Progress!Next]_mapped
  <2>1. /\ disk' = disk /\ proc[p].pc = "idle"
        /\ proc'[p].pc = pc /\ proc'[p].copy = s
    BY <1>2, <1>9 DEF Start, TypeOK
  <2>2. ProgressInvariant'
    BY <1>1, <1>2, <1>9, <2>1 DEF ProgressInvariant
  <2>3. ~ Repairing
    BY <1>4, <2>1 DEF RepairCommands
  <2>4. CASE Repairing'
    BY <1>3, <2>1, <2>2, <2>3, <2>4, MappedSteps DEF Progress!Next
  <2>5. CASE ~ Repairing'
    <3>1. Repairing' = Repairing
      BY <2>3, <2>5 DEF Repairing
    <3> QED BY <1>6, <1>9, <2>1, <3>1
  <2> QED BY <2>4, <2>5
<1>10. CASE StartWorker(p)
  BY <1>3, <1>9, <1>10, LeasesKeepDone DEF StartWorker
<1>11. CASE StartSupervisor(p)
  <2>1. /\ InvalidateStaleRouting(disk) \in RunRecord
        /\ Done(InvalidateStaleRouting(disk)) = Done(disk)
    BY <1>3, DecisionTypes, DecisionsAdd
  <2> QED BY <1>9, <1>11, <2>1, LeasesKeepDone DEF StartSupervisor
<1>12. CASE StartCommand(p)
  BY <1>9, <1>12 DEF StartCommand
<1>13. CASE Step(p)
  <2>1. AddsWork(p)
    BY <1>13, StepAdds
  <2>2. Adds(disk, disk')
    BY <1>5, <2>1, AddsFrom DEF AddsWork
  <2>3. ~ Repairing /\ ~ Repairing'
    BY <1>4, <2>1 DEF AddsWork, RepairCommands, LifecycleCommands
  <2>4. Repairing' = Repairing
    BY <2>3 DEF Repairing
  <2>5. ProgressInvariant'
    BY <1>1, <1>2, <2>1 DEF ProgressInvariant, AddsWork
  <2> QED BY <1>3, <2>2, <2>4, <2>5, MappedSteps
<1>14. CASE Operate(p)
  <2>1. /\ proc'[p].pc = "idle"
        /\ proc[p].pc \notin RepairCommands =>
             disk' = disk \/ (proc[p].pc # "idle" /\ Adds(proc[p].copy, disk'))
    BY <1>14, OperateAdds
  <2>2. ProgressInvariant'
    BY <1>1, <1>2, <2>1 DEF ProgressInvariant
  <2>3. ~ Repairing'
    BY <1>4, <2>1 DEF RepairCommands
  <2>4. CASE Repairing
    BY <1>3, <2>2, <2>3, <2>4, MappedSteps DEF Progress!Next
  <2>5. CASE ~ Repairing
    <3>1. Repairing' = Repairing
      BY <2>3, <2>5 DEF Repairing
    <3>2. CASE disk' = disk
      BY <1>7, <2>1, <3>2
    <3>3. CASE proc[p].pc # "idle" /\ Adds(proc[p].copy, disk')
      <4>1. Adds(disk, disk')
        BY <1>5, <3>3, AddsFrom
      <4> QED BY <1>3, <2>2, <3>1, <4>1, MappedSteps
    <3> QED BY <1>4, <2>1, <2>5, <3>2, <3>3
  <2> QED BY <2>4, <2>5
<1>15. CASE Crash(p)
  <2>1. proc'[p].pc = "idle" /\ disk' = disk
    BY <1>2, <1>15 DEF Crash, Exit, IdleProgram, TypeOK
  <2> QED BY <1>7, <2>1
<1>16. CASE Tick
  <2>1. /\ disk' = Elapse(disk)
        /\ proc'[p].pc = proc[p].pc /\ proc'[p].copy = Elapse(proc[p].copy)
        /\ proc[p].copy \in RunRecord
    BY <1>2, <1>16 DEF Tick, TypeOK, Program
  <2>2. Done(disk') = Done(disk) /\ Done(proc'[p].copy) = Done(proc[p].copy)
    BY <1>3, <2>1, LeasesKeepDone
  <2>3. Repairing' = Repairing
    BY <1>1, <2>1 DEF Repairing
  <2> QED BY <1>5, <1>6, <2>1, <2>2, <2>3
<1> QED BY <1>1, <1>8, <1>10, <1>11, <1>12, <1>13, <1>14, <1>15, <1>16 DEF Next

\* A run that one program at a time works on implements DagProgress: its work is
\* accepted in dependency order, one node at a time, and of the commands of
\* LifecycleCommands only the evidence and the coverage repair take some of it
\* back, whatever is answered, extended or killed (src/README.md:16).  The three
\* commands left out take a refinement back too, one of them without its
\* dependents, which no DagProgress step does.
THEOREM RunImplementsDagProgress ==
  ASSUME OneProgram, NoAtomicWithCoverage
  PROVE  Spec => ImplementsDagProgress
<1>1. Init => ProgressInvariant /\ Progress!Init
  <2> SUFFICES ASSUME Init PROVE ProgressInvariant /\ Progress!Init
    OBVIOUS
  <2>1. TypeOK
    BY CreateRunStateType, IdleType DEF Init, TypeOK
  <2>2. InductiveInvariant
    BY <2>1, CreateRunStateSound, InvariantByProgram
       DEF Init, IdleProgram, ExecutionHeld, LifecycleCommands
  <2>3. \A p \in Proc : proc[p].pc = "idle"
    BY DEF Init, IdleProgram
  <2>4. Progress!Init
    BY <2>3 DEF Progress!Init, Init, CreateRunState, Repairing, RepairCommands
  <2> QED BY <2>2, <2>3, <2>4 DEF ProgressInvariant
<1>2. ProgressInvariant /\ [Next]_vars =>
        /\ ProgressInvariant'
        /\ [Progress!Next]_<<{n \in Node : disk.node[n] = "COMPLETED"}, Repairing>>
  BY ProgressStep
<1> QED BY <1>1, <1>2, PTL DEF Spec, ImplementsDagProgress, Progress!Spec
=============================================================================
