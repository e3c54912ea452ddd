---------------------------- MODULE MCResearch_proofs ----------------------------
(***************************************************************************)
(* The components of the research runtime side by side, for every value of *)
(* their constants.  Whatever part moves, each component goes through a    *)
(* behaviour of its own, so that what is proved of each holds of all.      *)
(***************************************************************************)
EXTENDS MCResearch, Services_proofs, Research_proofs

-----------------------------------------------------------------------------
\* What a step is to each of the components.
LEMMA OnePartMoves ==
  ASSUME [Next]_vars
  PROVE  /\ part' = part
         /\ [StoreNext]_storeVars /\ [GatewayNext]_gatewayVars /\ [LedgerNext]_ledgerVars
         /\ [ContinuationNext]_continuationVars /\ [ChainNext]_chainVars /\ [PaperNext]_paperVars
         /\ [ProfileNext]_profileVars /\ [RepairNext]_repairVars
         /\ part = "restored" => [Restored!RepairNext]_restoredVars
<1>1. CASE OthersRest("store") /\ StoreNext
  BY <1>1 DEF OthersRest
<1>2. CASE OthersRest("gateway") /\ GatewayNext
  BY <1>2 DEF OthersRest
<1>3. CASE OthersRest("ledger") /\ LedgerNext
  BY <1>3 DEF OthersRest
<1>4. CASE OthersRest("continuation") /\ ContinuationNext
  BY <1>4 DEF OthersRest
<1>5. CASE OthersRest("chain") /\ ChainNext
  BY <1>5 DEF OthersRest
<1>6. CASE OthersRest("paper") /\ PaperNext
  BY <1>6 DEF OthersRest
<1>7. CASE OthersRest("profile") /\ ProfileNext
  BY <1>7 DEF OthersRest
<1>8. CASE OthersRest("repair") /\ RepairNext
  BY <1>8 DEF OthersRest
<1>9. CASE OthersRest("restored") /\ Restored!RepairNext
  BY <1>9 DEF OthersRest
<1>10. CASE UNCHANGED vars
  BY <1>10 DEF vars
<1> QED
  BY <1>1, <1>2, <1>3, <1>4, <1>5, <1>6, <1>7, <1>8, <1>9, <1>10, Zenon DEF Next

\* A behaviour of the whole is one of each component; of the gateway and of the paper
\* pipeline without the fairness of their own specifications.
LEMMA EachComponentRuns ==
  /\ Spec => StoreSpec /\ LedgerSpec /\ ContinuationSpec /\ ChainSpec /\ ProfileSpec /\ RepairSpec
  /\ Spec => GatewayInit /\ [][GatewayNext]_gatewayVars
  /\ Spec => PaperInit /\ [][PaperNext]_paperVars
<1>1. Init => /\ StoreInit /\ LedgerInit /\ ContinuationInit /\ ChainInit /\ ProfileInit /\ RepairInit
              /\ GatewayInit /\ PaperInit
  BY DEF Init
<1>2. [Next]_vars => /\ [StoreNext]_storeVars /\ [LedgerNext]_ledgerVars
                     /\ [ContinuationNext]_continuationVars /\ [ChainNext]_chainVars
                     /\ [ProfileNext]_profileVars /\ [RepairNext]_repairVars
                     /\ [GatewayNext]_gatewayVars /\ [PaperNext]_paperVars
  BY OnePartMoves
<1> QED
  BY <1>1, <1>2, PTL
     DEF Spec, StoreSpec, LedgerSpec, ContinuationSpec, ChainSpec, ProfileSpec, RepairSpec

LEMMA GatewayRuns == Spec => [](GatewayInv /\ BlockInv)
BY EachComponentRuns, GatewayInvInit, GatewayNextKeeps, BlockInvInit, BlockInvStep, PTL

LEMMA PapersRun == Spec => []PaperInv
BY EachComponentRuns, PaperInvInit, PaperInvNext, PTL

\* Whatever the components are given and whichever of them moves, the state of each
\* keeps its types: a record never lacks a field that a later call reads.
THEOREM ComponentsTypeCorrect == Spec => []ComponentsTypeOK
<1>1. GatewayInv /\ PaperInv => GatewayTypeOK /\ PaperTypeOK
  BY DEF GatewayInv, PaperInv
<1> QED
  BY EachComponentRuns, GatewayRuns, PapersRun, <1>1, StoreTypeCorrect, LedgerTypeCorrect,
     ContinuationTypeCorrect, ChainTypeCorrect, ProfileTypeCorrect, RepairTypeCorrect, PTL
     DEF ComponentsTypeOK

\* What the components promise, side by side: a run is not charged beyond its limits
\* and the overshoot of one call, the answers of humans can be taken up, the evidence
\* is of one execution and a package earned by it, and the questions of the planning
\* reach its nodes through any repair.
THEOREM ResearchStaysSound ==
  Spec => [](/\ SpendIsBounded /\ BlockedNodeIsOutOfBudget
             /\ AnswersAreRecoverable /\ StoredIsOneExecution /\ PackageIsEarned
             /\ QuestionsAreAsked /\ RepairConverges)
<1>1. GatewayInv /\ BlockInv => SpendIsBounded /\ BlockedNodeIsOutOfBudget
  BY DEF GatewayInv, CallIsBounded, SpendIsBounded, BlockInv
<1> QED
  BY EachComponentRuns, GatewayRuns, <1>1, AnswersCanBeTakenUp, StoredIsAlwaysOneExecution,
     PackagesAreEarned, QuestionsStayAsked, RepairsConverge, PTL

\* And what they promise to callers that write one at a time and stop at a refusal:
\* what the manifest says is stored and stays, the ledger's claims are valid, no paper
\* writer changes what they say, and a paper stands on them.
THEOREM WritersStaySound ==
  ASSUME NEW w \in Writers, OneWriter(w), StopsOnError, \A p, q \in Procs : p = q
  PROVE  Spec => /\ [](RecordedIsStored /\ LedgerIsSound /\ PaperIsSound)
                 /\ ImmutableIsKept /\ EntriesAreKept /\ PaperWriterChangesNoStatus
BY EachComponentRuns, PapersRun, PaperCompleteInit, PaperCompleteNext, PaperSoundness,
   RecordedIsAlwaysStored, ImmutableIsAlwaysKept, EntriesAreAlwaysKept, LedgerSound,
   PaperWriterHasNoSay, PTL

\* An answer that was applied stays applied and a measurement that was made is kept,
\* whichever component moves.
THEOREM ResultsStay == Spec => AnswersAreFinal /\ ProfileIsMeasured
BY EachComponentRuns, AnswersStayFinal, ProfilesAreMeasured, PTL

-----------------------------------------------------------------------------
(* The repairs with the command that restores nodes: what Research_proofs  *)
(* says of any commands, with those of this instance.                      *)

RestoredProofs == INSTANCE Research_proofs
  WITH MaxOpen <- 1, Commands <- Commands \cup {"repair-research-completion-coverage"},
       MaxUpgrades <- 0, run <- restored, planning <- restoring

\* The definitions of the two instances say the same.
LEMMA SameNodes ==
  /\ Restored!CreateRunState = RestoredProofs!CreateRunState
  /\ Restored!QuestionDiscovery = RestoredProofs!QuestionDiscovery
  /\ Restored!QuestionRefinement = RestoredProofs!QuestionRefinement
  /\ Restored!Feasibility = RestoredProofs!Feasibility
  /\ Restored!PlanningCauses = RestoredProofs!PlanningCauses
  /\ Restored!EvidenceDiscovery = RestoredProofs!EvidenceDiscovery
  /\ Restored!SkillDiscovery = RestoredProofs!SkillDiscovery
  /\ Restored!ClaimAdjudication = RestoredProofs!ClaimAdjudication
  /\ Restored!ResearchReadiness = RestoredProofs!ResearchReadiness
  /\ Restored!Downstream = RestoredProofs!Downstream
  /\ Restored!ModelNodes = RestoredProofs!ModelNodes
  /\ Restored!PlanningResults = RestoredProofs!PlanningResults
  /\ Restored!Dependents = RestoredProofs!Dependents
  /\ Restored!Upstream = RestoredProofs!Upstream
<1>1. Restored!CreateRunState = RestoredProofs!CreateRunState
  BY DEF Restored!CreateRunState, RestoredProofs!CreateRunState
<1>2. Restored!QuestionDiscovery = RestoredProofs!QuestionDiscovery
  BY DEF Restored!QuestionDiscovery, RestoredProofs!QuestionDiscovery
<1>3. Restored!QuestionRefinement = RestoredProofs!QuestionRefinement
  BY DEF Restored!QuestionRefinement, RestoredProofs!QuestionRefinement
<1>4. Restored!Feasibility = RestoredProofs!Feasibility
  BY DEF Restored!Feasibility, RestoredProofs!Feasibility
<1>5. Restored!PlanningCauses = RestoredProofs!PlanningCauses
  BY DEF Restored!PlanningCauses, RestoredProofs!PlanningCauses, Restored!QuestionDiscovery,
     RestoredProofs!QuestionDiscovery, Restored!QuestionRefinement,
     RestoredProofs!QuestionRefinement, Restored!Feasibility, RestoredProofs!Feasibility
<1>6. Restored!EvidenceDiscovery = RestoredProofs!EvidenceDiscovery
  BY DEF Restored!EvidenceDiscovery, RestoredProofs!EvidenceDiscovery
<1>7. Restored!SkillDiscovery = RestoredProofs!SkillDiscovery
  BY DEF Restored!SkillDiscovery, RestoredProofs!SkillDiscovery
<1>8. Restored!ClaimAdjudication = RestoredProofs!ClaimAdjudication
  BY DEF Restored!ClaimAdjudication, RestoredProofs!ClaimAdjudication
<1>9. Restored!ResearchReadiness = RestoredProofs!ResearchReadiness
  BY DEF Restored!ResearchReadiness, RestoredProofs!ResearchReadiness
<1>10. Restored!Downstream = RestoredProofs!Downstream
  BY DEF Restored!Downstream, RestoredProofs!Downstream, Restored!SkillDiscovery,
     RestoredProofs!SkillDiscovery, Restored!ClaimAdjudication, RestoredProofs!ClaimAdjudication,
     Restored!ResearchReadiness, RestoredProofs!ResearchReadiness
<1>11. Restored!ModelNodes = RestoredProofs!ModelNodes
  BY DEF Restored!ModelNodes, RestoredProofs!ModelNodes, Restored!QuestionDiscovery,
     RestoredProofs!QuestionDiscovery, Restored!QuestionRefinement,
     RestoredProofs!QuestionRefinement
<1>12. Restored!PlanningResults = RestoredProofs!PlanningResults
  BY DEF Restored!PlanningResults, RestoredProofs!PlanningResults
<1>13. Restored!Dependents = RestoredProofs!Dependents
  BY DEF Restored!Dependents, RestoredProofs!Dependents
<1>14. Restored!Upstream = RestoredProofs!Upstream
  BY DEF Restored!Upstream, RestoredProofs!Upstream, Restored!QuestionDiscovery,
     RestoredProofs!QuestionDiscovery, Restored!EvidenceDiscovery, RestoredProofs!EvidenceDiscovery,
     Restored!QuestionRefinement, RestoredProofs!QuestionRefinement
<1> QED
  BY <1>1, <1>2, <1>3, <1>4, <1>5, <1>6, <1>7, <1>8, <1>9, <1>10, <1>11, <1>12, <1>13, <1>14

LEMMA SameRecords ==
  /\ \A s, n : Restored!DependenciesSatisfied(s, n) <=> RestoredProofs!DependenciesSatisfied(s, n)
  /\ \A s : Restored!ReadyNodes(s) = RestoredProofs!ReadyNodes(s)
  /\ \A s, n, status : Restored!SetNode(s, n, status) = RestoredProofs!SetNode(s, n, status)
  /\ \A s : Restored!AllCompleted(s) <=> RestoredProofs!AllCompleted(s)
  /\ \A s, n : Restored!CompleteNode(s, n) = RestoredProofs!CompleteNode(s, n)
  /\ \A s : Restored!FreeIds(s) = RestoredProofs!FreeIds(s)
  /\ \A s, n, status : Restored!BlockNode(s, n, status) = RestoredProofs!BlockNode(s, n, status)
  /\ \A s, n, cause : Restored!RequestDecision(s, n, cause) = RestoredProofs!RequestDecision(s, n, cause)
  /\ \A s : Restored!PlannedUnlessOpen(s) = RestoredProofs!PlannedUnlessOpen(s)
  /\ \A s, d : Restored!Resolve(s, d) = RestoredProofs!Resolve(s, d)
  /\ \A s, n : Restored!ApplyHumanResponse(s, n) = RestoredProofs!ApplyHumanResponse(s, n)
  /\ \A s, d : Restored!AnswerDecision(s, d) = RestoredProofs!AnswerDecision(s, d)
  /\ \A s, N, status : Restored!SetNodes(s, N, status) = RestoredProofs!SetNodes(s, N, status)
  /\ \A d : Restored!BlockedNodes(d) = RestoredProofs!BlockedNodes(d)
  /\ \A s, d : Restored!SubmitDecision(s, d) = RestoredProofs!SubmitDecision(s, d)
  /\ \A s, withQuestion :
       Restored!EvidenceRepairable(s, withQuestion) <=>
         RestoredProofs!EvidenceRepairable(s, withQuestion)
  /\ \A withQuestion : Restored!EarliestNodes(withQuestion) = RestoredProofs!EarliestNodes(withQuestion)
  /\ \A s, withQuestion :
       Restored!RepairEvidence(s, withQuestion) = RestoredProofs!RepairEvidence(s, withQuestion)
  /\ \A s : Restored!CoverageSufficient(s) <=> RestoredProofs!CoverageSufficient(s)
  /\ \A s : Restored!RepairCoverage(s) = RestoredProofs!RepairCoverage(s)
  /\ \A s : Restored!StaleRoutingDecisions(s) = RestoredProofs!StaleRoutingDecisions(s)
  /\ \A s : Restored!InvalidateStaleRouting(s) = RestoredProofs!InvalidateStaleRouting(s)
<1>1. \A s, n : Restored!DependenciesSatisfied(s, n) <=> RestoredProofs!DependenciesSatisfied(s, n)
  BY DEF Restored!DependenciesSatisfied, RestoredProofs!DependenciesSatisfied
<1>2. \A s : Restored!ReadyNodes(s) = RestoredProofs!ReadyNodes(s)
  BY <1>1 DEF Restored!ReadyNodes, RestoredProofs!ReadyNodes
<1>3. \A s, n, status : Restored!SetNode(s, n, status) = RestoredProofs!SetNode(s, n, status)
  BY DEF Restored!SetNode, RestoredProofs!SetNode
<1>4. \A s : Restored!AllCompleted(s) <=> RestoredProofs!AllCompleted(s)
  BY DEF Restored!AllCompleted, RestoredProofs!AllCompleted
<1>5. \A s, n : Restored!CompleteNode(s, n) = RestoredProofs!CompleteNode(s, n)
  BY <1>3, <1>4 DEF Restored!CompleteNode, RestoredProofs!CompleteNode
<1>6. \A s : Restored!FreeIds(s) = RestoredProofs!FreeIds(s)
  BY DEF Restored!FreeIds, RestoredProofs!FreeIds
<1>7. \A s, n, status : Restored!BlockNode(s, n, status) = RestoredProofs!BlockNode(s, n, status)
  BY <1>3 DEF Restored!BlockNode, RestoredProofs!BlockNode
<1>8. \A s, n, cause :
        Restored!RequestDecision(s, n, cause) = RestoredProofs!RequestDecision(s, n, cause)
  BY <1>6, <1>7 DEF Restored!RequestDecision, RestoredProofs!RequestDecision
<1>9. \A s : Restored!PlannedUnlessOpen(s) = RestoredProofs!PlannedUnlessOpen(s)
  BY DEF Restored!PlannedUnlessOpen, RestoredProofs!PlannedUnlessOpen
<1>10. \A s, d : Restored!Resolve(s, d) = RestoredProofs!Resolve(s, d)
  BY <1>9 DEF Restored!Resolve, RestoredProofs!Resolve
<1>11. \A s, n : Restored!ApplyHumanResponse(s, n) = RestoredProofs!ApplyHumanResponse(s, n)
  BY <1>5, SameNodes DEF Restored!ApplyHumanResponse, RestoredProofs!ApplyHumanResponse
<1>12. \A s, d : Restored!AnswerDecision(s, d) = RestoredProofs!AnswerDecision(s, d)
  BY <1>3, <1>10, <1>11 DEF Restored!AnswerDecision, RestoredProofs!AnswerDecision
<1>13. \A s, N, status : Restored!SetNodes(s, N, status) = RestoredProofs!SetNodes(s, N, status)
  BY DEF Restored!SetNodes, RestoredProofs!SetNodes
<1>14. \A d : Restored!BlockedNodes(d) = RestoredProofs!BlockedNodes(d)
  BY DEF Restored!BlockedNodes, RestoredProofs!BlockedNodes
<1>15. \A s, d : Restored!SubmitDecision(s, d) = RestoredProofs!SubmitDecision(s, d)
  BY <1>10, <1>13, <1>14 DEF Restored!SubmitDecision, RestoredProofs!SubmitDecision
<1>16. \A s, withQuestion :
        Restored!EvidenceRepairable(s, withQuestion) <=>
          RestoredProofs!EvidenceRepairable(s, withQuestion)
  BY <1>14, SameNodes DEF Restored!EvidenceRepairable, RestoredProofs!EvidenceRepairable
<1>17. \A withQuestion :
        Restored!EarliestNodes(withQuestion) = RestoredProofs!EarliestNodes(withQuestion)
  BY SameNodes DEF Restored!EarliestNodes, RestoredProofs!EarliestNodes
<1>18. \A s, withQuestion :
        Restored!RepairEvidence(s, withQuestion) = RestoredProofs!RepairEvidence(s, withQuestion)
  BY <1>9, <1>13, <1>14, <1>17, SameNodes DEF Restored!RepairEvidence, RestoredProofs!RepairEvidence
<1>19. \A s : Restored!CoverageSufficient(s) <=> RestoredProofs!CoverageSufficient(s)
  BY DEF Restored!CoverageSufficient, RestoredProofs!CoverageSufficient
<1>20. \A s : Restored!RepairCoverage(s) = RestoredProofs!RepairCoverage(s)
  BY <1>13, <1>19, SameNodes DEF Restored!RepairCoverage, RestoredProofs!RepairCoverage
<1>21. \A s : Restored!StaleRoutingDecisions(s) = RestoredProofs!StaleRoutingDecisions(s)
  BY DEF Restored!StaleRoutingDecisions, RestoredProofs!StaleRoutingDecisions
<1>22. \A s : Restored!InvalidateStaleRouting(s) = RestoredProofs!InvalidateStaleRouting(s)
  BY <1>9, <1>13, <1>21 DEF Restored!InvalidateStaleRouting, RestoredProofs!InvalidateStaleRouting
<1> QED
  BY <1>1, <1>2, <1>3, <1>4, <1>5, <1>6, <1>7, <1>8, <1>9, <1>10, <1>11, <1>12, <1>13, <1>14, <1>15,
     <1>16, <1>17, <1>18, <1>19, <1>20, <1>21, <1>22

LEMMA SamePasses ==
  /\ \A w, n : Restored!MarkDependents(w, n) = RestoredProofs!MarkDependents(w, n)
  /\ \A w, n : Restored!Reset(w, n) = RestoredProofs!Reset(w, n)
  /\ \A p : Restored!WithoutCandidate(p) = RestoredProofs!WithoutCandidate(p)
  /\ \A w : Restored!RetireCandidate(w) = RestoredProofs!RetireCandidate(w)
  /\ \A w, n : Restored!ClearOutputs(w, n) = RestoredProofs!ClearOutputs(w, n)
  /\ \A w, recovery : Restored!RetireSkeleton(w, recovery) = RestoredProofs!RetireSkeleton(w, recovery)
  /\ \A w, n, causes : Restored!Asked(w, n, causes) = RestoredProofs!Asked(w, n, causes)
  /\ \A w, D : Restored!Invalidate(w, D) = RestoredProofs!Invalidate(w, D)
  /\ \A w, n, causes :
       Restored!RetryWithDependents(w, n, causes) = RestoredProofs!RetryWithDependents(w, n, causes)
  /\ \A w : Restored!DiscoveryDecisions(w) = RestoredProofs!DiscoveryDecisions(w)
  /\ \A w, n, causes : Restored!Retry(w, n, causes) = RestoredProofs!Retry(w, n, causes)
  /\ \A w : Restored!RefinementDecisions(w) = RestoredProofs!RefinementDecisions(w)
  /\ \A w, preserved :
       Restored!FeasibilityDecisions(w, preserved) = RestoredProofs!FeasibilityDecisions(w, preserved)
  /\ \A w : Restored!RetireRoutes(w) = RestoredProofs!RetireRoutes(w)
  /\ \A w : Restored!UnsuitableCandidate(w) = RestoredProofs!UnsuitableCandidate(w)
  /\ \A w : Restored!SemanticDecisions(w) = RestoredProofs!SemanticDecisions(w)
  /\ \A w : Restored!Replan(w) = RestoredProofs!Replan(w)
  /\ \A w : Restored!RevalidateSelection(w) = RestoredProofs!RevalidateSelection(w)
  /\ \A w : Restored!MalformedOutputs(w) = RestoredProofs!MalformedOutputs(w)
  /\ \A w : Restored!DecodingDecisions(w) = RestoredProofs!DecodingDecisions(w)
  /\ \A r, p, recovery, preserved :
       Restored!RepairStructuredGeneration(r, p, recovery, preserved) =
         RestoredProofs!RepairStructuredGeneration(r, p, recovery, preserved)
<1>1. \A w, n : Restored!MarkDependents(w, n) = RestoredProofs!MarkDependents(w, n)
  BY DEF Restored!MarkDependents, RestoredProofs!MarkDependents, Restored!Dependents,
     RestoredProofs!Dependents, Restored!SetNodes, RestoredProofs!SetNodes, Restored!BlockedNodes,
     RestoredProofs!BlockedNodes, Restored!PlannedUnlessOpen, RestoredProofs!PlannedUnlessOpen
<1>2. \A w, n : Restored!Reset(w, n) = RestoredProofs!Reset(w, n)
  BY SameRecords DEF Restored!Reset, RestoredProofs!Reset
<1>3. \A p : Restored!WithoutCandidate(p) = RestoredProofs!WithoutCandidate(p)
  BY DEF Restored!WithoutCandidate, RestoredProofs!WithoutCandidate
<1>4. \A w : Restored!RetireCandidate(w) = RestoredProofs!RetireCandidate(w)
  BY <1>1, <1>2, <1>3, SameNodes DEF Restored!RetireCandidate, RestoredProofs!RetireCandidate
<1>5. \A w, n : Restored!ClearOutputs(w, n) = RestoredProofs!ClearOutputs(w, n)
  BY SameNodes DEF Restored!ClearOutputs, RestoredProofs!ClearOutputs
<1>6. \A w, recovery : Restored!RetireSkeleton(w, recovery) = RestoredProofs!RetireSkeleton(w, recovery)
  BY <1>1, <1>2, <1>5, SameNodes DEF Restored!RetireSkeleton, RestoredProofs!RetireSkeleton
<1>7. \A w, n, causes : Restored!Asked(w, n, causes) = RestoredProofs!Asked(w, n, causes)
  BY DEF Restored!Asked, RestoredProofs!Asked
<1>8. \A w, D : Restored!Invalidate(w, D) = RestoredProofs!Invalidate(w, D)
  BY DEF Restored!Invalidate, RestoredProofs!Invalidate
<1>9. \A w, n, causes :
        Restored!RetryWithDependents(w, n, causes) = RestoredProofs!RetryWithDependents(w, n, causes)
  BY <1>1, <1>2, <1>7, <1>8 DEF Restored!RetryWithDependents, RestoredProofs!RetryWithDependents
<1>10. \A w : Restored!DiscoveryDecisions(w) = RestoredProofs!DiscoveryDecisions(w)
  BY <1>9, SameNodes DEF Restored!DiscoveryDecisions, RestoredProofs!DiscoveryDecisions
<1>11. \A w, n, causes : Restored!Retry(w, n, causes) = RestoredProofs!Retry(w, n, causes)
  BY <1>2, <1>7, <1>8 DEF Restored!Retry, RestoredProofs!Retry
<1>12. \A w : Restored!RefinementDecisions(w) = RestoredProofs!RefinementDecisions(w)
  BY <1>7, <1>9, <1>11, SameNodes DEF Restored!RefinementDecisions,
     RestoredProofs!RefinementDecisions
<1>13. \A w, preserved :
        Restored!FeasibilityDecisions(w, preserved) = RestoredProofs!FeasibilityDecisions(w, preserved)
  BY <1>9, <1>11, SameNodes DEF Restored!FeasibilityDecisions, RestoredProofs!FeasibilityDecisions
<1>14. \A w : Restored!RetireRoutes(w) = RestoredProofs!RetireRoutes(w)
  BY <1>1, <1>2, SameNodes DEF Restored!RetireRoutes, RestoredProofs!RetireRoutes
<1>15. \A w : Restored!UnsuitableCandidate(w) = RestoredProofs!UnsuitableCandidate(w)
  BY <1>2, <1>3, <1>5, <1>7, <1>8, SameNodes DEF Restored!UnsuitableCandidate,
     RestoredProofs!UnsuitableCandidate
<1>16. \A w : Restored!SemanticDecisions(w) = RestoredProofs!SemanticDecisions(w)
  BY <1>5, <1>7, <1>11, SameNodes DEF Restored!SemanticDecisions, RestoredProofs!SemanticDecisions
<1>17. \A w : Restored!Replan(w) = RestoredProofs!Replan(w)
  BY DEF Restored!Replan, RestoredProofs!Replan
<1>18. \A w : Restored!RevalidateSelection(w) = RestoredProofs!RevalidateSelection(w)
  BY <1>1, <1>2, <1>5, SameNodes DEF Restored!RevalidateSelection,
     RestoredProofs!RevalidateSelection
<1>19. \A w : Restored!MalformedOutputs(w) = RestoredProofs!MalformedOutputs(w)
  BY SameRecords DEF Restored!MalformedOutputs, RestoredProofs!MalformedOutputs
<1>20. \A w : Restored!DecodingDecisions(w) = RestoredProofs!DecodingDecisions(w)
  BY <1>8, SameRecords DEF Restored!DecodingDecisions, RestoredProofs!DecodingDecisions
<1>21. \A r, p, recovery, preserved :
        Restored!RepairStructuredGeneration(r, p, recovery, preserved) =
          RestoredProofs!RepairStructuredGeneration(r, p, recovery, preserved)
  BY <1>4, <1>6, <1>10, <1>12, <1>13, <1>14, <1>15, <1>16, <1>17, <1>18, <1>19, <1>20 DEF
     Restored!RepairStructuredGeneration, RestoredProofs!RepairStructuredGeneration
<1> QED
  BY <1>1, <1>2, <1>3, <1>4, <1>5, <1>6, <1>7, <1>8, <1>9, <1>10, <1>11, <1>12, <1>13, <1>14, <1>15,
     <1>16, <1>17, <1>18, <1>19, <1>20, <1>21

LEMMA SameHandlers ==
  /\ Restored!RepairInit <=> RestoredProofs!RepairInit
  /\ \A n : Restored!Ready(n) <=> RestoredProofs!Ready(n)
  /\ \A n, cause, p : Restored!HandsOver(n, cause, p) <=> RestoredProofs!HandsOver(n, cause, p)
  /\ Restored!Discover <=> RestoredProofs!Discover
  /\ Restored!Collect <=> RestoredProofs!Collect
  /\ \A p, skeleton : Restored!Refined(p, skeleton) <=> RestoredProofs!Refined(p, skeleton)
  /\ \A n, cause, p :
       Restored!HandsOverExhausted(n, cause, p) <=> RestoredProofs!HandsOverExhausted(n, cause, p)
  /\ Restored!Refine <=> RestoredProofs!Refine
  /\ Restored!RefineNothing <=> RestoredProofs!RefineNothing
  /\ Restored!Recover <=> RestoredProofs!Recover
  /\ Restored!Regenerate <=> RestoredProofs!Regenerate
  /\ Restored!RegenerateNoMore <=> RestoredProofs!RegenerateNoMore
  /\ Restored!Analyze <=> RestoredProofs!Analyze
  /\ Restored!Downstreams <=> RestoredProofs!Downstreams
  /\ \A n : Restored!Fails(n) <=> RestoredProofs!Fails(n)
  /\ Restored!AnswerNode <=> RestoredProofs!AnswerNode
  /\ Restored!SubmitOption <=> RestoredProofs!SubmitOption
  /\ Restored!Upgrade <=> RestoredProofs!Upgrade
  /\ Restored!RepairEvidenceRelevance <=> RestoredProofs!RepairEvidenceRelevance
  /\ Restored!RepairCompletionCoverage <=> RestoredProofs!RepairCompletionCoverage
  /\ \A w : Restored!Recovered(w) <=> RestoredProofs!Recovered(w)
  /\ Restored!RepairStructured <=> RestoredProofs!RepairStructured
  /\ Restored!RepairRouting <=> RestoredProofs!RepairRouting
  /\ Restored!RepairNext <=> RestoredProofs!RepairNext
  /\ Restored!WaitingNodeIsAsked <=> RestoredProofs!WaitingNodeIsAsked
  /\ Restored!RepairConverges <=> RestoredProofs!RepairConverges
<1>1. Restored!RepairInit <=> RestoredProofs!RepairInit
  BY SameNodes DEF Restored!RepairInit, RestoredProofs!RepairInit
<1>2. \A n : Restored!Ready(n) <=> RestoredProofs!Ready(n)
  BY SameRecords DEF Restored!Ready, RestoredProofs!Ready
<1>3. \A n, cause, p : Restored!HandsOver(n, cause, p) <=> RestoredProofs!HandsOver(n, cause, p)
  BY SameRecords DEF Restored!HandsOver, RestoredProofs!HandsOver
<1>4. Restored!Discover <=> RestoredProofs!Discover
  BY <1>2, <1>3, SameNodes, SameRecords DEF Restored!Discover, RestoredProofs!Discover
<1>5. Restored!Collect <=> RestoredProofs!Collect
  BY <1>2, <1>3, SameNodes, SameRecords DEF Restored!Collect, RestoredProofs!Collect
<1>6. \A p, skeleton : Restored!Refined(p, skeleton) <=> RestoredProofs!Refined(p, skeleton)
  BY SameNodes, SameRecords DEF Restored!Refined, RestoredProofs!Refined
<1>7. \A n, cause, p :
        Restored!HandsOverExhausted(n, cause, p) <=> RestoredProofs!HandsOverExhausted(n, cause, p)
  BY SameNodes, SameRecords DEF Restored!HandsOverExhausted, RestoredProofs!HandsOverExhausted
<1>8. Restored!Refine <=> RestoredProofs!Refine
  BY <1>2, <1>3, <1>6, <1>7, SameNodes DEF Restored!Refine, RestoredProofs!Refine
<1>9. Restored!RefineNothing <=> RestoredProofs!RefineNothing
  BY <1>2, SameNodes, SameRecords DEF Restored!RefineNothing, RestoredProofs!RefineNothing
<1>10. Restored!Recover <=> RestoredProofs!Recover
  BY <1>2, <1>6, <1>7, SameNodes DEF Restored!Recover, RestoredProofs!Recover
<1>11. Restored!Regenerate <=> RestoredProofs!Regenerate
  BY <1>2, <1>3, <1>6, SameNodes DEF Restored!Regenerate, RestoredProofs!Regenerate
<1>12. Restored!RegenerateNoMore <=> RestoredProofs!RegenerateNoMore
  BY <1>2, <1>3, SameNodes DEF Restored!RegenerateNoMore, RestoredProofs!RegenerateNoMore
<1>13. Restored!Analyze <=> RestoredProofs!Analyze
  BY <1>2, <1>3, SameNodes, SameRecords DEF Restored!Analyze, RestoredProofs!Analyze
<1>14. Restored!Downstreams <=> RestoredProofs!Downstreams
  BY <1>2, SameNodes, SameRecords DEF Restored!Downstreams, RestoredProofs!Downstreams
<1>15. \A n : Restored!Fails(n) <=> RestoredProofs!Fails(n)
  BY <1>2, SameNodes, SameRecords DEF Restored!Fails, RestoredProofs!Fails
<1>16. Restored!AnswerNode <=> RestoredProofs!AnswerNode
  BY SameNodes, SameRecords DEF Restored!AnswerNode, RestoredProofs!AnswerNode
<1>17. Restored!SubmitOption <=> RestoredProofs!SubmitOption
  BY SameRecords DEF Restored!SubmitOption, RestoredProofs!SubmitOption
<1>18. Restored!Upgrade <=> RestoredProofs!Upgrade
  BY SameNodes DEF Restored!Upgrade, RestoredProofs!Upgrade
<1>19. Restored!RepairEvidenceRelevance <=> RestoredProofs!RepairEvidenceRelevance
  BY SameRecords DEF Restored!RepairEvidenceRelevance, RestoredProofs!RepairEvidenceRelevance
<1>20. Restored!RepairCompletionCoverage <=> RestoredProofs!RepairCompletionCoverage
  BY SameRecords DEF Restored!RepairCompletionCoverage, RestoredProofs!RepairCompletionCoverage
<1>21. \A w : Restored!Recovered(w) <=> RestoredProofs!Recovered(w)
  BY DEF Restored!Recovered, RestoredProofs!Recovered
<1>22. Restored!RepairStructured <=> RestoredProofs!RepairStructured
  BY <1>21, SamePasses DEF Restored!RepairStructured, RestoredProofs!RepairStructured
<1>23. Restored!RepairRouting <=> RestoredProofs!RepairRouting
  BY <1>21, SamePasses, SameRecords DEF Restored!RepairRouting, RestoredProofs!RepairRouting
<1>24. Restored!RepairNext <=> RestoredProofs!RepairNext
  BY <1>4, <1>5, <1>8, <1>9, <1>10, <1>11, <1>12, <1>13, <1>14, <1>15, <1>16, <1>17, <1>18, <1>19,
     <1>20, <1>22, <1>23 DEF Restored!RepairNext, RestoredProofs!RepairNext
<1>25. Restored!WaitingNodeIsAsked <=> RestoredProofs!WaitingNodeIsAsked
  BY DEF Restored!WaitingNodeIsAsked, RestoredProofs!WaitingNodeIsAsked
<1>26. Restored!RepairConverges <=> RestoredProofs!RepairConverges
  BY SamePasses DEF Restored!RepairConverges, RestoredProofs!RepairConverges
<1> QED
  BY <1>1, <1>2, <1>3, <1>4, <1>5, <1>6, <1>7, <1>8, <1>9, <1>10, <1>11, <1>12, <1>13, <1>14, <1>15,
     <1>16, <1>17, <1>18, <1>19, <1>20, <1>21, <1>22, <1>23, <1>24, <1>25, <1>26

\* The assumptions of Research_proofs hold of its parameters.
RestoredAssumptions ==
  /\ /\ Resolvers \cap {"lit", "exe"} = {}
     /\ MaxExecutions \in Nat /\ MaxChainRepairs \in Nat /\ MaxCrashes \in Nat
  /\ /\ MaxVersion \in Nat /\ MaxContent \in Nat /\ MaxNodes \in Nat
     /\ First \in 0..MaxVersion
     /\ Versioned \subseteq 0..MaxVersion
     /\ Crashes \in BOOLEAN
  /\ /\ ModelConfigs \subseteq Nat /\ Removable \subseteq ModelConfigs
     /\ Trials \in Nat \ {0} /\ MaxConfigs \in Nat
  /\ MaxDecisions \in Nat \ {0} /\ MaxLeft \in Nat \ {0}
  /\ /\ Node = RestoredProofs!Upstream \cup RestoredProofs!Downstream
     /\ RestoredProofs!EvidenceDiscovery \in Node
     /\ Deps \in [Node -> SUBSET Node]
  /\ \A n \in RestoredProofs!Upstream : Deps[n] \subseteq RestoredProofs!Upstream
  /\ \A n \in Node :
       /\ Deps[n] \cap {RestoredProofs!EvidenceDiscovery, RestoredProofs!QuestionRefinement} # {} =>
            n \in {RestoredProofs!QuestionRefinement}
                    \cup RestoredProofs!Dependents[RestoredProofs!EvidenceDiscovery]
       /\ RestoredProofs!QuestionDiscovery \in Deps[n] =>
            n \in {RestoredProofs!EvidenceDiscovery, RestoredProofs!QuestionRefinement}
                    \cup RestoredProofs!Dependents[RestoredProofs!EvidenceDiscovery]
  /\ LeaseTTL \in Nat \ {0} /\ 1 \in Nat
  /\ /\ Rank \in [Node -> Nat]
     /\ Commands \cup {"repair-research-completion-coverage"}
          \subseteq {"repair-evidence-relevance", "repair-research-completion-coverage"}
     /\ 0 \in Nat /\ MaxFresh \in Nat
  /\ /\ {RestoredProofs!QuestionDiscovery, RestoredProofs!QuestionRefinement, RestoredProofs!Feasibility}
          \subseteq Node
     /\ Deps[RestoredProofs!QuestionDiscovery] = {}
     /\ Deps[RestoredProofs!EvidenceDiscovery] = {RestoredProofs!QuestionDiscovery}
     /\ Deps[RestoredProofs!QuestionRefinement] = {RestoredProofs!EvidenceDiscovery}
     /\ Deps[RestoredProofs!Feasibility] = {RestoredProofs!QuestionRefinement}
     /\ RestoredProofs!Downstream \subseteq RestoredProofs!Dependents[RestoredProofs!Feasibility]

LEMMA RestoredParameters == RestoredAssumptions
<1>1. /\ RestoredProofs!QuestionDiscovery = QuestionDiscovery
      /\ RestoredProofs!EvidenceDiscovery = EvidenceDiscovery
      /\ RestoredProofs!QuestionRefinement = QuestionRefinement
      /\ RestoredProofs!Feasibility = Feasibility
  BY DEF RestoredProofs!QuestionDiscovery, QuestionDiscovery, RestoredProofs!EvidenceDiscovery,
     EvidenceDiscovery, RestoredProofs!QuestionRefinement, QuestionRefinement,
     RestoredProofs!Feasibility, Feasibility
<1>2. RestoredProofs!Upstream = Upstream
  BY <1>1 DEF RestoredProofs!Upstream, Upstream
<1>3. RestoredProofs!Downstream = Downstream
  BY DEF RestoredProofs!Downstream, Downstream, RestoredProofs!SkillDiscovery, SkillDiscovery,
     RestoredProofs!ClaimAdjudication, ClaimAdjudication, RestoredProofs!ResearchReadiness,
     ResearchReadiness
<1>4. RestoredProofs!Dependents = Dependents
  BY DEF RestoredProofs!Dependents, Dependents
<1> QED
  BY <1>1, <1>2, <1>3, <1>4, ChainAssumption, PaperAssumption, ProfileAssumption,
     ContinuationAssumption, NodeAssumption, UpstreamAssumption, DiscoveryAssumption,
     BoundAssumption, RepairAssumption, PlanningAssumption
     DEF RestoredAssumptions, ChainAssumption, PaperAssumption, ProfileAssumption,
         ContinuationAssumption, NodeAssumption, UpstreamAssumption, DiscoveryAssumption,
         BoundAssumption, RepairAssumption, PlanningAssumption

\* The invariant of the run whose nodes are restored, where it is the part that moves.
RestoredInv == RestoredProofs!PlanningTypeOK /\ RestoredProofs!WaitingNodeIsAsked

LEMMA RestoredStart == Init => (part = "restored" => RestoredInv)
<1> SUFFICES ASSUME Init, part = "restored" PROVE RestoredInv
  OBVIOUS
<1>1. RestoredProofs!RepairInit
  BY SameHandlers DEF Init
<1>2. RestoredProofs!PlanningTypeOK
  BY <1>1, RestoredParameters, RestoredProofs!PlanningStart, Zenon DEF RestoredAssumptions
<1>3. RestoredProofs!WaitingNodeIsAsked
  BY <1>1, RestoredParameters, RestoredProofs!WaitingStart, Zenon DEF RestoredAssumptions
<1> QED
  BY <1>2, <1>3 DEF RestoredInv

LEMMA RestoredStep ==
  ASSUME RestoredInv, [Restored!RepairNext]_restoredVars
  PROVE  RestoredInv'
<1>1. RestoredProofs!PlanningTypeOK /\ RestoredProofs!WaitingNodeIsAsked
  BY DEF RestoredInv
<1>2. [RestoredProofs!RepairNext]_(RestoredProofs!repairVars)
  BY SameHandlers DEF restoredVars, RestoredProofs!repairVars
<1>3. RestoredProofs!PlanningTypeOK' /\ RestoredProofs!StepKind
  BY <1>1, <1>2, RestoredParameters, RestoredProofs!PlanningStep, Zenon DEF RestoredAssumptions
<1>4. RestoredProofs!WaitingNodeIsAsked'
  BY <1>1, <1>3, RestoredParameters, RestoredProofs!WaitingStep, Zenon DEF RestoredAssumptions
<1> QED
  BY <1>3, <1>4 DEF RestoredInv

\* Where a command restores completed nodes from the history as well, whatever the nodes
\* behind the planning nodes: a node that waits for a human still has an open decision,
\* and a second repair of the record still changes nothing (repair-structured-generation
\* beside repair-research-completion-coverage).
THEOREM RestoredNodesStayRepairable == Spec => []RestoredNodesAreRepairable
<1>1. (part = "restored" => RestoredInv) /\ [Next]_vars => (part = "restored" => RestoredInv)'
  <2> SUFFICES ASSUME part = "restored" => RestoredInv, [Next]_vars, part' = "restored"
               PROVE  RestoredInv'
    OBVIOUS
  <2> QED
    BY OnePartMoves, RestoredStep
<1>2. (part = "restored" => RestoredInv) => RestoredNodesAreRepairable
  <2> SUFFICES ASSUME RestoredInv PROVE Restored!WaitingNodeIsAsked /\ Restored!RepairConverges
    BY DEF RestoredNodesAreRepairable
  <2>1. RestoredProofs!PlanningTypeOK /\ RestoredProofs!WaitingNodeIsAsked
    BY DEF RestoredInv
  <2>2. RestoredProofs!RepairConverges
    BY <2>1, RestoredParameters, RestoredProofs!RepairedOnce, Zenon DEF RestoredAssumptions
  <2> QED
    BY <2>1, <2>2, SameHandlers
<1> QED
  BY RestoredStart, <1>1, <1>2, PTL DEF Spec
=============================================================================
