------------------------------- MODULE MCResearch -------------------------------
(***************************************************************************)
(* The components of the research runtime that keep state of their own     *)
(* beside the run record, side by side: the artifact store, the gateway    *)
(* and its budget, the evidence ledger, the continuation of an external    *)
(* answer, the evidence chain, the paper pipeline, the local model profile *)
(* and the repairs of the planning nodes.  No two of these models share a  *)
(* variable, so an interleaving of them has no state that they do not have *)
(* apart: a behaviour picks one of them, and the others rest in an initial *)
(* state.                                                                  *)
(***************************************************************************)
EXTENDS ArtifactStore, LLMGateway, EvidenceLedger, EvidenceChain, PaperPipeline, LocalProfile,
        ExternalContinuation, StructuredRepair

VARIABLE part  \* the component that moves

VARIABLES restored, restoring  \* the run record and the plan of a second instance of the repairs

restoredVars == <<restored, restoring>>
vars ==
  <<part, storeVars, gatewayVars, ledgerVars, continuationVars, chainVars, paperVars, profileVars,
    repairVars, restoredVars>>

-----------------------------------------------------------------------------
(* Two claims, each of the kinds of evidence the ledger tells apart, and   *)
(* updates of one or two fields.                                           *)
PlainClaim ==
  [status |-> "UNVERIFIED", origin |-> "executor", updated_by |-> "nobody", artifacts |-> FALSE,
   citations |-> FALSE, hard_coded |-> FALSE, own |-> FALSE, fatal |-> FALSE]
SomeClaims ==
  {PlainClaim, [PlainClaim EXCEPT !.origin = "planner", !.artifacts = TRUE],
   [PlainClaim EXCEPT !.status = "VERIFIED_TOOL_OUTPUT"]}
SomeUpdates ==
  {[status |-> s] : s \in {"VERIFIED_TOOL_OUTPUT", "VERIFIED_MEASUREMENT", "SUPPORTED_BY_CITATION", "MISSPELT"}}
    \cup {[status |-> "VERIFIED_MEASUREMENT", updated_by |-> w] : w \in {"researcher", "paper_writer"}}
    \cup {[updated_by |-> "paper_writer"], [artifacts |-> TRUE], [artifacts |-> FALSE], [citations |-> TRUE],
          [hard_coded |-> TRUE], [own |-> TRUE], [fatal |-> TRUE]}

(* The planning nodes of the default chain and the first node behind them, *)
(* with the alphabetical order of their ids.                               *)
PlanningChain ==
  <<"question_discovery", "evidence_discovery", "question_refinement",
    "feasibility_analysis", "capability_gap_analysis">>
PlanningNodes == {PlanningChain[i] : i \in DOMAIN PlanningChain}
PlanningDeps ==
  [n \in PlanningNodes |-> {PlanningChain[i] : i \in {j \in 1..4 : PlanningChain[j + 1] = n}}]
SortedIds ==
  <<"capability_gap_analysis", "evidence_discovery", "feasibility_analysis",
    "question_discovery", "question_refinement">>
PlanningRank == [n \in PlanningNodes |-> CHOOSE i \in 1..5 : SortedIds[i] = n]

CONSTANT Parts  \* the components that may move

\* The repairs with the command that restores nodes; see QuestionsAreCurrent.
Restored == INSTANCE StructuredRepair
  WITH MaxOpen <- 1, Commands <- Commands \cup {"repair-research-completion-coverage"},
       MaxUpgrades <- 0, run <- restored, planning <- restoring

-----------------------------------------------------------------------------
Rest == "at rest"

\* The parts that do not move rest in an initial state, or have none.
Init ==
  /\ part \in Parts
  /\ StoreInit
  /\ GatewayInit /\ (part # "gateway" => node = "PENDING" /\ provider = "none")
  /\ LedgerInit
  /\ ContinuationInit /\ (part # "continuation" => answered.left = 0)
  /\ ChainInit /\ (part # "chain" => plan.caps = {"lit"} /\ installed = {})
  /\ PaperInit
  /\ ProfileInit /\ (part # "profile" => here = {})
  /\ RepairInit
  /\ IF part = "restored" THEN Restored!RepairInit ELSE restored = Rest /\ restoring = Rest

\* The parts other than p rest.
OthersRest(p) ==
  /\ part = p /\ part' = part
  /\ IF p = "store" THEN TRUE ELSE UNCHANGED storeVars
  /\ IF p = "gateway" THEN TRUE ELSE UNCHANGED gatewayVars
  /\ IF p = "ledger" THEN TRUE ELSE UNCHANGED ledgerVars
  /\ IF p = "continuation" THEN TRUE ELSE UNCHANGED continuationVars
  /\ IF p = "chain" THEN TRUE ELSE UNCHANGED chainVars
  /\ IF p = "paper" THEN TRUE ELSE UNCHANGED paperVars
  /\ IF p = "profile" THEN TRUE ELSE UNCHANGED profileVars
  /\ IF p = "repair" THEN TRUE ELSE UNCHANGED repairVars
  /\ IF p = "restored" THEN TRUE ELSE UNCHANGED restoredVars

Next ==
  \/ OthersRest("store") /\ StoreNext
  \/ OthersRest("gateway") /\ GatewayNext
  \/ OthersRest("ledger") /\ LedgerNext
  \/ OthersRest("continuation") /\ ContinuationNext
  \/ OthersRest("chain") /\ ChainNext
  \/ OthersRest("paper") /\ PaperNext
  \/ OthersRest("profile") /\ ProfileNext
  \/ OthersRest("repair") /\ RepairNext
  \/ OthersRest("restored") /\ Restored!RepairNext

\* The fairness of GatewaySpec and of PaperSpec, of which one part moves.
Spec ==
  /\ Init /\ [][Next]_vars
  /\ WF_vars(\/ OthersRest("gateway") /\ Handling
             \/ OthersRest("paper") /\ Command("p1"))

-----------------------------------------------------------------------------
(* The keyed state of every component keeps its types: a record never lacks *)
(* a field that a later call reads, a counter stays in its range.          *)
ComponentsTypeOK ==
  /\ StoreTypeOK /\ GatewayTypeOK /\ LedgerTypeOK
  /\ ContinuationTypeOK /\ ChainTypeOK /\ PaperTypeOK /\ ProfileTypeOK
  /\ RepairTypeOK

\* Where a command restores completed nodes from the history, a waiting node still
\* has an open decision, and the second repair of a record still changes nothing.
RestoredNodesAreRepairable ==
  part = "restored" => Restored!WaitingNodeIsAsked /\ Restored!RepairConverges

\* Every handling of a node ends, and so does every paper command.
LoopsEnd == HandlingEnds /\ CommandsEnd
=============================================================================
