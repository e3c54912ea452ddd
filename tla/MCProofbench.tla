------------------------------ MODULE MCProofbench ------------------------------
(***************************************************************************)
(* The components of tools/proofbench side by side: the proof engine's     *)
(* tools, the escalation controller, the proof search, the proof session   *)
(* and the finite models with their encodings.  As in MCResearch no two of *)
(* the models share a variable (only the tools and the controller share    *)
(* the engine, and one of them moves), so a behaviour picks one part and   *)
(* the others rest.                                                        *)
(***************************************************************************)
EXTENDS FiniteEncoding, V9Controller, ProofSearch, ProofSession

VARIABLE part  \* the component that moves

VARIABLES problem, derived, at, dirty, clash, stage, rest  \* those of FiniteModel, on a basis problem

basisVars == <<problem, derived, at, dirty, clash, stage, rest>>
vars == <<part, controllerVars, searchVars, sessionVars, modelVars, basisVars>>

CONSTANTS
  Parts,         \* the components that may move
  MaxLemmasOnce  \* the bound on the lemmas of the session that is started once

\* What rests on the empty model has one; the session started once hands off a statement.
ASSUME BenchAssumption == <<>> \in Models /\ Scouted # <<>> /\ MaxLemmasOnce \in Nat

-----------------------------------------------------------------------------
\* More goals than the loop bound and one expansion admit; the root is the second, so
\* that a child may come before it or after.  Two tactics of StrategyPortfolio.registry;
\* models propose a third.
FiveGoals == <<"one", "two", "three", "four", "five">>
TwoTactics == <<"intro h", "simp">>

\* Two statements that propagation derives, one of which a closed budget still formalises.
ScoutedStatements == <<"a", "b">>

\* A finite session that is started once and whose checkpoints are written whole.
Once == INSTANCE ProofSession
  WITH Kinds <- {"finite"}, HandoffPrefix <- 1, MinVerified <- 1, MaxLemmas <- MaxLemmasOnce,
       Restarts <- FALSE, Interrupts <- TRUE, TornWrites <- FALSE

\* The basis problems of small size, with their own variables and those of the sums.
BasisModels == {ModelOf[p] : p \in BasisProblem}
BasisVariables == MaxElement + 1 + Cardinality(AllPairs(MaxElement))
Basis == INSTANCE FiniteEncoding
  WITH N <- BasisVariables, Models <- BasisModels, model <- problem, facts <- derived, visit <- at,
       changed <- dirty, contradiction <- clash, phase <- stage, residual <- rest

\* Pairs and triples of small constraints over four variables.  The code builds
\* clauses and at_most; it handles at_least as well.
SmallClauses == {Clause(l) : l \in {s \in SUBSET ((-4..4) \ {0}) : Cardinality(s) \in 1..2}}
SomeClauses == {Clause(l) : l \in {{1}, {-1, -2}, {2, 3}}}
Cardinalities(kinds) == [kind : kinds, lits : {1..4, {1, -2}, {-1, 2, -3}}, bound : -1..4]
SmallModels ==
  [1..2 -> SmallClauses \cup Cardinalities({"at_most", "at_least"})]
    \cup [1..3 -> SomeClauses \cup Cardinalities({"at_most"})]

\* Models of one counter: those of different constraints share no variable.
CounterModels == {<<k, c>> : k \in SomeClauses, c \in Cardinalities({"at_most", "at_least"})}

FiniteModels == {<<>>} \cup SmallModels \cup CounterModels

-----------------------------------------------------------------------------
\* What has been solved already rests.
ModelRests ==
  /\ model = <<>> /\ facts = {} /\ visit = 1 /\ changed = FALSE /\ contradiction = FALSE
  /\ phase = "done" /\ residual = {}
BasisRests ==
  /\ problem = <<>> /\ derived = {} /\ at = 1 /\ dirty = FALSE /\ clash = FALSE
  /\ stage = "at rest" /\ rest = {}

\* The parts that do not move rest in an initial state, or have none.
Init ==
  /\ part \in Parts
  /\ SupervisorStart /\ IF part = "tools" THEN ToolInit ELSE engine = FreshEngine
  /\ SearchInit
  /\ IF part = "once" THEN Once!SessionInit ELSE SessionInit /\ (part # "session" => kind = "finite")
  /\ IF part = "models" THEN ModelInit ELSE ModelRests
  /\ IF part = "basis" THEN Basis!ModelInit ELSE BasisRests

\* The parts other than p rest.
OthersRest(p) ==
  /\ part = p /\ part' = part
  /\ IF p \in {"tools", "controller"} THEN TRUE ELSE UNCHANGED controllerVars
  /\ IF p = "search" THEN TRUE ELSE UNCHANGED searchVars
  /\ IF p \in {"session", "once"} THEN TRUE ELSE UNCHANGED sessionVars
  /\ IF p = "models" THEN TRUE ELSE UNCHANGED modelVars
  /\ IF p = "basis" THEN TRUE ELSE UNCHANGED basisVars

Next ==
  \/ OthersRest("models") /\ ModelNext
  \/ OthersRest("tools") /\ ToolNext /\ UNCHANGED supervisorVars
  \/ OthersRest("controller") /\ ControllerNext
  \/ OthersRest("search") /\ SearchNext
  \/ OthersRest("session") /\ SessionNext
  \/ OthersRest("once") /\ Once!SessionNext
  \/ OthersRest("basis") /\ Basis!ModelNext

\* The fairness of ModelSpec and of SearchSpec.
Spec ==
  /\ Init /\ [][Next]_vars
  /\ WF_vars(OthersRest("models") /\ ModelNext)
  /\ WF_vars(OthersRest("search") /\ SearchNext)

-----------------------------------------------------------------------------
\* The state of every component keeps its types: no tool, checkpoint or model
\* is left without a field that the next step reads.
BenchTypeOK ==
  /\ ModelTypeOK
  /\ ControllerTypeOK
  /\ SearchTypeOK
  /\ part = "session" => SessionTypeOK

\* The checkpoint of a handoff passes its own integrity check, the certificate a
\* conclusion was verified with is the one on disk, and what a human proposes on
\* resume does not undo a verified session.
CheckpointsResume ==
  [][part = "once" => /\ Once!ResumeKeeps
                      /\ (Once!HandoffResumes /\ Once!CertificateIsKept)']_sessionVars

\* Propagation misses nothing that a constraint forces; the CNF of a model has exactly
\* its solutions, the model of a basis problem exactly the bases; and what the trace
\* offers a formaliser as a lemma holds of every basis.
FiniteModelsAreExact ==
  /\ NothingIsMissed
  /\ model \in CounterModels => EncodingIsExact
  /\ part = "basis" => Basis!BasisIsExact /\ Basis!OptionsAreEntailed

\* The search ends, whatever Lean and the models answer, and propagation ends, with a
\* residual model or with a KeyError.
LoopsEnd == (part = "search" ~> pc = "done") /\ PropagationEnds
=============================================================================
