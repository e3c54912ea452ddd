--------------------------- MODULE MCProofbench_proofs ---------------------------
(***************************************************************************)
(* The components of tools/proofbench side by side, for every value of     *)
(* their constants: each keeps its invariant while the others rest, so     *)
(* that what is proved of each holds of all of them.                       *)
(***************************************************************************)
EXTENDS MCProofbench, Proofbench_proofs, FiniteModel_proofs

-----------------------------------------------------------------------------
(* A step of the bench is a step of the part that moves.                   *)

\* What a step is to each of the components.
LEMMA OnePartMoves ==
  ASSUME [Next]_vars
  PROVE  /\ part' = part
         /\ \/ [ControllerNext]_controllerVars
            \/ (ToolNext /\ UNCHANGED supervisorVars)
         /\ [SearchNext]_searchVars
         /\ part # "once" => [SessionNext]_sessionVars
         /\ part = "once" => [Once!SessionNext]_sessionVars
         /\ [ModelNext]_modelVars
         /\ part = "basis" => [Basis!ModelNext]_basisVars
<1>1. CASE OthersRest("models") /\ ModelNext
  BY <1>1 DEF OthersRest
<1>2. CASE OthersRest("tools") /\ ToolNext /\ UNCHANGED supervisorVars
  BY <1>2 DEF OthersRest
<1>3. CASE OthersRest("controller") /\ ControllerNext
  BY <1>3 DEF OthersRest
<1>4. CASE OthersRest("search") /\ SearchNext
  BY <1>4 DEF OthersRest
<1>5. CASE OthersRest("session") /\ SessionNext
  BY <1>5 DEF OthersRest
<1>6. CASE OthersRest("once") /\ Once!SessionNext
  BY <1>6 DEF OthersRest
<1>7. CASE OthersRest("basis") /\ Basis!ModelNext
  BY <1>7 DEF OthersRest
<1>8. CASE UNCHANGED vars
  BY <1>8 DEF vars
<1> QED
  BY <1>1, <1>2, <1>3, <1>4, <1>5, <1>6, <1>7, <1>8, Zenon DEF Next

\* The tools move the engine alone.
LEMMA ToolsKeep ==
  ASSUME SupervisorInv, ToolNext, UNCHANGED supervisorVars
  PROVE  SupervisorInv'
<1>1. EngineInv(engine)'
  BY EngineStep DEF SupervisorInv
<1>2. EngineTypeOK'
  BY <1>1 DEF EngineInv, EngineTypeOK
<1> QED
  BY <1>1, <1>2 DEF supervisorVars, SupervisorInv, ControllerTypeOK, TerraFollowsLuna

LEMMA SupervisedStart ==
  ASSUME Init
  PROVE  SupervisorInv
<1>1. CASE engine = FreshEngine
  BY <1>1, SupervisorInit DEF Init, ControllerStart
<1>2. CASE ToolInit
  <2>1. EngineInv(engine) 
    BY <1>2, EngineInit
  <2>2. SupervisorStart
    BY DEF Init
  <2> QED
    BY <2>1, <2>2, SupervisedState
<1> QED
  BY <1>1, <1>2 DEF Init

\* What rests has found nothing, on the empty model.
LEMMA RestingModel == ModelRests => Inv /\ PassInv
<1> SUFFICES ASSUME ModelRests PROVE Inv /\ PassInv
  OBVIOUS
<1>1. Len(model) = 0 /\ DOMAIN model = {} /\ model \in Models
  BY BenchAssumption DEF ModelRests
<1>2. Kept(facts, model) = {}
  BY <1>1 DEF Kept, ConstraintsOf
<1>3. residual = Residual(facts, model) /\ residual \subseteq Constraint
  BY <1>2, Zenon DEF ModelRests, Residual
<1>4. changed \in BOOLEAN /\ contradiction \in BOOLEAN
  BY Zenon DEF ModelRests
<1>5. visit \in 1..Len(model) + 1
  BY <1>1 DEF ModelRests
<1>6. facts = {} /\ phase = "done" /\ contradiction = FALSE
  BY Zenon DEF ModelRests
<1>7. ModelTypeOK
  BY <1>1, <1>3, <1>4, <1>5, <1>6, Zenon DEF ModelTypeOK
<1>8. FactsAreFunctional /\ FactsAreEntailed
  BY <1>6 DEF FactsAreFunctional, FactsAreEntailed, Agrees
<1> QED
  BY <1>3, <1>6, <1>7, <1>8 DEF Inv, PassInv, NothingIsMissed

\* The invariants of the components that the proofs of the components keep.
BenchInv ==
  /\ SupervisorInv
  /\ SearchInv
  /\ part # "once" => SessionInv
  /\ Inv /\ PassInv

LEMMA BenchStart == Init => BenchInv
<1> SUFFICES ASSUME Init PROVE BenchInv
  OBVIOUS
<1>1. SearchInv
  BY SearchInvInit DEF Init
<1>2. part # "once" => SessionInv
  BY SessionInvInit DEF Init
<1>3. Inv /\ PassInv
  <2>1. CASE ModelInit
    BY <2>1, InitInv DEF ModelInit, PassInv, NothingIsMissed
  <2>2. CASE ModelRests
    BY <2>2, RestingModel
  <2> QED
    BY <2>1, <2>2 DEF Init
<1> QED
  BY <1>1, <1>2, <1>3, SupervisedStart DEF BenchInv

LEMMA BenchStep == BenchInv /\ [Next]_vars => BenchInv'
<1> SUFFICES ASSUME BenchInv, [Next]_vars PROVE BenchInv'
  OBVIOUS
<1>1. SupervisorInv'
  <2>1. CASE [ControllerNext]_controllerVars
    BY <2>1, SupervisorStep DEF BenchInv
  <2>2. CASE ToolNext /\ UNCHANGED supervisorVars
    BY <2>2, ToolsKeep DEF BenchInv
  <2> QED
    BY <2>1, <2>2, OnePartMoves
<1>2. SearchInv'
  BY OnePartMoves, SearchStep DEF BenchInv
<1>3. part' # "once" => SessionInv'
  BY OnePartMoves, SessionStep DEF BenchInv
<1>4. [ModelNext]_modelVars
  BY OnePartMoves
<1>5. Inv' /\ PassInv'
  BY <1>4, InvStep, PassStep DEF BenchInv
<1> QED
  BY <1>1, <1>2, <1>3, <1>5 DEF BenchInv

LEMMA BenchInvariance == Spec => []BenchInv
BY BenchStart, BenchStep, PTL DEF Spec

\* Whatever the components are given and whichever of them moves, the state of each
\* keeps its types.
THEOREM BenchTypeCorrect == Spec => []BenchTypeOK
<1>1. BenchInv => BenchTypeOK
  BY SearchTypes, SessionTypes DEF BenchInv, BenchTypeOK, SupervisorInv, Inv
<1> QED
  BY BenchInvariance, <1>1, PTL

-----------------------------------------------------------------------------
(* The models of the basis problems.  What FiniteModel_proofs says of any  *)
(* models says of them, since all of their variables are numbered.         *)

BasisProofs == INSTANCE FiniteModel_proofs
  WITH N <- BasisVariables, Models <- BasisModels, model <- problem, facts <- derived, visit <- at,
       changed <- dirty, contradiction <- clash, phase <- stage, residual <- rest

LEMMA PairsGrow ==
  ASSUME NEW n \in 0..MaxElement
  PROVE  AllPairs(n) \subseteq AllPairs(MaxElement)
<1>1. 0..n \subseteq 0..MaxElement
  BY EncodingAssumption
<1> QED
  BY <1>1 DEF AllPairs

LEMMA BasisVariablesAreEnough ==
  /\ BasisVariables \in Nat /\ BasisVariables > MaxElement
  /\ \A n \in 0..MaxElement : \A p \in AllPairs(n) :
       PairVariable(n, p) \in Nat /\ PairVariable(n, p) <= BasisVariables
<1>1. MaxElement \in Nat
  BY EncodingAssumption
<1>2. IsFiniteSet(AllPairs(MaxElement)) /\ Cardinality(AllPairs(MaxElement)) \in Nat
  BY <1>1, EarlierAreFinite, FS_CardinalityType
<1>3. BasisVariables \in Nat /\ BasisVariables = MaxElement + 1 + Cardinality(AllPairs(MaxElement))
  BY <1>1, <1>2 DEF BasisVariables
<1>4. ASSUME NEW n \in 0..MaxElement, NEW p \in AllPairs(n)
      PROVE  PairVariable(n, p) \in Nat /\ PairVariable(n, p) <= BasisVariables
  <2>1. n \in Nat /\ n <= MaxElement
    BY <1>1
  <2>2. p \notin Earlier(n, p)
    BY <2>1, PairsAreOrdered DEF Earlier, Before
  <2>3. IsFiniteSet(Earlier(n, p)) /\ Cardinality(Earlier(n, p)) \in Nat
    BY <2>1, EarlierAreFinite
  <2>4. Cardinality(Earlier(n, p) \cup {p}) = Cardinality(Earlier(n, p)) + 1
    BY <2>2, <2>3, FS_AddElement
  <2>5. Earlier(n, p) \cup {p} \in SUBSET AllPairs(MaxElement)
    BY PairsGrow DEF Earlier
  <2>6. Cardinality(Earlier(n, p) \cup {p}) <= Cardinality(AllPairs(MaxElement))
    BY <2>5, <1>2, FS_Subset
  <2>7. PairVariable(n, p) = n + 2 + Cardinality(Earlier(n, p))
    BY DEF PairVariable, Earlier
  <2> QED
    BY <1>1, <1>2, <1>3, <2>1, <2>3, <2>4, <2>6, <2>7
<1> QED
  BY <1>1, <1>2, <1>3, <1>4

\* The constraints of a basis problem, over the variables that are enough for it.
LEMMA BasisConstraintsFit ==
  ASSUME NEW p \in BasisProblem
  PROVE  BasisConstraints(p.n, p.forbidden, p.size) \subseteq BasisProofs!Constraint
<1> DEFINE Literals == (-BasisVariables..BasisVariables) \ {0}
<1>1. /\ MaxElement \in Nat /\ p.n \in 0..MaxElement /\ p.forbidden \subseteq 0..p.n /\ p.size \in Int
  BY EncodingAssumption DEF BasisProblem
<1>2. BasisVariables \in Nat /\ BasisVariables > MaxElement
  BY BasisVariablesAreEnough
<1>3. \A lits \in SUBSET Literals : Clause(lits) \in BasisProofs!Constraint
  BY <1>2 DEF Clause, BasisProofs!Constraint, BasisProofs!Literal
<1>4. \A i \in 0..p.n : Element(i) \in Literals /\ -Element(i) \in Literals
  BY <1>1, <1>2 DEF Element
<1>5. ASSUME NEW q \in AllPairs(p.n)
      PROVE  PairVariable(p.n, q) \in Literals /\ -PairVariable(p.n, q) \in Literals
  <2>1. PairVariable(p.n, q) \in Nat /\ PairVariable(p.n, q) <= BasisVariables /\ PairVariable(p.n, q) > p.n + 1
    BY <1>1, BasisVariablesAreEnough, PairVariables
  <2> QED
    BY <1>1, <1>2, <2>1
<1>6. ASSUME NEW i \in p.forbidden PROVE Clause({-Element(i)}) \in BasisProofs!Constraint
  <2>1. {-Element(i)} \in SUBSET Literals
    BY <1>1, <1>4
  <2> QED
    BY <1>3, <2>1
<1>7. ASSUME NEW q \in AllPairs(p.n) PROVE Definition(p.n, q) \subseteq BasisProofs!Constraint
  <2> DEFINE v == PairVariable(p.n, q)
             l == Element(q[2])
             r == Element(q[1] - q[2])
  <2>1. q[2] \in 0..p.n /\ q[1] - q[2] \in 0..p.n
    BY <1>1, PairsAreOrdered
  <2>2. {v, -v, l, -l, r, -r} \subseteq Literals
    BY <1>4, <1>5, <2>1
  <2>3. Definition(p.n, q) = {Clause({-v, l}), Clause({-v, r}), Clause({v, -l, -r})}
    BY DEF Definition
  <2> HIDE DEF v, l, r, Literals
  <2>4. {-v, l} \in SUBSET Literals /\ {-v, r} \in SUBSET Literals /\ {v, -l, -r} \in SUBSET Literals
    BY <2>2
  <2> QED
    BY <1>3, <2>3, <2>4
<1>8. ASSUME NEW t \in 0..p.n PROVE Clause(Coverage(p.n, t)) \in BasisProofs!Constraint
  <2>1. \A q \in Pairs(t) : PairVariable(p.n, q) \in Literals
    BY <1>1, <1>5, PairsOfTarget
  <2>2. t % 2 = 0 => t \div 2 \in 0..p.n
    BY <1>1
  <2>3. t % 2 = 0 => Element(t \div 2) \in Literals
    BY <1>4, <2>2
  <2> HIDE DEF Literals
  <2>4. Coverage(p.n, t) \in SUBSET Literals
    BY <2>1, <2>3 DEF Coverage
  <2> QED
    BY <1>3, <2>4
<1>9. [kind |-> "at_most", lits |-> Element(0)..Element(p.n), bound |-> p.size] \in BasisProofs!Constraint
  <2>1. \A x \in Element(0)..Element(p.n) : x \in Literals /\ -x \notin Element(0)..Element(p.n)
    BY <1>1, <1>2 DEF Element
  <2> QED
    BY <1>1, <2>1 DEF BasisProofs!Constraint, BasisProofs!Literal
<1> QED
  BY <1>6, <1>7, <1>8, <1>9 DEF BasisConstraints

LEMMA BasisModelsAreModels ==
  BasisVariables \in Nat /\ BasisModels \subseteq Seq(BasisProofs!Constraint)
<1> SUFFICES ASSUME NEW p \in BasisProblem PROVE ModelOf[p] \in Seq(BasisProofs!Constraint)
  BY BasisVariablesAreEnough DEF BasisModels
<1>1. p.n \in Nat /\ p.forbidden \in SUBSET (0..p.n)
  BY EncodingAssumption DEF BasisProblem
<1>2. ModelOf[p] = Listed(BasisConstraints(p.n, p.forbidden, p.size))
  BY DEF ModelOf, BasisModel, BasisConstraints
<1>3. ModelOf[p] \in Seq(BasisConstraints(p.n, p.forbidden, p.size))
  BY <1>1, <1>2, BasisConstraintsAreFinite, ListedHasTheMembers
<1> QED
  BY <1>3, BasisConstraintsFit

\* The definitions of the two instances say the same.
LEMMA SameOperators ==
  /\ \A F, c : Basis!Forced(F, c) = BasisProofs!Forced(F, c)
  /\ \A F, c : Basis!Contradicts(F, c) <=> BasisProofs!Contradicts(F, c)
  /\ \A F, m : Basis!Residual(F, m) = BasisProofs!Residual(F, m)
  /\ \A F, m : Basis!Renumbers(F, m) <=> BasisProofs!Renumbers(F, m)
<1>1. \A F, lits : Basis!Live(F, lits) = BasisProofs!Live(F, lits)
  BY DEF Basis!Live, BasisProofs!Live
<1>2. /\ \A S : Basis!Cardinality(S) = BasisProofs!Cardinality(S)
      /\ \A F, c : Basis!Known(F, c) = BasisProofs!Known(F, c)
  BY DEF Basis!Cardinality, BasisProofs!Cardinality, Basis!Known, BasisProofs!Known
<1>3. \A F, m : Basis!Kept(F, m) = BasisProofs!Kept(F, m)
  <2>1. \A m : Basis!ConstraintsOf(m) = BasisProofs!ConstraintsOf(m)
    BY DEF Basis!ConstraintsOf, BasisProofs!ConstraintsOf
  <2>2. \A F, c : Basis!IsDischarged(F, c) <=> BasisProofs!IsDischarged(F, c)
    BY DEF Basis!IsDischarged, BasisProofs!IsDischarged
  <2> QED
    BY <2>1, <2>2 DEF Basis!Kept, BasisProofs!Kept
<1>4. \A F, c : Basis!Forced(F, c) = BasisProofs!Forced(F, c)
  BY <1>1, <1>2 DEF Basis!Forced, BasisProofs!Forced, Basis!IsUnit, BasisProofs!IsUnit,
     Basis!IsFull, BasisProofs!IsFull, Basis!IsTight, BasisProofs!IsTight
<1>5. \A F, c : Basis!Contradicts(F, c) <=> BasisProofs!Contradicts(F, c)
  BY <1>1 DEF Basis!Contradicts, BasisProofs!Contradicts
<1>6. ASSUME NEW F, NEW c PROVE Basis!Substituted(F, c) = BasisProofs!Substituted(F, c)
  <2>1. Basis!Live(F, c.lits) = BasisProofs!Live(F, c.lits) /\ Basis!Known(F, c) = BasisProofs!Known(F, c)
    BY <1>1, <1>2
  <2> QED
    BY <2>1 DEF Basis!Substituted, BasisProofs!Substituted
<1>7. \A F, m : Basis!Residual(F, m) = BasisProofs!Residual(F, m)
  BY <1>3, <1>6 DEF Basis!Residual, BasisProofs!Residual
<1>8. \A F, m : Basis!Renumbers(F, m) <=> BasisProofs!Renumbers(F, m)
  BY <1>1, <1>3 DEF Basis!Renumbers, BasisProofs!Renumbers, Basis!Numbered, BasisProofs!Numbered,
     Basis!Variable, BasisProofs!Variable
<1> QED
  BY <1>4, <1>5, <1>7, <1>8

LEMMA SameModels ==
  /\ Basis!ModelInit <=> BasisProofs!ModelInit
  /\ [Basis!ModelNext]_basisVars <=> [BasisProofs!ModelNext]_(BasisProofs!modelVars)
<1>1. Basis!ModelInit <=> BasisProofs!ModelInit
  BY DEF Basis!ModelInit, BasisProofs!ModelInit
<1>2. basisVars = BasisProofs!modelVars
  BY DEF basisVars, BasisProofs!modelVars
<1>3. Basis!Visit <=> BasisProofs!Visit
  BY SameOperators DEF Basis!Visit, BasisProofs!Visit
<1>4. Basis!EndPass <=> BasisProofs!EndPass
  BY DEF Basis!EndPass, BasisProofs!EndPass, Basis!Again, BasisProofs!Again
<1>5. Basis!Substitute <=> BasisProofs!Substitute
  BY SameOperators DEF Basis!Substitute, BasisProofs!Substitute
<1> QED
  BY <1>1, <1>2, <1>3, <1>4, <1>5 DEF Basis!ModelNext, BasisProofs!ModelNext, BasisProofs!modelVars, basisVars

LEMMA SameProblems ==
  /\ Basis!BasisProblem = BasisProofs!BasisProblem
  /\ \A S : Basis!Listed(S) = BasisProofs!Listed(S)
  /\ \A n : Basis!AllPairs(n) = BasisProofs!AllPairs(n)
  /\ Basis!ModelOf = BasisProofs!ModelOf
  /\ \A n, forbidden, size, E :
       Basis!Admissible(n, forbidden, size, E) <=> BasisProofs!Admissible(n, forbidden, size, E)
<1>1. Basis!BasisProblem = BasisProofs!BasisProblem
  BY DEF Basis!BasisProblem, BasisProofs!BasisProblem
<1>2. \A S : Basis!Listed(S) = BasisProofs!Listed(S)
  BY DEF Basis!Listed, BasisProofs!Listed, Basis!FoldSet, BasisProofs!FoldSet,
     Basis!MapThenFoldSet, BasisProofs!MapThenFoldSet
<1>3. /\ \A t : Basis!Pairs(t) = BasisProofs!Pairs(t)
      /\ \A n : Basis!AllPairs(n) = BasisProofs!AllPairs(n)
  BY DEF Basis!Pairs, BasisProofs!Pairs, Basis!AllPairs, BasisProofs!AllPairs
<1>4. \A S : Basis!Cardinality(S) = BasisProofs!Cardinality(S)
  BY DEF Basis!Cardinality, BasisProofs!Cardinality
<1>5. \A i : Basis!Element(i) = BasisProofs!Element(i)
  BY DEF Basis!Element, BasisProofs!Element
<1>6. \A lits : Basis!Clause(lits) = BasisProofs!Clause(lits)
  BY DEF Basis!Clause, BasisProofs!Clause
<1>7. \A p, q : Basis!Before(p, q) <=> BasisProofs!Before(p, q)
  BY DEF Basis!Before, BasisProofs!Before
<1>8. \A n, p : Basis!PairVariable(n, p) = BasisProofs!PairVariable(n, p)
  BY <1>3, <1>4, <1>7 DEF Basis!PairVariable, BasisProofs!PairVariable
<1>9. \A n, p : Basis!Definition(n, p) = BasisProofs!Definition(n, p)
  BY <1>5, <1>6, <1>8 DEF Basis!Definition, BasisProofs!Definition
<1>10. \A n, t : Basis!Coverage(n, t) = BasisProofs!Coverage(n, t)
  BY <1>3, <1>5, <1>8 DEF Basis!Coverage, BasisProofs!Coverage
<1>11. \A n, forbidden, size : Basis!BasisModel(n, forbidden, size) = BasisProofs!BasisModel(n, forbidden, size)
  BY <1>2, <1>3, <1>5, <1>6, <1>9, <1>10 DEF Basis!BasisModel, BasisProofs!BasisModel
<1>12. Basis!ModelOf = BasisProofs!ModelOf
  BY <1>1, <1>11 DEF Basis!ModelOf, BasisProofs!ModelOf
<1> QED
  BY <1>1, <1>2, <1>3, <1>4, <1>12 DEF Basis!Admissible, BasisProofs!Admissible

LEMMA SamePromises ==
  /\ BasisProofs!BasisIsExact => Basis!BasisIsExact
  /\ BasisProofs!OptionsAreEntailed => Basis!OptionsAreEntailed
<1>1. \A m : Basis!ConstraintsOf(m) = BasisProofs!ConstraintsOf(m)
  BY DEF Basis!ConstraintsOf, BasisProofs!ConstraintsOf
<1>2. \A S : Basis!Cardinality(S) = BasisProofs!Cardinality(S)
  BY DEF Basis!Cardinality, BasisProofs!Cardinality
<1>3. \A A, lits : Basis!TrueIn(A, lits) = BasisProofs!TrueIn(A, lits)
  BY DEF Basis!TrueIn, BasisProofs!TrueIn, Basis!Holds, BasisProofs!Holds
<1>4. \A A, cs : Basis!Solves(A, cs) <=> BasisProofs!Solves(A, cs)
  BY <1>2, <1>3 DEF Basis!Solves, BasisProofs!Solves, Basis!Satisfies, BasisProofs!Satisfies
<1>5. \A i : Basis!Element(i) = BasisProofs!Element(i)
  BY DEF Basis!Element, BasisProofs!Element
<1>6. \A t : Basis!Pairs(t) = BasisProofs!Pairs(t)
  BY DEF Basis!Pairs, BasisProofs!Pairs
<1>7. \A F, n, t : Basis!CoveredBy(F, n, t) <=> BasisProofs!CoveredBy(F, n, t)
  BY <1>5, <1>6 DEF Basis!CoveredBy, BasisProofs!CoveredBy
<1>8. \A F, n, t : Basis!Options(F, n, t) = BasisProofs!Options(F, n, t)
  BY <1>5, <1>6 DEF Basis!Options, BasisProofs!Options
<1>9. BasisProofs!BasisIsExact => Basis!BasisIsExact
  BY <1>1, <1>4, <1>5, SameProblems DEF Basis!BasisIsExact, BasisProofs!BasisIsExact
<1>10. BasisProofs!OptionsAreEntailed => Basis!OptionsAreEntailed
  BY <1>7, <1>8, SameProblems DEF Basis!OptionsAreEntailed, BasisProofs!OptionsAreEntailed
<1> QED
  BY <1>9, <1>10

\* The invariant of the basis problems, where they are the part that moves.
BasisInv == part = "basis" => BasisProofs!Inv

LEMMA BasisStart == Init => BasisInv
<1> SUFFICES ASSUME Init, part = "basis" PROVE BasisProofs!Inv
  BY DEF BasisInv
<1>1. BasisProofs!ModelInit
  BY SameModels DEF Init
<1> QED
  BY <1>1, BasisModelsAreModels, EncodingAssumption, BasisProofs!InitInv

LEMMA BasisStep == BasisInv /\ [Next]_vars => BasisInv'
<1> SUFFICES ASSUME BasisInv, [Next]_vars, part' = "basis" PROVE BasisProofs!Inv'
  BY DEF BasisInv
<1>1. part = "basis" /\ [Basis!ModelNext]_basisVars
  BY OnePartMoves
<1>2. BasisProofs!Inv /\ [BasisProofs!ModelNext]_(BasisProofs!modelVars)
  BY <1>1, SameModels DEF BasisInv
<1> QED
  BY <1>2, BasisModelsAreModels, EncodingAssumption, BasisProofs!InvStep

LEMMA BasisProblemsAreExact ==
  ASSUME BasisInv, part = "basis"
  PROVE  Basis!BasisIsExact /\ Basis!OptionsAreEntailed
<1>1. BasisProofs!BasisIsExact
  <2>1. BasisProofs!ModelTypeOK
    BY DEF BasisInv, BasisProofs!Inv
  <2> QED
    BY <2>1, BasisModelsAreModels, EncodingAssumption, BasisProofs!BasisHolds
<1>2. BasisProofs!OptionsAreEntailed
  BY BasisModelsAreModels, EncodingAssumption, BasisProofs!OptionsStand DEF BasisInv
<1> QED
  BY <1>1, <1>2, SamePromises

\* Whatever the models and the bound on the elements of the basis problems: propagation
\* misses nothing that a constraint forces, the CNF of a model has exactly its
\* solutions, the model of a basis problem exactly the bases, and the alternatives that
\* the trace leaves for a target hold of every basis (propagate_constraints,
\* dimacs_export, additive_basis_model and readable_deduction_trace).
THEOREM FiniteModelsStayExact == Spec => []FiniteModelsAreExact
<1>1. BenchInv /\ BasisInv => FiniteModelsAreExact
  BY EncodingHolds, BasisProblemsAreExact DEF BenchInv, FiniteModelsAreExact, PassInv
<1> QED
  BY BenchInvariance, BasisStart, BasisStep, <1>1, PTL DEF Spec

-----------------------------------------------------------------------------
(* The session that is started once: what Proofbench_proofs says of any    *)
(* session, with the parameters of this one.                               *)

OnceProofs == INSTANCE Proofbench_proofs
  WITH Kinds <- {"finite"}, HandoffPrefix <- 1, MinVerified <- 1, MaxLemmas <- MaxLemmasOnce,
       Restarts <- FALSE, Interrupts <- TRUE, TornWrites <- FALSE

\* The assumptions of Proofbench_proofs hold of its parameters.
OnceAssumptions ==
  /\ /\ {"finite"} \subseteq {"finite", "boolean", "adapter"}
     /\ Provable \subseteq Statements /\ Scouted \in Seq(Provable)
     /\ 1 \in 0..Len(Scouted) /\ 1 \in Nat /\ MaxLemmasOnce \in Nat
     /\ {FALSE, TRUE, FALSE} \subseteq BOOLEAN /\ None # Torn
  /\ /\ GoalOrder \in Seq(STRING) /\ OnceProofs!IsInjective(GoalOrder)
     /\ RootGoal \in {GoalOrder[i] : i \in DOMAIN GoalOrder}
     /\ \A i \in DOMAIN GoalOrder : GoalOrder[i] \notin {"CLOSED", "UNSOUND", "ERROR", "TIMEOUT"}
     /\ Portfolio \in Seq(STRING)
     /\ MaxProposals \in Nat /\ MaxNodes \in Nat \ {0} /\ MaxDepth \in Nat
     /\ FiniteGoal \in BOOLEAN /\ HasModel \in BOOLEAN
  /\ /\ Tasks \in Nat \ {0} /\ MaxActions \in Nat \ {0}
     /\ PlateauMin \in Nat \ {0} /\ PlateauWindow \in 1..PlateauMin
     /\ InfraLimit \in Nat /\ HasTransport \in BOOLEAN

LEMMA OnceParameters == OnceAssumptions
<1>1. Provable \subseteq Statements /\ Scouted \in Seq(Provable) /\ None # Torn
  BY SessionAssumption DEF SessionAssumption
<1>2. Len(Scouted) \in Nat \ {0}
  BY <1>1, BenchAssumption
<1>3. IsInjective(GoalOrder) <=> OnceProofs!IsInjective(GoalOrder)
  BY DEF IsInjective, OnceProofs!IsInjective
<1> QED
  BY <1>1, <1>2, <1>3, BenchAssumption, SearchAssumption, ControllerAssumption
     DEF OnceAssumptions, SearchAssumption, ControllerAssumption

\* The definitions of the two instances say the same.
LEMMA SameCommands ==
  /\ Once!NoBundle = OnceProofs!NoBundle /\ Once!Idle = OnceProofs!Idle /\ Once!FINAL = OnceProofs!FINAL
  /\ Once!Fresh = OnceProofs!Fresh
  /\ \A mem : Once!VerifiedIn(mem) = OnceProofs!VerifiedIn(mem)
  /\ \A S : Once!Cardinality(S) = OnceProofs!Cardinality(S)
  /\ \A mem : Once!BundleOf(mem) = OnceProofs!BundleOf(mem)
  /\ \A mem : Once!Used(mem) = OnceProofs!Used(mem) /\ Once!Parents(mem) = OnceProofs!Parents(mem)
  /\ \A mem : Once!Exhausted(mem) = OnceProofs!Exhausted(mem)
  /\ \A dag, id, deps : Once!InvalidDependency(dag, id, deps) <=> OnceProofs!InvalidDependency(dag, id, deps)
  /\ \A dag, id, deps, ok : Once!DagWith(dag, id, deps, ok) = OnceProofs!DagWith(dag, id, deps, ok)
<1>1. Once!NoBundle = OnceProofs!NoBundle /\ Once!Idle = OnceProofs!Idle /\ Once!FINAL = OnceProofs!FINAL
  BY DEF Once!NoBundle, OnceProofs!NoBundle, Once!Idle, OnceProofs!Idle, Once!FINAL,
     OnceProofs!FINAL
<1>2. Once!Fresh = OnceProofs!Fresh
  BY DEF Once!Fresh, OnceProofs!Fresh, Once!NoBundle, OnceProofs!NoBundle
<1>3. \A mem : Once!VerifiedIn(mem) = OnceProofs!VerifiedIn(mem)
  BY DEF Once!VerifiedIn, OnceProofs!VerifiedIn
<1>4. \A mem : Once!BundleOf(mem) = OnceProofs!BundleOf(mem)
  BY <1>3 DEF Once!BundleOf, OnceProofs!BundleOf
<1>5. \A mem : Once!HumanIn(mem) = OnceProofs!HumanIn(mem)
  BY <1>3 DEF Once!HumanIn, OnceProofs!HumanIn
<1>6. ASSUME NEW mem
      PROVE  Once!Used(mem) = OnceProofs!Used(mem) /\ Once!Parents(mem) = OnceProofs!Parents(mem)
  <2>1. Once!HumanIn(mem) = OnceProofs!HumanIn(mem)
    BY <1>5
  <2>2. Once!Used(mem) = OnceProofs!Used(mem)
    BY <2>1 DEF Once!Used, OnceProofs!Used
  <2> QED
    BY <2>2 DEF Once!Parents, OnceProofs!Parents
<1>7. \A mem : Once!Exhausted(mem) = OnceProofs!Exhausted(mem)
  BY DEF Once!Exhausted, OnceProofs!Exhausted
<1>8. \A dag, id, deps : Once!InvalidDependency(dag, id, deps) <=> OnceProofs!InvalidDependency(dag, id, deps)
  BY DEF Once!InvalidDependency, OnceProofs!InvalidDependency
<1>9. \A dag, id, deps, ok : Once!DagWith(dag, id, deps, ok) = OnceProofs!DagWith(dag, id, deps, ok)
  BY DEF Once!DagWith, OnceProofs!DagWith
<1>10. \A S : Once!Cardinality(S) = OnceProofs!Cardinality(S)
  BY DEF Once!Cardinality, OnceProofs!Cardinality
<1> QED
  BY <1>1, <1>2, <1>3, <1>4, <1>6, <1>7, <1>8, <1>9, <1>10

LEMMA SameSession ==
  /\ Once!SessionInit <=> OnceProofs!SessionInit
  /\ [Once!SessionNext]_sessionVars <=> [OnceProofs!SessionNext]_(OnceProofs!sessionVars)
<1>1. sessionVars = OnceProofs!sessionVars
  BY DEF sessionVars, OnceProofs!sessionVars
<1>2. Once!SessionInit <=> OnceProofs!SessionInit
  BY SameCommands DEF Once!SessionInit, OnceProofs!SessionInit, Once!LemmaId, OnceProofs!LemmaId
<1>3. Once!Start <=> OnceProofs!Start
  BY SameCommands DEF Once!Start, OnceProofs!Start, Once!Begin, OnceProofs!Begin
<1>4. Once!FormaliseScouted <=> OnceProofs!FormaliseScouted
  BY DEF Once!FormaliseScouted, OnceProofs!FormaliseScouted, Once!At, OnceProofs!At, Once!Idle, OnceProofs!Idle,
     Once!AddLemma, OnceProofs!AddLemma, Once!NewId, OnceProofs!NewId, Once!Checked, OnceProofs!Checked,
     Once!DagWith, OnceProofs!DagWith
<1>5. Once!AfterScouting <=> OnceProofs!AfterScouting
  BY SameCommands DEF Once!AfterScouting, OnceProofs!AfterScouting, Once!At, OnceProofs!At,
     Once!Continue, OnceProofs!Continue
<1>6. Once!Handoff <=> OnceProofs!Handoff
  BY SameCommands DEF Once!Handoff, OnceProofs!Handoff, Once!At, OnceProofs!At, Once!Continue,
     OnceProofs!Continue, Once!RecordedBundle, OnceProofs!RecordedBundle
<1>7. Once!CloseFinite <=> OnceProofs!CloseFinite
  BY SameCommands DEF Once!CloseFinite, OnceProofs!CloseFinite, Once!At, OnceProofs!At,
     Once!Continue, OnceProofs!Continue, Once!Raise, OnceProofs!Raise
<1>8. Once!CloseBoolean <=> OnceProofs!CloseBoolean
  BY SameCommands DEF Once!CloseBoolean, OnceProofs!CloseBoolean, Once!At, OnceProofs!At,
     Once!Continue, OnceProofs!Continue
<1>9. Once!Save <=> OnceProofs!Save
  BY SameCommands DEF Once!Save, OnceProofs!Save, Once!At, OnceProofs!At, Once!Raise,
     OnceProofs!Raise
<1>10. Once!Resume <=> OnceProofs!Resume
  BY SameCommands DEF Once!Resume, OnceProofs!Resume, Once!Begin, OnceProofs!Begin, Once!Raise,
     OnceProofs!Raise, Once!ResumeIntegrity, OnceProofs!ResumeIntegrity
<1>11. Once!ImportNothing <=> OnceProofs!ImportNothing
  BY SameCommands DEF Once!ImportNothing, OnceProofs!ImportNothing, Once!At, OnceProofs!At,
     Once!Continue, OnceProofs!Continue
<1>12. Once!ImportStatement <=> OnceProofs!ImportStatement
  BY DEF Once!ImportStatement, OnceProofs!ImportStatement, Once!At, OnceProofs!At, Once!Idle, OnceProofs!Idle,
     Once!AddLemma, OnceProofs!AddLemma, Once!NewId, OnceProofs!NewId, Once!Checked, OnceProofs!Checked,
     Once!DagWith, OnceProofs!DagWith
<1>13. Once!ImportLean <=> OnceProofs!ImportLean
  BY SameCommands DEF Once!ImportLean, OnceProofs!ImportLean, Once!At, OnceProofs!At,
     Once!Raise, OnceProofs!Raise
<1>14. Once!SaveImport <=> OnceProofs!SaveImport
  BY SameCommands DEF Once!SaveImport, OnceProofs!SaveImport, Once!At, OnceProofs!At,
     Once!Continue, OnceProofs!Continue, Once!ClosesAfterImport, OnceProofs!ClosesAfterImport
<1>15. Once!AdapterRejects <=> OnceProofs!AdapterRejects
  BY SameCommands DEF Once!AdapterRejects, OnceProofs!AdapterRejects, Once!At, OnceProofs!At,
     Once!Continue, OnceProofs!Continue
<1>16. Once!AdapterCloses <=> OnceProofs!AdapterCloses
  BY SameCommands DEF Once!AdapterCloses, OnceProofs!AdapterCloses, Once!At, OnceProofs!At,
     Once!Continue, OnceProofs!Continue, Once!Raise, OnceProofs!Raise
<1>17. Once!Die <=> OnceProofs!Die
  BY SameCommands DEF Once!Die, OnceProofs!Die, Once!Raise, OnceProofs!Raise
<1>18. Once!DieInSave <=> OnceProofs!DieInSave
  BY SameCommands DEF Once!DieInSave, OnceProofs!DieInSave, Once!At, OnceProofs!At, Once!Raise,
     OnceProofs!Raise
<1>19. Once!SessionNext <=> OnceProofs!SessionNext
  BY <1>3, <1>4, <1>5, <1>6, <1>7, <1>8, <1>9, <1>10, <1>11, <1>12, <1>13, <1>14, <1>15, <1>16,
     <1>17, <1>18 DEF Once!SessionNext, OnceProofs!SessionNext
<1> QED
  BY <1>1, <1>2, <1>19 DEF sessionVars, OnceProofs!sessionVars

LEMMA SameOutcomes ==
  /\ OnceProofs!ResumeKeeps => Once!ResumeKeeps
  /\ OnceProofs!HandoffResumes => Once!HandoffResumes
  /\ OnceProofs!CertificateIsKept => Once!CertificateIsKept
  /\ OnceProofs!SessionIsSound => SessionIsSound
<1>1. OnceProofs!ResumeKeeps => Once!ResumeKeeps
  BY SameCommands DEF Once!ResumeKeeps, OnceProofs!ResumeKeeps, Once!Saved, OnceProofs!Saved
<1>2. OnceProofs!HandoffResumes => Once!HandoffResumes
  BY SameCommands DEF Once!HandoffResumes, OnceProofs!HandoffResumes, Once!Saved, OnceProofs!Saved,
     Once!ResumeIntegrity, OnceProofs!ResumeIntegrity
<1>3. OnceProofs!CertificateIsKept => Once!CertificateIsKept
  BY SameCommands DEF Once!CertificateIsKept, OnceProofs!CertificateIsKept, Once!Saved, OnceProofs!Saved
<1>4. \A mem : OnceProofs!VerifiedIn(mem) = VerifiedIn(mem)
  BY DEF OnceProofs!VerifiedIn, VerifiedIn
<1>5. OnceProofs!FINAL = FINAL /\ (OnceProofs!Saved <=> Saved)
  BY DEF OnceProofs!FINAL, FINAL, OnceProofs!Saved, Saved
<1>6. OnceProofs!SessionIsSound => SessionIsSound
  BY <1>4, <1>5 DEF OnceProofs!SessionIsSound, SessionIsSound, OnceProofs!VerifiedLemmasReplay,
     VerifiedLemmasReplay, OnceProofs!VerifiedIsClosed, VerifiedIsClosed
<1> QED
  BY <1>1, <1>2, <1>3, <1>6

\* The invariant of the session that is started once, where it is the part that moves.
StartedOnce == OnceProofs!SessionInv /\ OnceProofs!OnceInv /\ kind = "finite"

LEMMA OnceStart == Init => (part = "once" => StartedOnce)
<1> SUFFICES ASSUME Init, part = "once" PROVE StartedOnce
  OBVIOUS
<1>1. OnceProofs!SessionInit
  BY SameSession DEF Init
<1>2. OnceProofs!SessionInv
  BY <1>1, OnceParameters, OnceProofs!SessionInvInit, Zenon DEF OnceAssumptions
<1>3. OnceProofs!OnceInv
  BY <1>1, OnceParameters, OnceProofs!OnceInit, Zenon DEF OnceAssumptions
<1>4. kind = "finite"
  BY <1>1 DEF OnceProofs!SessionInit
<1> QED
  BY <1>2, <1>3, <1>4 DEF StartedOnce

LEMMA OnceStep ==
  ASSUME StartedOnce, [Once!SessionNext]_sessionVars
  PROVE  StartedOnce' /\ [Once!ResumeKeeps]_sessionVars
<1>1. OnceProofs!SessionInv /\ OnceProofs!OnceInv /\ kind = "finite"
  BY DEF StartedOnce
<1>2. [OnceProofs!SessionNext]_(OnceProofs!sessionVars)
  BY SameSession
<1>3. OnceProofs!SessionInv'
  BY <1>1, <1>2, OnceParameters, OnceProofs!SessionStep, Zenon DEF OnceAssumptions
<1>4. OnceProofs!OnceInv'
  BY <1>1, <1>2, OnceParameters, OnceProofs!OnceNext, Zenon DEF OnceAssumptions
<1>5. kind' = "finite"
  BY <1>3 DEF OnceProofs!SessionInv
<1>6. CASE UNCHANGED sessionVars
  BY <1>3, <1>4, <1>5, <1>6 DEF StartedOnce
<1>7. CASE OnceProofs!SessionNext
  <2>1. OnceProofs!ResumeKeeps
    BY <1>1, <1>7, OnceParameters, OnceProofs!SavesKeep, Zenon DEF OnceAssumptions
  <2> QED
    BY <1>3, <1>4, <1>5, <2>1, SameOutcomes DEF StartedOnce
<1> QED
  BY <1>2, <1>6, <1>7 DEF sessionVars, OnceProofs!sessionVars

LEMMA OnceKeeps == StartedOnce => Once!HandoffResumes /\ Once!CertificateIsKept /\ SessionIsSound
<1> SUFFICES ASSUME StartedOnce PROVE Once!HandoffResumes /\ Once!CertificateIsKept /\ SessionIsSound
  OBVIOUS
<1>1. OnceProofs!SessionInv /\ OnceProofs!OnceInv
  BY DEF StartedOnce
<1>2. OnceProofs!HandoffResumes /\ OnceProofs!CertificateIsKept
  BY <1>1, OnceParameters, OnceProofs!OnceHolds, Zenon DEF OnceAssumptions
<1>3. OnceProofs!SessionIsSound
  BY <1>1, OnceParameters, OnceProofs!SessionHolds, Zenon DEF OnceAssumptions
<1> QED
  BY <1>2, <1>3, SameOutcomes

\* Whatever the statements and the bounds: a finite session that is started once and
\* whose checkpoints are written whole can be resumed from what it saves, wherever its
\* commands die, and no resumption takes its verification back.
THEOREM CheckpointsStayResumed == Spec => CheckpointsResume
<1> DEFINE Invariant == part = "once" => StartedOnce
           Step == part = "once" => /\ Once!ResumeKeeps
                                    /\ (Once!HandoffResumes /\ Once!CertificateIsKept)'
<1>1. Init => Invariant
  BY OnceStart
<1>2. Invariant /\ [Next]_vars => Invariant' /\ [Step]_sessionVars
  <2> SUFFICES ASSUME Invariant, [Next]_vars PROVE Invariant' /\ [Step]_sessionVars
    OBVIOUS
  <2>1. part' = part /\ (part = "once" => [Once!SessionNext]_sessionVars)
    BY OnePartMoves
  <2>2. CASE part = "once"
    <3>1. StartedOnce' /\ [Once!ResumeKeeps]_sessionVars
      BY <2>1, <2>2, OnceStep
    <3>2. (Once!HandoffResumes /\ Once!CertificateIsKept)'
      BY <3>1, OnceKeeps, PTL
    <3> QED
      BY <2>1, <2>2, <3>1, <3>2
  <2> QED
    BY <2>1, <2>2
<1> QED
  BY <1>1, <1>2, PTL DEF Spec, CheckpointsResume

-----------------------------------------------------------------------------
(* What the components promise, side by side.                              *)

\* Whichever component moves: the engine's tools, the search and every session stay
\* sound, and what propagation finds is entailed, what it leaves equivalent.
THEOREM BenchStaysSound ==
  Spec => [](/\ ToolsAreSound /\ SearchIsSound /\ SessionIsSound
             /\ FactsAreEntailed /\ ResidualIsEquivalent)
<1>1. [Next]_vars => part' = part /\ (part = "once" => [Once!SessionNext]_sessionVars)
  BY OnePartMoves
<1>2. (part = "once" => StartedOnce) /\ [Next]_vars => (part = "once" => StartedOnce)'
  <2> SUFFICES ASSUME part = "once" => StartedOnce, [Next]_vars, part' = "once" PROVE StartedOnce'
    OBVIOUS
  <2> QED
    BY <1>1, OnceStep
<1>3. BenchInv /\ (part = "once" => StartedOnce) =>
        /\ ToolsAreSound /\ SearchIsSound /\ SessionIsSound
        /\ FactsAreEntailed /\ ResidualIsEquivalent
  BY SupervisedHolds, SearchHolds, SessionHolds, OnceKeeps, ResidualHolds DEF BenchInv, Inv
<1> QED
  BY BenchInvariance, OnceStart, <1>2, <1>3, PTL DEF Spec

\* Beside the tools, which move the engine without the supervisor, a remote model is
\* asked only after a plateau of its own, and Terra only after Luna.
THEOREM BenchRepairIsEarned == Spec => RemoteRepairIsEarned
<1>1. BenchInv /\ [Next]_vars => [RepairAfterFreshPlateau /\ TerraFollowsLuna']_controllerVars
  <2> SUFFICES ASSUME BenchInv, [Next]_vars
               PROVE  [RepairAfterFreshPlateau /\ TerraFollowsLuna']_controllerVars
    OBVIOUS
  <2>1. CASE [ControllerNext]_controllerVars
    BY <2>1, RepairStep DEF BenchInv
  <2>2. CASE ToolNext /\ UNCHANGED supervisorVars
    BY <2>2 DEF BenchInv, SupervisorInv, supervisorVars, RepairAfterFreshPlateau, TerraFollowsLuna
  <2> QED
    BY <2>1, <2>2, OnePartMoves
<1> QED
  BY BenchInvariance, <1>1, PTL DEF Spec, RemoteRepairIsEarned
=============================================================================
