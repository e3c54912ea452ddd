--------------------------- MODULE FiniteModel_proofs ---------------------------
(***************************************************************************)
(* Proofs about FiniteModel and FiniteEncoding, for any number of          *)
(* variables and any models.                                               *)
(***************************************************************************)
EXTENDS FiniteEncoding, FiniteSetTheorems, TLAPS

-----------------------------------------------------------------------------
(***************************************************************************)
(* FiniteModel.  Propagation derives only consequences of the model, all   *)
(* that its constraints force one by one, and never both values of a       *)
(* variable; the residual model is equivalent to the model.                *)
(***************************************************************************)

LEMMA LiteralNegation ==
  ASSUME NEW A \in SUBSET Variable, NEW x \in Literal
  PROVE  /\ -x \in Literal /\ -(-x) = x /\ x # -x
         /\ Holds(A, -x) <=> ~ Holds(A, x)
<1>1. x \in Int /\ x # 0 /\ -N <= x /\ x <= N /\ N \in Nat
  BY ModelAssumption DEF Literal
<1>2. -x \in Literal /\ -(-x) = x /\ x # -x
  BY <1>1 DEF Literal
<1>3. CASE x > 0
  BY <1>1, <1>2, <1>3 DEF Holds
<1>4. CASE ~ x > 0
  BY <1>1, <1>2, <1>4 DEF Holds
<1> QED
  BY <1>2, <1>3, <1>4

LEMMA LiteralsAreFinite ==
  ASSUME NEW S \in SUBSET Literal
  PROVE  IsFiniteSet(S) /\ Cardinality(S) \in Nat
<1>1. N \in Int /\ -N \in Int
  BY ModelAssumption
<1>2. IsFiniteSet(-N..N)
  BY <1>1, FS_Interval
<1>3. S \subseteq -N..N
  BY DEF Literal
<1> QED
  BY <1>2, <1>3, FS_Subset, FS_CardinalityType

LEMMA ForcedAreLive ==
  ASSUME NEW F \in SUBSET Literal, NEW c \in Constraint, NEW y \in Forced(F, c)
  PROVE  /\ y \in Literal /\ y \notin F /\ -y \notin F
         /\ -y \notin Forced(F, c)
<1> DEFINE live == Live(F, c.lits)
<1>1. c.lits \subseteq Literal /\ c.kind \in {"clause", "at_most", "at_least"}
  BY DEF Constraint
<1>2. \A x \in live : x \in Literal /\ x \in c.lits /\ x \notin F /\ -x \notin F
  BY <1>1 DEF Live
<1>3. \A x \in Literal : -x \in Literal /\ -(-x) = x /\ x # -x
  BY LiteralNegation, {} \in SUBSET Variable
<1>4. CASE c.kind = "clause"
  <2>1. IsUnit(F, c) /\ Forced(F, c) = live /\ Cardinality(live) = 1
    BY <1>4 DEF Forced, IsUnit, IsFull, IsTight
  <2>2. live \subseteq Literal
    BY <1>2
  <2>3. PICK x : live = {x}
    BY <2>1, <2>2, LiteralsAreFinite, FS_Singleton
  <2> QED
    BY <2>1, <2>3, <1>2, <1>3
<1>5. CASE c.kind = "at_most"
  <2>1. Forced(F, c) = {-x : x \in live}
    BY <1>5 DEF Forced, IsUnit, IsFull, IsTight
  <2>2. PICK x \in live : y = -x
    BY <2>1
  <2>3. y \in Literal /\ -y = x
    BY <2>2, <1>2, <1>3
  <2>4. -y \notin Forced(F, c)
    <3> SUFFICES ASSUME -y \in Forced(F, c) PROVE FALSE
      OBVIOUS
    <3>1. PICK z \in live : -y = -z
      BY <2>1
    <3>2. z = y
      BY <3>1, <2>3, <1>2 DEF Literal
    <3> QED
      BY <3>2, <2>2, <2>3, <1>2, <1>5 DEF Constraint
  <2> QED
    BY <2>2, <2>3, <2>4, <1>2
<1>6. CASE c.kind = "at_least"
  <2>1. Forced(F, c) = live
    BY <1>6 DEF Forced, IsUnit, IsFull, IsTight
  <2> QED
    BY <2>1, <1>2, <1>6 DEF Constraint
<1> QED
  BY <1>1, <1>4, <1>5, <1>6

\* What the values say about a constraint's literals under any assignment.
LEMMA KnownLiterals ==
  ASSUME NEW A \in SUBSET Variable, NEW F \in SUBSET Literal, NEW c \in Constraint,
         Agrees(A, F)
  PROVE  /\ c.lits \cap F \subseteq TrueIn(A, c.lits)
         /\ TrueIn(A, c.lits) = (c.lits \cap F) \cup TrueIn(A, Live(F, c.lits))
         /\ (c.lits \cap F) \cap Live(F, c.lits) = {}
<1>1. c.lits \subseteq Literal
  BY DEF Constraint
<1>2. \A x \in c.lits : x \in F => Holds(A, x)
  BY DEF Agrees
<1>3. \A x \in c.lits : -x \in F => ~ Holds(A, x)
  BY <1>1, LiteralNegation DEF Agrees
<1> QED
  BY <1>2, <1>3 DEF TrueIn, Live

LEMMA ForcedIsEntailed ==
  ASSUME NEW A \in SUBSET Variable, NEW F \in SUBSET Literal, NEW c \in Constraint,
         Agrees(A, F), Satisfies(A, c)
  PROVE  Agrees(A, Forced(F, c)) /\ ~ Contradicts(F, c)
<1> DEFINE live == Live(F, c.lits)
           true == TrueIn(A, c.lits)
           known == c.lits \cap F
<1>1. c.lits \subseteq Literal /\ c.kind \in {"clause", "at_most", "at_least"} /\ c.bound \in Int
  BY DEF Constraint
<1>2. /\ known \subseteq true /\ true = known \cup TrueIn(A, live) /\ known \cap live = {}
      /\ TrueIn(A, live) \subseteq live
  BY KnownLiterals DEF TrueIn
<1>3. live \subseteq Literal /\ true \subseteq Literal /\ known \subseteq Literal
  BY <1>1 DEF Live, TrueIn
<1>4. /\ IsFiniteSet(live) /\ IsFiniteSet(true) /\ IsFiniteSet(known)
      /\ Cardinality(live) \in Nat /\ Cardinality(true) \in Nat /\ Cardinality(known) \in Nat
  BY <1>3, LiteralsAreFinite
<1>5. \A x \in true : Holds(A, x)
  BY DEF TrueIn
<1>6. \A x \in c.lits : x \notin true => ~ Holds(A, x)
  BY DEF TrueIn
<1>7. CASE c.kind = "clause"
  <2>1. true # {}
    BY <1>7 DEF Satisfies
  <2>2. ~ Contradicts(F, c)
    BY <2>1, <1>2 DEF Contradicts
  <2>3. CASE known = {} /\ Cardinality(live) = 1
    <3>1. PICK x : live = {x}
      BY <2>3, <1>4, FS_Singleton
    <3>2. true = {x}
      BY <2>1, <2>3, <3>1, <1>2
    <3>3. Forced(F, c) = {x}
      BY <1>7, <2>3, <3>1 DEF Forced, IsUnit, IsFull, IsTight
    <3> QED
      BY <2>2, <3>2, <3>3, <1>5 DEF Agrees
  <2>4. CASE ~ (known = {} /\ Cardinality(live) = 1)
    BY <1>7, <2>2, <2>4 DEF Forced, IsUnit, IsFull, IsTight, Known, Agrees
  <2> QED
    BY <2>3, <2>4
<1>8. CASE c.kind = "at_most"
  <2>1. ~ Contradicts(F, c)
    BY <1>8 DEF Contradicts
  <2>2. CASE Cardinality(known) = c.bound
    <3>1. Cardinality(true) <= Cardinality(known)
      BY <1>8, <2>2 DEF Satisfies
    <3>2. Cardinality(known) <= Cardinality(true)
      BY <1>2, <1>4, FS_Subset
    <3>3. known = true
      BY <1>2, <1>4, <3>1, <3>2, FS_Subset
    <3>4. \A x \in live : ~ Holds(A, x)
      BY <3>3, <1>2, <1>6 DEF Live
    <3>5. \A x \in live : Holds(A, -x)
      BY <3>4, <1>3, LiteralNegation
    <3>6. Forced(F, c) = {-x : x \in live}
      BY <1>8, <2>2 DEF Forced, IsUnit, IsFull, IsTight, Known
    <3> QED
      BY <2>1, <3>5, <3>6 DEF Agrees
  <2>3. CASE Cardinality(known) # c.bound
    BY <1>8, <2>1, <2>3 DEF Forced, IsUnit, IsFull, IsTight, Known, Agrees
  <2> QED
    BY <2>2, <2>3
<1>9. CASE c.kind = "at_least"
  <2>1. ~ Contradicts(F, c)
    BY <1>9 DEF Contradicts
  <2>2. CASE Cardinality(known) + Cardinality(live) = c.bound
    <3>1. IsFiniteSet(known \cup live)
      BY <1>4, FS_Union
    <3>2. Cardinality(known \cup live) = c.bound
      <4>1. Cardinality(known \cup live)
              = Cardinality(known) + Cardinality(live) - Cardinality(known \cap live)
        BY <1>4, FS_Union
      <4>2. Cardinality(known \cap live) = 0
        BY <1>2, FS_EmptySet
      <4> QED
        BY <4>1, <4>2, <2>2, <1>4
    <3>3. true \subseteq known \cup live
      BY <1>2
    <3>4. Cardinality(true) >= c.bound
      BY <1>9 DEF Satisfies
    <3>5. Cardinality(true) <= Cardinality(known \cup live)
      BY <3>1, <3>3, FS_Subset
    <3>6. Cardinality(true) = Cardinality(known \cup live)
      BY <3>2, <3>4, <3>5, <1>1, <1>4
    <3>7. true = known \cup live
      BY <3>1, <3>3, <3>6, FS_Subset
    <3>8. Forced(F, c) = live
      BY <1>9, <2>2 DEF Forced, IsUnit, IsFull, IsTight, Known
    <3> QED
      BY <2>1, <3>7, <3>8, <1>5 DEF Agrees
  <2>3. CASE Cardinality(known) + Cardinality(live) # c.bound
    BY <1>9, <2>1, <2>3 DEF Forced, IsUnit, IsFull, IsTight, Known, Agrees
  <2> QED
    BY <2>2, <2>3
<1> QED
  BY <1>1, <1>7, <1>8, <1>9

-----------------------------------------------------------------------------
\* A constraint that is kept means the same as what is substituted for it.
LEMMA SubstitutedIsEquivalent ==
  ASSUME NEW A \in SUBSET Variable, NEW F \in SUBSET Literal, NEW c \in Constraint,
         Agrees(A, F), ~ IsDischarged(F, c), c.kind # "at_least"
  PROVE  Satisfies(A, Substituted(F, c)) <=> Satisfies(A, c)
<1> DEFINE live == Live(F, c.lits)
           known == c.lits \cap F
           d == Substituted(F, c)
<1>1. c.lits \subseteq Literal /\ c.kind \in {"clause", "at_most"} /\ c.bound \in Int
  BY DEF Constraint
<1>2. TrueIn(A, c.lits) = known \cup TrueIn(A, live) /\ known \cap TrueIn(A, live) = {}
  BY KnownLiterals DEF TrueIn
<1>3. known \subseteq Literal /\ TrueIn(A, live) \subseteq Literal
  BY <1>1 DEF TrueIn, Live
<1>4. /\ IsFiniteSet(known) /\ IsFiniteSet(TrueIn(A, live))
      /\ Cardinality(known) \in Nat /\ Cardinality(TrueIn(A, live)) \in Nat
  BY <1>3, LiteralsAreFinite
<1>5. /\ d.kind = c.kind /\ d.lits = live
      /\ d.bound = IF c.kind = "at_most" THEN c.bound - Cardinality(known) ELSE c.bound
  BY DEF Substituted, Constraint, Known
<1>6. CASE c.kind = "clause"
  <2>1. known = {}
    BY <1>6 DEF IsDischarged
  <2> QED
    BY <2>1, <1>2, <1>5, <1>6 DEF Satisfies
<1>7. CASE c.kind = "at_most"
  <2>1. Cardinality(TrueIn(A, c.lits)) = Cardinality(known) + Cardinality(TrueIn(A, live))
    <3>1. Cardinality(known \cup TrueIn(A, live))
            = Cardinality(known) + Cardinality(TrueIn(A, live))
                - Cardinality(known \cap TrueIn(A, live))
      BY <1>4, FS_Union
    <3>2. Cardinality(known \cap TrueIn(A, live)) = 0
      BY <1>2, FS_EmptySet
    <3> QED
      BY <3>1, <3>2, <1>2, <1>4
  <2>2. Satisfies(A, d) <=> Cardinality(TrueIn(A, live)) <= c.bound - Cardinality(known)
    BY <1>5, <1>7 DEF Satisfies
  <2>3. Satisfies(A, c) <=> Cardinality(TrueIn(A, c.lits)) <= c.bound
    BY <1>7 DEF Satisfies
  <2> QED
    BY <2>1, <2>2, <2>3, <1>1, <1>4
<1> QED
  BY <1>1, <1>6, <1>7

LEMMA SubstitutedIsConstraint ==
  ASSUME NEW F \in SUBSET Literal, NEW c \in Constraint
  PROVE  Substituted(F, c) \in Constraint
<1> DEFINE d == Substituted(F, c)
<1>1. /\ c \in [kind : {"clause", "at_most", "at_least"}, lits : SUBSET Literal, bound : Int]
      /\ c.kind # "clause" => \A x \in c.lits : -x \notin c.lits
  BY DEF Constraint
<1>2. c.lits \subseteq Literal /\ Live(F, c.lits) \subseteq c.lits
  BY <1>1 DEF Live
<1>3. Known(F, c) \in Nat
  <2>1. c.lits \cap F \in SUBSET Literal
    BY <1>2
  <2> QED
    BY <2>1, LiteralsAreFinite DEF Known
<1>4. /\ d \in [kind : {"clause", "at_most", "at_least"}, lits : SUBSET Literal, bound : Int]
      /\ d.kind = c.kind /\ d.lits = Live(F, c.lits)
  <2> DEFINE live == Live(F, c.lits)
             bound == IF c.kind = "at_most" THEN c.bound - Known(F, c) ELSE c.bound
  <2>1. bound \in Int /\ live \in SUBSET Literal
    BY <1>1, <1>2, <1>3
  <2>2. d = [c EXCEPT !.lits = live, !.bound = bound]
    BY DEF Substituted
  <2> HIDE DEF live, bound, d
  <2>3. d \in [kind : {"clause", "at_most", "at_least"}, lits : SUBSET Literal, bound : Int]
        /\ d.kind = c.kind /\ d.lits = live
    BY <1>1, <2>1, <2>2
  <2> QED
    BY <2>3 DEF live
<1>5. d.kind # "clause" => \A x \in d.lits : -x \notin d.lits
  BY <1>1, <1>2, <1>4
<1> QED
  BY <1>4, <1>5 DEF Constraint

LEMMA ResidualHasTheSolutions ==
  ASSUME NEW A \in SUBSET Variable, NEW F \in SUBSET Literal, NEW m \in Seq(Constraint),
         Agrees(A, F)
  PROVE  Solves(A, ConstraintsOf(m)) <=> Solves(A, Residual(F, m))
<1> DEFINE subst(c) == IF c.kind = "at_least" THEN c ELSE Substituted(F, c)
<1>1. \A c \in ConstraintsOf(m) : c \in Constraint
  BY DEF ConstraintsOf
<1>2. \A c \in ConstraintsOf(m) : IsDischarged(F, c) => Satisfies(A, c)
  <2> TAKE c \in ConstraintsOf(m)
  <2>1. c \in Constraint
    BY <1>1
  <2>2. HAVE IsDischarged(F, c)
  <2>3. c.lits \cap F \subseteq TrueIn(A, c.lits)
    BY <2>1, KnownLiterals
  <2> QED
    BY <2>2, <2>3 DEF IsDischarged, Satisfies
<1>3. \A c \in Kept(F, m) : Satisfies(A, subst(c)) <=> Satisfies(A, c)
  BY <1>1, SubstitutedIsEquivalent DEF Kept
<1>4. Residual(F, m) = {subst(c) : c \in Kept(F, m)}
  BY DEF Residual
<1>5. Solves(A, Residual(F, m)) <=> \A c \in Kept(F, m) : Satisfies(A, c)
  BY <1>3, <1>4 DEF Solves
<1> QED
  BY <1>2, <1>5 DEF Solves, Kept

-----------------------------------------------------------------------------
\* The inductive invariant: the parts that ModelSpec keeps without help.
Inv ==
  /\ ModelTypeOK
  /\ FactsAreFunctional
  /\ FactsAreEntailed
  /\ residual = IF phase = "done" THEN Residual(facts, model) ELSE {}

LEMMA InitInv == ModelInit => Inv
<1> SUFFICES ASSUME ModelInit PROVE Inv
  OBVIOUS
<1>1. model \in Seq(Constraint) /\ Len(model) \in Nat
  BY ModelAssumption DEF ModelInit
<1>2. ModelTypeOK
  <2>1. visit \in 1..Len(model) + 1
    BY <1>1 DEF ModelInit
  <2>2. changed \in BOOLEAN /\ contradiction \in BOOLEAN
    BY Zenon DEF ModelInit
  <2> QED
    BY <2>1, <2>2, Zenon DEF ModelInit, ModelTypeOK
<1>3. FactsAreFunctional /\ FactsAreEntailed
  BY DEF ModelInit, FactsAreFunctional, FactsAreEntailed, Agrees
<1> QED
  BY <1>2, <1>3 DEF ModelInit, Inv

LEMMA VisitInv == Inv /\ Visit => Inv'
<1> SUFFICES ASSUME Inv, Visit PROVE Inv'
  OBVIOUS
<1> DEFINE c == model[visit]
           new == Forced(facts, c)
<1>1. /\ model \in Seq(Constraint) /\ Len(model) \in Nat /\ facts \in SUBSET Literal
      /\ visit \in 1..Len(model) + 1
  BY ModelAssumption DEF Inv, ModelTypeOK
<1>2. visit \in DOMAIN model /\ c \in Constraint /\ c \in ConstraintsOf(model)
  BY <1>1 DEF Visit, ConstraintsOf
<1>3. facts' = facts \cup new /\ UNCHANGED <<model, phase, residual>>
      /\ phase = "propagate" /\ visit' = visit + 1 /\ visit <= Len(model)
      /\ contradiction' = (contradiction \/ Contradicts(facts, c))
  BY DEF Visit
<1>4. \A y \in new : /\ y \in Literal /\ y \notin facts /\ -y \notin facts
                     /\ -y \notin new
  BY <1>1, <1>2, ForcedAreLive
<1>5. ModelTypeOK'
  <2>1. facts' \subseteq Literal /\ visit' \in 1..Len(model') + 1
    BY <1>1, <1>3, <1>4
  <2>2. changed' \in BOOLEAN /\ contradiction' \in BOOLEAN
    BY DEF Inv, ModelTypeOK, Visit
  <2> QED
    BY <2>1, <2>2, <1>3 DEF Inv, ModelTypeOK
<1>6. FactsAreFunctional'
  <2> SUFFICES ASSUME NEW x \in facts \cup new PROVE -x \notin facts \cup new
    BY <1>3 DEF FactsAreFunctional
  <2>1. CASE x \in new
    BY <2>1, <1>4
  <2>2. CASE x \in facts
    <3>1. -x \notin facts
      BY <2>2 DEF Inv, FactsAreFunctional
    <3>2. -(-x) = x
      BY <2>2, <1>1 DEF Literal
    <3> QED
      BY <3>1, <3>2, <2>2, <1>4
  <2> QED
    BY <2>1, <2>2
<1>7. FactsAreEntailed'
  <2> SUFFICES ASSUME NEW A \in SUBSET Variable, Solves(A, ConstraintsOf(model))
               PROVE  Agrees(A, facts \cup new) /\ ~ contradiction'
    BY <1>3 DEF FactsAreEntailed
  <2>1. Agrees(A, facts) /\ ~ contradiction
    BY DEF Inv, FactsAreEntailed
  <2>2. Satisfies(A, c)
    BY <1>2 DEF Solves
  <2>3. Agrees(A, new) /\ ~ Contradicts(facts, c)
    BY <1>1, <1>2, <2>1, <2>2, ForcedIsEntailed
  <2> QED
    BY <2>1, <2>3, <1>3 DEF Agrees
<1> QED
  BY <1>3, <1>5, <1>6, <1>7 DEF Inv

LEMMA EndPassInv == Inv /\ EndPass => Inv'
<1> SUFFICES ASSUME Inv, EndPass PROVE Inv'
  OBVIOUS
<1>1. model \in Seq(Constraint) /\ Len(model) \in Nat
  BY ModelAssumption DEF Inv, ModelTypeOK
<1>2. UNCHANGED <<model, facts, contradiction, residual>> /\ changed' = FALSE
      /\ phase = "propagate" /\ phase' \in {"propagate", "substitute"}
      /\ visit' \in 1..Len(model) + 1
  BY <1>1 DEF EndPass, Inv, ModelTypeOK
<1>3. ModelTypeOK'
  BY <1>2 DEF Inv, ModelTypeOK
<1> QED
  BY <1>2, <1>3 DEF Inv, FactsAreFunctional, FactsAreEntailed

LEMMA SubstituteInv == Inv /\ Substitute => Inv'
<1> SUFFICES ASSUME Inv, Substitute PROVE Inv'
  OBVIOUS
<1>1. model \in Seq(Constraint) /\ facts \in SUBSET Literal
  BY ModelAssumption DEF Inv, ModelTypeOK
<1>2. Residual(facts, model) \subseteq Constraint
  <2>1. \A c \in Kept(facts, model) : c \in Constraint
    BY <1>1 DEF Kept, ConstraintsOf
  <2> QED
    BY <2>1, <1>1, SubstitutedIsConstraint DEF Residual
<1>3. UNCHANGED <<model, facts, visit, changed, contradiction>>
  BY DEF Substitute
<1>4. \/ phase' = "done" /\ residual' = Residual(facts, model)
      \/ phase' = "KeyError" /\ residual' = residual
  BY DEF Substitute
<1>5. ModelTypeOK'
  BY <1>2, <1>3, <1>4 DEF Inv, ModelTypeOK
<1>6. FactsAreFunctional' /\ FactsAreEntailed'
  BY <1>3 DEF Inv, FactsAreFunctional, FactsAreEntailed
<1>7. residual' = IF phase' = "done" THEN Residual(facts', model') ELSE {}
  BY <1>3, <1>4 DEF Substitute, Inv
<1> QED
  BY <1>5, <1>6, <1>7 DEF Inv

LEMMA InvStep == Inv /\ [ModelNext]_modelVars => Inv'
<1> SUFFICES ASSUME Inv, [ModelNext]_modelVars PROVE Inv'
  OBVIOUS
<1>1. CASE Visit
  BY <1>1, VisitInv
<1>2. CASE EndPass
  BY <1>2, EndPassInv
<1>3. CASE Substitute
  BY <1>3, SubstituteInv
<1>4. CASE UNCHANGED modelVars
  BY <1>4 DEF modelVars, Inv, ModelTypeOK, FactsAreFunctional, FactsAreEntailed
<1> QED
  BY <1>1, <1>2, <1>3, <1>4 DEF ModelNext

LEMMA InvIsInvariant == ModelSpec => []Inv
BY InvStep, InitInv, PTL DEF ModelSpec

\* propagate_constraints and residual_model keep the types of their data.
THEOREM ModelTypeCorrect == ModelSpec => []ModelTypeOK
<1>1. Inv => ModelTypeOK
  BY DEF Inv
<1> QED
  BY <1>1, InvIsInvariant, PTL

\* Whatever the model, propagation finds only values that all solutions have,
\* and reports a contradiction only where there are none.
THEOREM PropagationIsSound == ModelSpec => []FactsAreEntailed
<1>1. Inv => FactsAreEntailed
  BY DEF Inv
<1> QED
  BY <1>1, InvIsInvariant, PTL

\* No variable gets both values, in any order of constraints.
THEOREM ValuesAreFunctional == ModelSpec => []FactsAreFunctional
<1>1. Inv => FactsAreFunctional
  BY DEF Inv
<1> QED
  BY <1>1, InvIsInvariant, PTL

LEMMA ResidualHolds == Inv => ResidualIsEquivalent
<1> SUFFICES ASSUME Inv, phase = "done", NEW A \in SUBSET Variable, Agrees(A, facts)
             PROVE  Solves(A, ConstraintsOf(model)) <=> Solves(A, residual)
  BY DEF ResidualIsEquivalent
<1>1. model \in Seq(Constraint) /\ facts \in SUBSET Literal
  BY ModelAssumption DEF Inv, ModelTypeOK
<1>2. residual = Residual(facts, model)
  BY DEF Inv
<1> QED
  BY <1>1, <1>2, ResidualHasTheSolutions

\* The residual model has the solutions of the model where the values hold.
THEOREM ResidualIsSound == ModelSpec => []ResidualIsEquivalent
BY ResidualHolds, InvIsInvariant, PTL

-----------------------------------------------------------------------------
\* A pass that has found nothing so far has passed constraints that force nothing.
PassInv ==
  /\ phase = "propagate" /\ ~ changed => \A i \in 1..(visit - 1) : Forced(facts, model[i]) = {}
  /\ NothingIsMissed

LEMMA PassStep == Inv /\ PassInv /\ [ModelNext]_modelVars => PassInv'
<1> SUFFICES ASSUME Inv, PassInv, [ModelNext]_modelVars PROVE PassInv'
  OBVIOUS
<1>1. model \in Seq(Constraint) /\ Len(model) \in Nat /\ visit \in 1..Len(model) + 1
      /\ changed \in BOOLEAN
  BY ModelAssumption DEF Inv, ModelTypeOK
<1>2. CASE Visit
  <2>1. /\ phase = "propagate" /\ phase' = phase /\ model' = model /\ visit' = visit + 1
        /\ facts' = facts \cup Forced(facts, model[visit])
        /\ ~ changed' => ~ changed /\ Forced(facts, model[visit]) = {}
    BY <1>2 DEF Visit
  <2>2. ASSUME ~ changed', NEW i \in 1..(visit' - 1) PROVE Forced(facts', model'[i]) = {}
    <3>1. facts' = facts /\ ~ changed
      BY <2>1, <2>2
    <3>2. i = visit \/ i \in 1..(visit - 1)
      BY <1>1, <2>1
    <3> QED
      BY <2>1, <2>2, <3>1, <3>2 DEF PassInv
  <2> QED
    BY <2>1, <2>2 DEF PassInv, NothingIsMissed
<1>3. CASE EndPass
  <2>1. /\ phase = "propagate" /\ visit > Len(model) /\ UNCHANGED <<model, facts>>
        /\ \/ visit' = 1 /\ phase' = phase
           \/ ~ changed /\ phase' = "substitute"
    BY <1>3 DEF EndPass, Again
  <2>2. CASE visit' = 1 /\ phase' = phase
    BY <2>1, <2>2 DEF PassInv, NothingIsMissed
  <2>3. CASE ~ changed /\ phase' = "substitute"
    <3>1. visit - 1 = Len(model) /\ DOMAIN model = 1..Len(model)
      BY <1>1, <2>1
    <3>2. \A c \in ConstraintsOf(model) : Forced(facts, c) = {}
      BY <2>1, <2>3, <3>1 DEF PassInv, ConstraintsOf
    <3> QED
      BY <2>1, <2>3, <3>2 DEF PassInv, NothingIsMissed
  <2> QED
    BY <2>1, <2>2, <2>3
<1>4. CASE Substitute
  BY <1>4 DEF Substitute, PassInv, NothingIsMissed
<1>5. CASE UNCHANGED modelVars
  BY <1>5 DEF modelVars, PassInv, NothingIsMissed
<1> QED
  BY <1>2, <1>3, <1>4, <1>5 DEF ModelNext

\* Whatever the model and the order of its constraints: when propagation stops no
\* constraint forces a value that it has not found (propagate_constraints).
THEOREM PropagationIsComplete == ModelSpec => []NothingIsMissed
<1>1. ModelInit => PassInv
  BY DEF ModelInit, PassInv, NothingIsMissed
<1>2. PassInv => NothingIsMissed
  BY DEF PassInv
<1> QED
  BY <1>1, <1>2, PassStep, InvIsInvariant, PTL DEF ModelSpec

-----------------------------------------------------------------------------
(***************************************************************************)
(* FiniteEncoding.  The CNF of a model has exactly its solutions, the      *)
(* model of a basis problem exactly the bases, and the alternatives of the *)
(* trace hold of every basis.                                              *)
(***************************************************************************)

(* Lists.                                                                  *)

\* A set of naturals has a least member.
LEMMA LeastNumber ==
  ASSUME NEW T \in SUBSET Nat, T # {}
  PROVE  \E m \in T : \A k \in T : m <= k
<1> DEFINE R == OpToRel(<, Nat)
<1>1. IsWellFoundedOn(R, Nat)
  BY NatLessThanWellFounded
<1>2. PICK x \in T : \A y \in T : ~ (<<y, x>> \in R)
  BY <1>1, WFMin
<1>3. \A y \in T : ~ (y < x)
  BY <1>2 DEF OpToRel
<1> QED
  BY <1>3

\* The member that a list puts last, and the rest of the set.
TakenLast(s) == CHOOSE x \in s : TRUE
ListStep(S, f) == [s \in SUBSET S |-> IF s = {} THEN <<>> ELSE Append(f[s \ {TakenLast(s)}], TakenLast(s))]

LEMMA ListedIsTheFold ==
  ASSUME NEW S
  PROVE  Listed(S) = (CHOOSE f : f = ListStep(S, f))[S]
BY DEF Listed, FoldSet, MapThenFoldSet, ListStep, TakenLast

LEMMA LastIsTaken ==
  ASSUME NEW s, s # {}, IsFiniteSet(s)
  PROVE  /\ TakenLast(s) \in s /\ IsFiniteSet(s \ {TakenLast(s)})
         /\ Cardinality(s) \in Nat \ {0}
         /\ Cardinality(s \ {TakenLast(s)}) = Cardinality(s) - 1
<1>1. TakenLast(s) \in s
  BY DEF TakenLast
<1>2. Cardinality(s) \in Nat /\ Cardinality(s) # 0
  BY FS_CardinalityType, FS_EmptySet
<1> QED
  BY <1>1, <1>2, FS_RemoveElement

\* The subsets that the fold needs first are the smaller ones.
Smaller(S, n) == {s \in SUBSET S : Cardinality(s) <= n}
FoldsTo(S, n, g) ==
  g = [s \in Smaller(S, n) |-> IF s = {} THEN <<>> ELSE Append(g[s \ {TakenLast(s)}], TakenLast(s))]

LEMMA FoldGrows ==
  ASSUME NEW S, IsFiniteSet(S), NEW n \in Nat, NEW g, FoldsTo(S, n, g)
  PROVE  \E h : FoldsTo(S, n + 1, h)
<1> DEFINE h == [s \in Smaller(S, n + 1) |-> IF s = {} THEN <<>> ELSE Append(g[s \ {TakenLast(s)}], TakenLast(s))]
<1>1. \A s \in Smaller(S, n) : s \in Smaller(S, n + 1)
  <2> SUFFICES ASSUME NEW s \in Smaller(S, n) PROVE s \in Smaller(S, n + 1)
    OBVIOUS
  <2>1. s \in SUBSET S /\ Cardinality(s) \in Nat /\ Cardinality(s) <= n
    BY FS_Subset, FS_CardinalityType DEF Smaller
  <2> QED
    BY <2>1 DEF Smaller
<1>2. \A s \in Smaller(S, n) : h[s] = g[s]
  BY <1>1 DEF FoldsTo
<1>3. \A s \in Smaller(S, n + 1) : s # {} => s \ {TakenLast(s)} \in Smaller(S, n)
  <2> SUFFICES ASSUME NEW s \in Smaller(S, n + 1), s # {} PROVE s \ {TakenLast(s)} \in Smaller(S, n)
    OBVIOUS
  <2>1. s \in SUBSET S /\ IsFiniteSet(s) /\ Cardinality(s) <= n + 1
    BY FS_Subset DEF Smaller
  <2>2. Cardinality(s \ {TakenLast(s)}) = Cardinality(s) - 1 /\ Cardinality(s) \in Nat
    BY <2>1, LastIsTaken
  <2> QED
    BY <2>1, <2>2 DEF Smaller
<1>4. FoldsTo(S, n + 1, h)
  <2>1. \A s \in Smaller(S, n + 1) :
          s # {} => Append(g[s \ {TakenLast(s)}], TakenLast(s)) = Append(h[s \ {TakenLast(s)}], TakenLast(s))
    BY <1>2, <1>3
  <2>2. h = [s \in Smaller(S, n + 1) |-> IF s = {} THEN <<>> ELSE Append(h[s \ {TakenLast(s)}], TakenLast(s))]
    BY <2>1, Zenon
  <2> QED
    BY <2>2 DEF FoldsTo
<1> QED
  BY <1>4

LEMMA FoldExists ==
  ASSUME NEW S, IsFiniteSet(S)
  PROVE  \E f : f = ListStep(S, f)
<1> DEFINE T == {n \in Nat : ~ \E g : FoldsTo(S, n, g)}
<1>1. T = {}
  <2> SUFFICES ASSUME T # {} PROVE FALSE
    OBVIOUS
  <2>1. PICK n \in T : \A k \in T : n <= k
    BY LeastNumber
  <2>2. CASE n = 0
    <3> DEFINE g == [s \in Smaller(S, 0) |-> <<>>]
    <3>1. \A s \in Smaller(S, 0) : s = {}
      BY FS_Subset, FS_CardinalityType, FS_EmptySet DEF Smaller
    <3>2. FoldsTo(S, 0, g)
      BY <3>1 DEF FoldsTo
    <3> QED
      BY <2>2, <3>2
  <2>3. CASE n # 0
    <3>1. n - 1 \in Nat /\ n - 1 \notin T /\ (n - 1) + 1 = n
      BY <2>1, <2>3
    <3>2. PICK g : FoldsTo(S, n - 1, g)
      BY <3>1
    <3> HIDE DEF T
    <3>3. \E h : FoldsTo(S, n, h)
      BY <3>1, <3>2, FoldGrows
    <3> QED
      BY <3>3 DEF T
  <2> QED
    BY <2>2, <2>3
<1>2. Cardinality(S) \in Nat
  BY FS_CardinalityType
<1>3. PICK g : FoldsTo(S, Cardinality(S), g)
  BY <1>1, <1>2
<1>4. Smaller(S, Cardinality(S)) = SUBSET S
  BY FS_Subset DEF Smaller
<1> QED
  BY <1>3, <1>4 DEF FoldsTo, ListStep

\* A list of a set names each member once.
Lists(l, s) ==
  /\ l \in Seq(s) /\ Len(l) = Cardinality(s)
  /\ \A x \in s : \E i \in 1..Len(l) : l[i] = x
  /\ \A i, j \in 1..Len(l) : l[i] = l[j] => i = j

LEMMA AppendLists ==
  ASSUME NEW s, IsFiniteSet(s), NEW x \in s, NEW l, Lists(l, s \ {x})
  PROVE  Lists(Append(l, x), s)
<1> DEFINE t == Append(l, x)
<1>0. l \in Seq(s \ {x})
  BY DEF Lists
<1>1. l \in Seq(s \ {x}) /\ Len(l) \in Nat /\ \A i \in 1..Len(l) : l[i] \in s \ {x}
  BY <1>0
<1>2. l \in Seq(s)
  BY <1>1
<1>3. /\ t \in Seq(s) /\ Len(t) = Len(l) + 1 /\ t[Len(l) + 1] = x
      /\ \A i \in 1..Len(l) : t[i] = l[i]
  BY <1>1, <1>2
<1>4. Len(t) = Cardinality(s)
  <2>1. Cardinality(s \ {x}) = Cardinality(s) - 1 /\ Cardinality(s) \in Nat
    BY FS_RemoveElement, FS_CardinalityType
  <2> QED
    BY <1>3, <2>1 DEF Lists
<1>5. \A y \in s : \E i \in 1..Len(t) : t[i] = y
  <2> SUFFICES ASSUME NEW y \in s, y # x PROVE \E i \in 1..Len(t) : t[i] = y
    BY <1>1, <1>3
  <2>1. PICK i \in 1..Len(l) : l[i] = y
    BY DEF Lists
  <2> QED
    BY <1>1, <1>3, <2>1
<1>6. ASSUME NEW i \in 1..Len(t), NEW j \in 1..Len(t), t[i] = t[j] PROVE i = j
  <2>1. i \in 1..Len(l) \/ i = Len(l) + 1
    BY <1>1, <1>3
  <2>2. j \in 1..Len(l) \/ j = Len(l) + 1
    BY <1>1, <1>3
  <2>3. \A k \in 1..Len(l) : t[k] # x
    BY <1>1, <1>3
  <2> QED
    BY <1>3, <1>6, <2>1, <2>2, <2>3 DEF Lists
<1> HIDE DEF t
<1>7. Lists(t, s)
  BY <1>3, <1>4, <1>5, <1>6 DEF Lists
<1> QED
  BY <1>7 DEF t

LEMMA ListedLists ==
  ASSUME NEW S, IsFiniteSet(S)
  PROVE  Lists(Listed(S), S)
<1> DEFINE h == CHOOSE f : f = ListStep(S, f)
           T == {n \in Nat : \E s \in SUBSET S : Cardinality(s) = n /\ ~ Lists(h[s], s)}
<1>1. h = ListStep(S, h)
  BY FoldExists
<1>2. Listed(S) = h[S]
  BY ListedIsTheFold
<1> HIDE DEF h
<1>3. /\ h[{}] = <<>>
      /\ \A s \in SUBSET S : s # {} => h[s] = Append(h[s \ {TakenLast(s)}], TakenLast(s))
  BY <1>1 DEF ListStep
<1>4. T = {}
  <2> SUFFICES ASSUME T # {} PROVE FALSE
    OBVIOUS
  <2>1. PICK n \in T : \A k \in T : n <= k
    BY LeastNumber
  <2>2. PICK s \in SUBSET S : Cardinality(s) = n /\ ~ Lists(h[s], s)
    OBVIOUS
  <2>3. IsFiniteSet(s)
    BY FS_Subset
  <2>4. CASE s = {}
    <3>1. Lists(<<>>, {})
      BY FS_EmptySet DEF Lists
    <3> QED
      BY <1>3, <2>2, <2>4, <3>1
  <2>5. CASE s # {}
    <3> DEFINE x == TakenLast(s)
               r == s \ {x}
    <3>1. x \in s /\ r \in SUBSET S /\ n \in Nat \ {0} /\ Cardinality(r) = n - 1
      BY <2>2, <2>3, <2>5, LastIsTaken
    <3>2. n - 1 \notin T /\ n - 1 \in Nat
      BY <2>1, <3>1
    <3>3. Lists(h[r], r)
      BY <3>1, <3>2
    <3>4. Lists(Append(h[r], x), s)
      BY <2>3, <3>1, <3>3, AppendLists
    <3> QED
      BY <1>3, <2>2, <2>5, <3>4
  <2> QED
    BY <2>4, <2>5
<1>5. Lists(h[S], S)
  BY <1>4, FS_CardinalityType
<1> QED
  BY <1>2, <1>5

LEMMA ListedHasTheMembers ==
  ASSUME NEW S, IsFiniteSet(S)
  PROVE  Listed(S) \in Seq(S) /\ ConstraintsOf(Listed(S)) = S
BY ListedLists DEF Lists, ConstraintsOf

-----------------------------------------------------------------------------
(* The variables of the counters.                                          *)

LEMMA NumbersApart ==
  ASSUME NEW M \in Nat, NEW a \in Nat, NEW b \in Nat, NEW r \in Nat, NEW q \in Nat,
         r < M, q < M, a * M + r = b * M + q
  PROVE  a = b /\ r = q
<1>1. ASSUME NEW c \in Nat, NEW d \in Nat, c < d PROVE c * M + M <= d * M
  <2> DEFINE e == d - c - 1
  <2>1. e \in Nat /\ d = c + 1 + e
    BY <1>1
  <2>2. d * M = c * M + M + e * M
    BY <2>1
  <2>3. e * M \in Nat /\ c * M \in Nat
    BY <2>1
  <2> HIDE DEF e
  <2> QED
    BY <2>2, <2>3
<1>2. a * M \in Nat /\ b * M \in Nat
  OBVIOUS
<1>3. ~ (a < b)
  BY <1>1, <1>2
<1>4. ~ (b < a)
  BY <1>1, <1>2
<1>5. a = b
  BY <1>3, <1>4
<1> QED
  BY <1>2, <1>5

\* The inputs and the truths that a counter has a variable for.
Counted == 1..(N - 1)

LEMMA AuxFits ==
  ASSUME NEW i \in Counted, NEW j \in Counted
  PROVE  /\ i * (N + 1) + j \in Nat /\ i * (N + 1) + j < Stride /\ i * (N + 1) + j > 0
         /\ Stride \in Nat
<1>1. N \in Nat /\ i \in Nat /\ j \in Nat /\ i >= 1 /\ j >= 1 /\ i <= N - 1 /\ j <= N - 1
  BY ModelAssumption DEF Counted
<1> DEFINE d == N - 1 - i
<1>2. d \in Nat /\ N = i + 1 + d
  BY <1>1
<1>3. N * (N + 1) = i * (N + 1) + (N + 1) + d * (N + 1)
  BY <1>1, <1>2
<1>4. i * (N + 1) \in Nat /\ d * (N + 1) \in Nat /\ N * (N + 1) \in Nat
  BY <1>1, <1>2
<1> HIDE DEF d
<1> QED
  BY <1>1, <1>3, <1>4 DEF Stride

LEMMA AuxIsNew ==
  ASSUME NEW k \in Nat, NEW i \in Counted, NEW j \in Counted
  PROVE  Aux(k, i, j) \in Nat /\ Aux(k, i, j) > N
<1> DEFINE c == k * Stride
           r == i * (N + 1)
<1>1. c \in Nat /\ r \in Nat /\ N \in Nat /\ j \in Nat /\ j > 0
  <2>1. N \in Nat /\ i \in Nat /\ j \in Nat /\ j > 0
    BY ModelAssumption DEF Counted
  <2>2. Stride \in Nat
    BY AuxFits
  <2> QED
    BY <2>1, <2>2
<1>2. Aux(k, i, j) = N + c + r + j
  BY DEF Aux
<1> HIDE DEF c, r
<1> QED
  BY <1>1, <1>2

\* No two constraints, inputs or numbers of truths share a variable.
LEMMA AuxApart ==
  ASSUME NEW k \in Nat, NEW i \in Counted, NEW j \in Counted,
         NEW kk \in Nat, NEW ii \in Counted, NEW jj \in Counted,
         Aux(k, i, j) = Aux(kk, ii, jj)
  PROVE  k = kk /\ i = ii /\ j = jj
<1> DEFINE r == i * (N + 1) + j
           q == ii * (N + 1) + jj
<1>1. r \in Nat /\ q \in Nat /\ r < Stride /\ q < Stride /\ Stride \in Nat
  BY AuxFits
<1>2. k * Stride + r = kk * Stride + q
  <2>1. k * Stride \in Nat /\ kk * Stride \in Nat
    BY <1>1
  <2>2. i * (N + 1) \in Nat /\ ii * (N + 1) \in Nat /\ j \in Nat /\ jj \in Nat /\ N \in Nat
    BY ModelAssumption DEF Counted
  <2> QED
    BY <2>1, <2>2 DEF Aux
<1> HIDE DEF r, q
<1>3. k = kk /\ r = q
  BY <1>1, <1>2, NumbersApart
<1>4. i \in Nat /\ ii \in Nat /\ j \in Nat /\ jj \in Nat /\ N + 1 \in Nat /\ j < N + 1 /\ jj < N + 1
  BY ModelAssumption DEF Counted
<1>5. i * (N + 1) + j = ii * (N + 1) + jj
  BY <1>3 DEF r, q
<1> QED
  BY <1>3, <1>4, <1>5, NumbersApart

-----------------------------------------------------------------------------
(* How many of the first inputs are true.                                  *)

Count(A, x, i) == Cardinality({l \in 1..i : Holds(A, x[l])})

LEMMA CountSteps ==
  ASSUME NEW A, NEW x, NEW i \in Nat
  PROVE  /\ Count(A, x, i) \in Nat
         /\ Count(A, x, 0) = 0
         /\ Holds(A, x[i + 1]) => Count(A, x, i + 1) = Count(A, x, i) + 1
         /\ ~ Holds(A, x[i + 1]) => Count(A, x, i + 1) = Count(A, x, i)
<1> DEFINE S == {l \in 1..i : Holds(A, x[l])}
           T == {l \in 1..(i + 1) : Holds(A, x[l])}
<1>1. IsFiniteSet(S) /\ Cardinality(S) \in Nat
  <2>1. IsFiniteSet(1..i) /\ S \in SUBSET (1..i)
    BY FS_Interval
  <2> QED
    BY <2>1, FS_Subset, FS_CardinalityType
<1>2. Count(A, x, 0) = 0
  <2>1. {l \in 1..0 : Holds(A, x[l])} = {}
    OBVIOUS
  <2> QED
    BY <2>1, FS_EmptySet DEF Count
<1>3. CASE Holds(A, x[i + 1])
  <2>1. T = S \cup {i + 1} /\ i + 1 \notin S
    BY <1>3
  <2>2. Cardinality(T) = Cardinality(S) + 1
    BY <1>1, <2>1, FS_AddElement
  <2> QED
    BY <1>1, <1>2, <1>3, <2>2 DEF Count
<1>4. CASE ~ Holds(A, x[i + 1])
  <2>1. T = S
    BY <1>4
  <2> QED
    BY <1>1, <1>2, <1>4, <2>1 DEF Count
<1> QED
  BY <1>3, <1>4

LEMMA CountGrows ==
  ASSUME NEW A, NEW x, NEW i \in Nat, NEW j \in Nat, i <= j
  PROVE  Count(A, x, i) <= Count(A, x, j)
<1> DEFINE S == {l \in 1..i : Holds(A, x[l])}
           T == {l \in 1..j : Holds(A, x[l])}
<1>1. IsFiniteSet(T)
  <2>1. IsFiniteSet(1..j) /\ T \in SUBSET (1..j)
    BY FS_Interval
  <2> QED
    BY <2>1, FS_Subset
<1>2. S \in SUBSET T
  OBVIOUS
<1> QED
  BY <1>1, <1>2, FS_Subset DEF Count

\* All the inputs are the literals of the constraint.
LEMMA CountIsOfTheLiterals ==
  ASSUME NEW A, NEW S, IsFiniteSet(S), NEW x, Lists(x, S)
  PROVE  Count(A, x, Len(x)) = Cardinality(TrueIn(A, S))
<1> DEFINE I == {l \in 1..Len(x) : Holds(A, x[l])}
           T == TrueIn(A, S)
           f == [l \in I |-> x[l]]
<1>1. x \in Seq(S)
  BY DEF Lists
<1>2. Len(x) \in Nat /\ \A l \in 1..Len(x) : x[l] \in S
  BY <1>1
<1>3. IsFiniteSet(I)
  <2>1. IsFiniteSet(1..Len(x)) /\ I \in SUBSET (1..Len(x))
    BY <1>2, FS_Interval
  <2> QED
    BY <2>1, FS_Subset
<1>4. f \in [I -> T]
  BY <1>2 DEF TrueIn
<1>5. \A l, n \in I : f[l] = f[n] => l = n
  BY DEF Lists
<1>6. \A y \in T : \E l \in I : f[l] = y
  BY DEF Lists, TrueIn
<1>7. f \in Bijection(I, T)
  <2> HIDE DEF f, I, T
  <2> QED
    BY <1>4, <1>5, <1>6 DEF Bijection, Injection, Surjection, IsInjective
<1>8. Cardinality(T) = Cardinality(I)
  BY <1>3, <1>7, FS_Bijection DEF ExistsBijection
<1> QED
  BY <1>8 DEF Count

-----------------------------------------------------------------------------
(* A counter.  A is an assignment of the model's variables, B the counter  *)
(* variables that are true.                                                *)

NewVariables(B) == B \subseteq {v \in Nat : v > N}

LEMMA LiteralsKeepTheirValue ==
  ASSUME NEW A \in SUBSET Variable, NEW B, NewVariables(B), NEW x \in Literal
  PROVE  Holds(A \cup B, x) <=> Holds(A, x)
<1>1. x \in Int /\ x # 0 /\ -N <= x /\ x <= N /\ N \in Nat
  BY ModelAssumption DEF Literal
<1>2. x \notin B /\ -x \notin B
  BY <1>1 DEF NewVariables
<1> QED
  BY <1>1, <1>2 DEF Holds

LEMMA CounterVariables ==
  ASSUME NEW A \in SUBSET Variable, NEW B, NewVariables(B), NEW v \in Nat, v > N
  PROVE  /\ Holds(A \cup B, v) <=> v \in B
         /\ Holds(A \cup B, -v) <=> v \notin B
<1>1. v > 0 /\ ~ (-v > 0) /\ -(-v) = v /\ v \notin A
  BY ModelAssumption DEF Variable
<1> QED
  BY <1>1 DEF Holds

LEMMA PairIsTrue ==
  ASSUME NEW V, NEW x, NEW y
  PROVE  TrueIn(V, {x, y}) # {} <=> Holds(V, x) \/ Holds(V, y)
BY DEF TrueIn

LEMMA TripleIsTrue ==
  ASSUME NEW V, NEW x, NEW y, NEW z
  PROVE  TrueIn(V, {x, y, z}) # {} <=> Holds(V, x) \/ Holds(V, y) \/ Holds(V, z)
BY DEF TrueIn

\* What the clauses of a counter say.
CounterHolds(A, B, k, x, b) ==
  /\ Holds(A, x[1]) => Aux(k, 1, 1) \in B
  /\ ~ (Holds(A, x[Len(x)]) /\ Aux(k, Len(x) - 1, b) \in B)
  /\ \A i \in 2..(Len(x) - 1) :
       /\ Holds(A, x[i]) \/ Aux(k, i - 1, 1) \in B => Aux(k, i, 1) \in B
       /\ ~ (Holds(A, x[i]) /\ Aux(k, i - 1, b) \in B)
       /\ \A j \in 2..b :
            (Holds(A, x[i]) /\ Aux(k, i - 1, j - 1) \in B) \/ Aux(k, i - 1, j) \in B
              => Aux(k, i, j) \in B

LEMMA CounterSays ==
  ASSUME NEW A \in SUBSET Variable, NEW B, NewVariables(B), NEW k \in Nat,
         NEW x \in Seq(Literal), NEW b \in Nat, 0 < b, b < Len(x), Len(x) <= N
  PROVE  SolvesCnf(A \cup B, Counter(k, x, b)) <=> CounterHolds(A, B, k, x, b)
<1> DEFINE m == Len(x)
           V == A \cup B
           s(i, j) == Aux(k, i, j)
           first == {{-x[1], s(1, 1)}, {-x[m], -s(m - 1, b)}}
           begins(i) == {{-x[i], s(i, 1)}, {-s(i - 1, 1), s(i, 1)}, {-x[i], -s(i - 1, b)}}
           counts(i, j) == {{-x[i], -s(i - 1, j - 1), s(i, j)}, {-s(i - 1, j), s(i, j)}}
           Begins == UNION {begins(i) : i \in 2..(m - 1)}
           Counts == UNION {counts(i, j) : i \in 2..(m - 1), j \in 2..b}
<1>1. m \in Nat /\ N \in Nat /\ m >= 2 /\ b >= 1
  BY ModelAssumption
<1>2. \A i \in 1..m : x[i] \in Literal
  OBVIOUS
<1>3. \A i \in 1..m : Holds(V, -x[i]) <=> ~ Holds(A, x[i])
  BY <1>2, LiteralNegation, LiteralsKeepTheirValue
<1>4. \A i \in 1..(m - 1), j \in 1..b : i \in Counted /\ j \in Counted
  BY <1>1 DEF Counted
<1>5. \A i \in 1..(m - 1), j \in 1..b :
        /\ Holds(V, s(i, j)) <=> s(i, j) \in B
        /\ Holds(V, -s(i, j)) <=> s(i, j) \notin B
  BY <1>4, AuxIsNew, CounterVariables
<1>6. Counter(k, x, b) = first \cup Begins \cup Counts
  BY DEF Counter
<1>7. 1 \in 1..m /\ m \in 1..m /\ 1 \in 1..(m - 1) /\ m - 1 \in 1..(m - 1) /\ 1 \in 1..b /\ b \in 1..b
  BY <1>1
<1>8. \A i \in 2..(m - 1) : i \in 1..m /\ i \in 1..(m - 1) /\ i - 1 \in 1..(m - 1)
  BY <1>1
<1>9. \A j \in 2..b : j \in 1..b /\ j - 1 \in 1..b
  BY <1>1
<1>10. SolvesCnf(V, first) <=>
         /\ Holds(A, x[1]) => s(1, 1) \in B
         /\ ~ (Holds(A, x[m]) /\ s(m - 1, b) \in B)
  <2>1. SolvesCnf(V, first) <=> /\ Holds(V, -x[1]) \/ Holds(V, s(1, 1))
                                /\ Holds(V, -x[m]) \/ Holds(V, -s(m - 1, b))
    BY PairIsTrue DEF SolvesCnf
  <2> HIDE DEF first, s, m, V
  <2> QED
    BY <2>1, <1>3, <1>5, <1>7
<1>11. ASSUME NEW i \in 2..(m - 1)
       PROVE  SolvesCnf(V, begins(i)) <=>
                /\ Holds(A, x[i]) \/ s(i - 1, 1) \in B => s(i, 1) \in B
                /\ ~ (Holds(A, x[i]) /\ s(i - 1, b) \in B)
  <2>1. SolvesCnf(V, begins(i)) <=> /\ Holds(V, -x[i]) \/ Holds(V, s(i, 1))
                                    /\ Holds(V, -s(i - 1, 1)) \/ Holds(V, s(i, 1))
                                    /\ Holds(V, -x[i]) \/ Holds(V, -s(i - 1, b))
    BY PairIsTrue DEF SolvesCnf
  <2> HIDE DEF begins, s, m, V
  <2> QED
    BY <2>1, <1>3, <1>5, <1>7, <1>8, <1>11
<1>12. ASSUME NEW i \in 2..(m - 1), NEW j \in 2..b
       PROVE  SolvesCnf(V, counts(i, j)) <=>
                ((Holds(A, x[i]) /\ s(i - 1, j - 1) \in B) \/ s(i - 1, j) \in B => s(i, j) \in B)
  <2>1. SolvesCnf(V, counts(i, j)) <=>
          /\ Holds(V, -x[i]) \/ Holds(V, -s(i - 1, j - 1)) \/ Holds(V, s(i, j))
          /\ Holds(V, -s(i - 1, j)) \/ Holds(V, s(i, j))
    BY PairIsTrue, TripleIsTrue DEF SolvesCnf
  <2> HIDE DEF counts, s, m, V
  <2> QED
    BY <2>1, <1>3, <1>5, <1>8, <1>9, <1>12
<1>13. SolvesCnf(V, Counter(k, x, b)) <=>
         /\ SolvesCnf(V, first)
         /\ \A i \in 2..(m - 1) : SolvesCnf(V, begins(i))
         /\ \A i \in 2..(m - 1), j \in 2..b : SolvesCnf(V, counts(i, j))
  <2> HIDE DEF first, begins, counts, s, m, V
  <2>1. SolvesCnf(V, Begins) <=> \A i \in 2..(m - 1) : SolvesCnf(V, begins(i))
    BY Zenon DEF SolvesCnf
  <2>2. SolvesCnf(V, Counts) <=> \A i \in 2..(m - 1), j \in 2..b : SolvesCnf(V, counts(i, j))
    <3>1. \A c : c \in Counts <=> \E i \in 2..(m - 1), j \in 2..b : c \in counts(i, j)
      OBVIOUS
    <3> HIDE DEF Counts
    <3> QED
      BY <3>1, Zenon DEF SolvesCnf
  <2> HIDE DEF Begins, Counts
  <2>3. SolvesCnf(V, Counter(k, x, b)) <=> SolvesCnf(V, first) /\ SolvesCnf(V, Begins) /\ SolvesCnf(V, Counts)
    BY <1>6, Zenon DEF SolvesCnf
  <2> QED
    BY <2>1, <2>2, <2>3, Zenon
<1> HIDE DEF first, begins, counts, V
<1>14. CounterHolds(A, B, k, x, b) <=>
         /\ /\ Holds(A, x[1]) => s(1, 1) \in B
            /\ ~ (Holds(A, x[m]) /\ s(m - 1, b) \in B)
         /\ \A i \in 2..(m - 1) :
              /\ Holds(A, x[i]) \/ s(i - 1, 1) \in B => s(i, 1) \in B
              /\ ~ (Holds(A, x[i]) /\ s(i - 1, b) \in B)
         /\ \A i \in 2..(m - 1), j \in 2..b :
              ((Holds(A, x[i]) /\ s(i - 1, j - 1) \in B) \/ s(i - 1, j) \in B => s(i, j) \in B)
  BY DEF CounterHolds
<1> HIDE DEF s, m
<1> QED
  BY <1>10, <1>11, <1>12, <1>13, <1>14 DEF V

\* If the clauses hold, no more than b inputs are true: the variables count them.
LEMMA CounterIsSound ==
  ASSUME NEW A \in SUBSET Variable, NEW B, NEW k \in Nat, NEW x, Len(x) \in Nat,
         NEW b \in Nat, 0 < b, b < Len(x), CounterHolds(A, B, k, x, b)
  PROVE  Count(A, x, Len(x)) <= b
<1> DEFINE m == Len(x)
           Reaches(i) == \A j \in 1..b : Count(A, x, i) >= j => Aux(k, i, j) \in B
           Fits(i) == Count(A, x, i) <= b
           T == {i \in Nat : 1 <= i /\ i <= m - 1 /\ ~ (Reaches(i) /\ Fits(i))}
<1>1. m \in Nat /\ m >= 2 /\ m - 1 \in Nat
  OBVIOUS
<1>2. Reaches(1) /\ Fits(1)
  <2>1. Count(A, x, 0) = 0 /\ 0 + 1 = 1
    BY CountSteps
  <2>2. /\ Holds(A, x[1]) => Count(A, x, 1) = 1
        /\ ~ Holds(A, x[1]) => Count(A, x, 1) = 0
    BY <2>1, CountSteps, 0 \in Nat
  <2>3. Holds(A, x[1]) => Aux(k, 1, 1) \in B
    BY DEF CounterHolds
  <2>4. \A j \in 1..b : Count(A, x, 1) >= j => j = 1 /\ Holds(A, x[1])
    BY <2>2
  <2> QED
    BY <2>2, <2>3, <2>4
<1>3. T = {}
  <2> SUFFICES ASSUME T # {} PROVE FALSE
    OBVIOUS
  <2>1. PICK i \in T : \A l \in T : i <= l
    BY LeastNumber
  <2>2. i # 1
    BY <1>2, <2>1
  <2> DEFINE c == Count(A, x, i - 1)
             d == Count(A, x, i)
  <2>3. i - 1 \in Nat /\ i - 1 >= 1 /\ i - 1 <= m - 1 /\ i \in 2..(m - 1) /\ (i - 1) + 1 = i
    BY <1>1, <2>1, <2>2
  <2>4. Reaches(i - 1) /\ Fits(i - 1)
    <3>1. i - 1 \notin T
      BY <2>1, <2>3
    <3> QED
      BY <2>3, <3>1
  <2>5. /\ c \in Nat /\ d \in Nat
        /\ Holds(A, x[i]) => d = c + 1
        /\ ~ Holds(A, x[i]) => d = c
    BY <2>3, CountSteps
  <2>6. /\ Holds(A, x[i]) \/ Aux(k, i - 1, 1) \in B => Aux(k, i, 1) \in B
        /\ ~ (Holds(A, x[i]) /\ Aux(k, i - 1, b) \in B)
        /\ \A j \in 2..b :
             (Holds(A, x[i]) /\ Aux(k, i - 1, j - 1) \in B) \/ Aux(k, i - 1, j) \in B
               => Aux(k, i, j) \in B
    BY <2>3 DEF CounterHolds
  <2>7. Fits(i)
    <3>1. CASE Holds(A, x[i])
      <4>1. ~ c >= b
        BY <2>4, <2>6, <3>1
      <4> QED
        BY <2>5, <3>1, <4>1
    <3> QED
      BY <2>4, <2>5, <3>1
  <2>8. Reaches(i)
    <3> SUFFICES ASSUME NEW j \in 1..b, d >= j PROVE Aux(k, i, j) \in B
      OBVIOUS
    <3>1. CASE c >= j
      <4>1. Aux(k, i - 1, j) \in B
        BY <2>4, <3>1
      <4>2. j = 1 \/ j \in 2..b
        OBVIOUS
      <4> QED
        BY <2>6, <4>1, <4>2
    <3>2. CASE ~ c >= j
      <4>1. Holds(A, x[i]) /\ c >= j - 1
        BY <2>5, <3>2
      <4>2. CASE j = 1
        BY <2>6, <4>1, <4>2
      <4>3. CASE j # 1
        <5>1. j \in 2..b /\ j - 1 \in 1..b
          BY <4>3
        <5>2. Aux(k, i - 1, j - 1) \in B
          BY <2>4, <4>1, <5>1
        <5> QED
          BY <2>6, <4>1, <5>1, <5>2
      <4> QED
        BY <4>2, <4>3
    <3> QED
      BY <3>1, <3>2
  <2> QED
    BY <2>1, <2>7, <2>8
<1>4. Reaches(m - 1) /\ Fits(m - 1)
  BY <1>1, <1>3
<1>5. /\ Count(A, x, m - 1) \in Nat
      /\ Holds(A, x[m]) => Count(A, x, m) = Count(A, x, m - 1) + 1
      /\ ~ Holds(A, x[m]) => Count(A, x, m) = Count(A, x, m - 1)
  <2>1. (m - 1) + 1 = m
    BY <1>1
  <2> QED
    BY <1>1, <2>1, CountSteps
<1>6. Holds(A, x[m]) => ~ Count(A, x, m - 1) >= b
  <2>1. Count(A, x, m - 1) >= b => Aux(k, m - 1, b) \in B
    BY <1>4
  <2> QED
    BY <2>1 DEF CounterHolds
<1> QED
  BY <1>4, <1>5, <1>6

\* The variables that say how many inputs are true satisfy the clauses.
Counts(A, B, k, x) ==
  \A i \in Counted, j \in Counted : Aux(k, i, j) \in B <=> Count(A, x, i) >= j

LEMMA CounterIsComplete ==
  ASSUME NEW A \in SUBSET Variable, NEW B, NEW k \in Nat, NEW x, Len(x) \in Nat, Len(x) <= N,
         NEW b \in Nat, 0 < b, b < Len(x), Counts(A, B, k, x), Count(A, x, Len(x)) <= b
  PROVE  CounterHolds(A, B, k, x, b)
<1> DEFINE m == Len(x)
<1>1. m \in Nat /\ m >= 2 /\ m - 1 \in Nat /\ N \in Nat
  BY ModelAssumption
<1>2. \A i \in 1..(m - 1), j \in 1..b : Aux(k, i, j) \in B <=> Count(A, x, i) >= j
  BY <1>1 DEF Counts, Counted
<1>3. \A i \in 1..m :
        /\ Count(A, x, i) \in Nat /\ Count(A, x, i - 1) \in Nat
        /\ Count(A, x, i) <= b
        /\ Holds(A, x[i]) => Count(A, x, i) = Count(A, x, i - 1) + 1
        /\ ~ Holds(A, x[i]) => Count(A, x, i) = Count(A, x, i - 1)
  <2> TAKE i \in 1..m
  <2>1. i - 1 \in Nat /\ (i - 1) + 1 = i /\ i \in Nat /\ i <= m
    BY <1>1
  <2>2. Count(A, x, i) <= Count(A, x, m) /\ Count(A, x, i) \in Nat /\ Count(A, x, m) \in Nat
    BY <1>1, <2>1, CountGrows, CountSteps
  <2>3. /\ Count(A, x, i - 1) \in Nat
        /\ Holds(A, x[i]) => Count(A, x, i) = Count(A, x, i - 1) + 1
        /\ ~ Holds(A, x[i]) => Count(A, x, i) = Count(A, x, i - 1)
    BY <2>1, CountSteps
  <2> QED
    BY <2>2, <2>3
<1>4. Count(A, x, 0) = 0
  BY CountSteps, 0 \in Nat
<1>5. Holds(A, x[1]) => Aux(k, 1, 1) \in B
  <2>1. 1 \in 1..m /\ 1 \in 1..(m - 1) /\ 1 \in 1..b /\ 1 - 1 = 0
    BY <1>1
  <2> QED
    BY <1>2, <1>3, <1>4, <2>1
<1>6. ~ (Holds(A, x[m]) /\ Aux(k, m - 1, b) \in B)
  <2>1. m \in 1..m /\ m - 1 \in 1..(m - 1) /\ b \in 1..b
    BY <1>1
  <2> QED
    BY <1>2, <1>3, <2>1
<1>7. ASSUME NEW i \in 2..(m - 1)
      PROVE  /\ Holds(A, x[i]) \/ Aux(k, i - 1, 1) \in B => Aux(k, i, 1) \in B
             /\ ~ (Holds(A, x[i]) /\ Aux(k, i - 1, b) \in B)
  <2>1. i \in 1..m /\ i \in 1..(m - 1) /\ i - 1 \in 1..(m - 1) /\ 1 \in 1..b /\ b \in 1..b
    BY <1>1
  <2> QED
    BY <1>2, <1>3, <2>1
<1>8. ASSUME NEW i \in 2..(m - 1), NEW j \in 2..b
      PROVE  (Holds(A, x[i]) /\ Aux(k, i - 1, j - 1) \in B) \/ Aux(k, i - 1, j) \in B
               => Aux(k, i, j) \in B
  <2>1. i \in 1..m /\ i \in 1..(m - 1) /\ i - 1 \in 1..(m - 1) /\ j \in 1..b /\ j - 1 \in 1..b
    BY <1>1
  <2> QED
    BY <1>2, <1>3, <2>1
<1> QED
  BY <1>5, <1>6, <1>7, <1>8 DEF CounterHolds

-----------------------------------------------------------------------------
(* A constraint.                                                           *)

\* A cardinality names a variable once.
LEMMA LiteralsFit ==
  ASSUME NEW S \in SUBSET Literal, \A y \in S : -y \notin S
  PROVE  IsFiniteSet(S) /\ Cardinality(S) \in Nat /\ Cardinality(S) <= N
<1> DEFINE f == [y \in S |-> IF y > 0 THEN y ELSE -y]
<1>1. \A y \in S : y \in Int /\ y # 0 /\ -N <= y /\ y <= N /\ N \in Nat
  BY ModelAssumption DEF Literal
<1>2. f \in [S -> 1..N]
  BY <1>1
<1>3. ASSUME NEW y \in S, NEW z \in S, f[y] = f[z] PROVE y = z
  <2>1. y = z \/ y = -z
    BY <1>1, <1>3
  <2> QED
    BY <2>1
<1>4. f \in Injection(S, 1..N)
  <2> HIDE DEF f
  <2> QED
    BY <1>2, <1>3 DEF Injection, IsInjective
<1>5. IsFiniteSet(1..N) /\ Cardinality(1..N) = N
  <2>1. N \in Nat /\ 1 \in Int /\ N \in Int
    BY ModelAssumption
  <2>2. IsFiniteSet(1..N) /\ Cardinality(1..N) = IF 1 > N THEN 0 ELSE N - 1 + 1
    BY <2>1, FS_Interval
  <2> QED
    BY <2>1, <2>2
<1> HIDE DEF f
<1> QED
  BY <1>4, <1>5, FS_Injection, LiteralsAreFinite

LEMMA ListedLiterals ==
  ASSUME NEW S \in SUBSET Literal, NEW A
  PROVE  /\ Listed(S) \in Seq(Literal) /\ Len(Listed(S)) = Cardinality(S)
         /\ Count(A, Listed(S), Len(Listed(S))) = Cardinality(TrueIn(A, S))
<1>1. IsFiniteSet(S)
  BY LiteralsAreFinite
<1>2. Lists(Listed(S), S)
  BY <1>1, ListedLists
<1>3. Listed(S) \in Seq(S) /\ Len(Listed(S)) = Cardinality(S)
  BY <1>2 DEF Lists
<1>4. Listed(S) \in Seq(Literal)
  BY <1>3
<1> QED
  BY <1>1, <1>2, <1>3, <1>4, CountIsOfTheLiterals

LEMMA AtMostIsSound ==
  ASSUME NEW A \in SUBSET Variable, NEW B, NewVariables(B), NEW k \in Nat,
         NEW S \in SUBSET Literal, \A y \in S : -y \notin S, NEW b \in Int,
         SolvesCnf(A \cup B, AtMost(k, S, b))
  PROVE  Cardinality(TrueIn(A, S)) <= b
<1> DEFINE V == A \cup B
           x == Listed(S)
           T == TrueIn(A, S)
<1>1. /\ IsFiniteSet(S) /\ Cardinality(S) \in Nat /\ Cardinality(S) <= N
      /\ T \in SUBSET S
  BY LiteralsFit DEF TrueIn
<1>2. Cardinality(T) \in Nat /\ Cardinality(T) <= Cardinality(S)
  BY <1>1, FS_Subset, FS_CardinalityType
<1>3. CASE b < 0
  <2>1. AtMost(k, S, b) = {{}}
    BY <1>3 DEF AtMost
  <2>2. TrueIn(V, {}) = {}
    BY DEF TrueIn
  <2> QED
    BY <2>1, <2>2 DEF SolvesCnf
<1>4. CASE b >= Cardinality(S)
  BY <1>1, <1>2, <1>4
<1>5. CASE b = 0 /\ ~ b >= Cardinality(S)
  <2>1. AtMost(k, S, b) = {{-y} : y \in S}
    BY <1>5 DEF AtMost
  <2>2. \A y \in S : TrueIn(V, {-y}) # {}
    BY <2>1 DEF SolvesCnf
  <2>3. \A y \in S : Holds(V, -y)
    BY <2>2 DEF TrueIn
  <2>4. \A y \in S : ~ Holds(A, y)
    BY <2>3, LiteralNegation, LiteralsKeepTheirValue
  <2>5. T = {}
    BY <2>4 DEF TrueIn
  <2> QED
    BY <1>5, <2>5, FS_EmptySet
<1>6. CASE 0 < b /\ b < Cardinality(S)
  <2>1. AtMost(k, S, b) = Counter(k, x, b)
    BY <1>1, <1>6 DEF AtMost
  <2>2. x \in Seq(Literal) /\ Len(x) = Cardinality(S) /\ Count(A, x, Len(x)) = Cardinality(T)
    BY ListedLiterals
  <2> HIDE DEF x, T
  <2>3. b \in Nat /\ b < Len(x) /\ Len(x) <= N /\ Len(x) \in Nat
    BY <1>1, <1>6, <2>2
  <2>4. CounterHolds(A, B, k, x, b)
    BY <1>6, <2>1, <2>2, <2>3, CounterSays
  <2>5. Count(A, x, Len(x)) <= b
    BY <1>6, <2>3, <2>4, CounterIsSound
  <2> QED
    BY <2>2, <2>5 DEF T
<1> QED
  BY <1>1, <1>3, <1>4, <1>5, <1>6

LEMMA AtMostIsComplete ==
  ASSUME NEW A \in SUBSET Variable, NEW B, NewVariables(B), NEW k \in Nat,
         NEW S \in SUBSET Literal, \A y \in S : -y \notin S, NEW b \in Int,
         Counts(A, B, k, Listed(S)), Cardinality(TrueIn(A, S)) <= b
  PROVE  SolvesCnf(A \cup B, AtMost(k, S, b))
<1> DEFINE V == A \cup B
           x == Listed(S)
           T == TrueIn(A, S)
<1>1. /\ IsFiniteSet(S) /\ Cardinality(S) \in Nat /\ Cardinality(S) <= N
      /\ T \in SUBSET S
  BY LiteralsFit DEF TrueIn
<1>2. IsFiniteSet(T) /\ Cardinality(T) \in Nat
  BY <1>1, FS_Subset, FS_CardinalityType
<1>3. ~ b < 0
  BY <1>2
<1>4. CASE b >= Cardinality(S)
  BY <1>3, <1>4 DEF AtMost, SolvesCnf
<1>5. CASE b = 0 /\ ~ b >= Cardinality(S)
  <2>1. T = {}
    BY <1>2, <1>5, FS_EmptySet
  <2>2. \A y \in S : ~ Holds(A, y)
    BY <2>1 DEF TrueIn
  <2>3. \A y \in S : Holds(V, -y)
    BY <2>2, LiteralNegation, LiteralsKeepTheirValue
  <2>4. \A y \in S : TrueIn(V, {-y}) # {}
    BY <2>3 DEF TrueIn
  <2>5. AtMost(k, S, b) = {{-y} : y \in S}
    BY <1>5 DEF AtMost
  <2> QED
    BY <2>4, <2>5 DEF SolvesCnf
<1>6. CASE 0 < b /\ b < Cardinality(S)
  <2>1. AtMost(k, S, b) = Counter(k, x, b)
    BY <1>1, <1>6 DEF AtMost
  <2>2. x \in Seq(Literal) /\ Len(x) = Cardinality(S) /\ Count(A, x, Len(x)) = Cardinality(T)
    BY ListedLiterals
  <2>3. Counts(A, B, k, x) /\ Cardinality(T) <= b
    OBVIOUS
  <2> HIDE DEF x, T
  <2>4. b \in Nat /\ b < Len(x) /\ Len(x) <= N /\ Len(x) \in Nat
    BY <1>1, <1>6, <2>2
  <2>5. CounterHolds(A, B, k, x, b)
    BY <1>6, <2>2, <2>3, <2>4, CounterIsComplete
  <2> QED
    BY <1>6, <2>1, <2>2, <2>4, <2>5, CounterSays
<1> QED
  BY <1>1, <1>3, <1>4, <1>5, <1>6

\* The inputs of a constraint's counter.
Inputs(c) == IF c.kind = "at_least" THEN {-y : y \in c.lits} ELSE c.lits

LEMMA NegatedInputs ==
  ASSUME NEW A \in SUBSET Variable, NEW S \in SUBSET Literal, \A y \in S : -y \notin S
  PROVE  LET T == {-y : y \in S} IN
         /\ T \in SUBSET Literal /\ \A y \in T : -y \notin T
         /\ Cardinality(TrueIn(A, T)) = Cardinality(S) - Cardinality(TrueIn(A, S))
         /\ Cardinality(S) \in Nat /\ Cardinality(TrueIn(A, S)) \in Nat
<1> DEFINE T == {-y : y \in S}
           Off == S \ TrueIn(A, S)
           f == [y \in Off |-> -y]
<1>1. \A y \in S : y \in Int /\ -y \in Literal /\ -(-y) = y /\ (Holds(A, -y) <=> ~ Holds(A, y))
  BY LiteralNegation DEF Literal
<1>2. T \in SUBSET Literal
  BY <1>1
<1>3. \A y \in T : -y \notin T
  <2> SUFFICES ASSUME NEW y \in S, NEW z \in S, -(-y) = -z PROVE FALSE
    OBVIOUS
  <2> QED
    BY <1>1
<1>4. TrueIn(A, T) = {-y : y \in Off}
  BY <1>1 DEF TrueIn
<1>5. f \in Bijection(Off, TrueIn(A, T))
  <2>1. f \in [Off -> TrueIn(A, T)]
    BY <1>4
  <2>2. \A y, z \in Off : f[y] = f[z] => y = z
    BY <1>1
  <2>3. \A z \in TrueIn(A, T) : \E y \in Off : f[y] = z
    BY <1>4
  <2> HIDE DEF f, Off, T
  <2> QED
    BY <2>1, <2>2, <2>3 DEF Bijection, Injection, Surjection, IsInjective
<1>6. IsFiniteSet(S) /\ Cardinality(S) \in Nat
  BY LiteralsAreFinite
<1>7. Cardinality(Off) = Cardinality(S) - Cardinality(TrueIn(A, S)) /\ IsFiniteSet(Off)
  <2>1. S \cap TrueIn(A, S) = TrueIn(A, S)
    BY DEF TrueIn
  <2> QED
    BY <1>6, <2>1, FS_Difference
<1>8. Cardinality(TrueIn(A, T)) = Cardinality(Off)
  BY <1>5, <1>7, FS_Bijection DEF ExistsBijection
<1>9. Cardinality(TrueIn(A, S)) \in Nat
  <2>1. TrueIn(A, S) \in SUBSET Literal
    BY DEF TrueIn
  <2> QED
    BY <2>1, LiteralsAreFinite
<1> QED
  BY <1>2, <1>3, <1>6, <1>7, <1>8, <1>9

LEMMA ClausesAreSound ==
  ASSUME NEW A \in SUBSET Variable, NEW B, NewVariables(B), NEW k \in Nat, NEW c \in Constraint,
         SolvesCnf(A \cup B, Clauses(k, c))
  PROVE  Satisfies(A, c)
<1>1. /\ c.kind \in {"clause", "at_most", "at_least"} /\ c.lits \in SUBSET Literal /\ c.bound \in Int
      /\ c.kind # "clause" => \A y \in c.lits : -y \notin c.lits
  BY DEF Constraint
<1>2. CASE c.kind = "clause"
  <2>1. Clauses(k, c) = {c.lits}
    BY <1>2 DEF Clauses
  <2>2. TrueIn(A \cup B, c.lits) # {}
    BY <2>1 DEF SolvesCnf
  <2>3. TrueIn(A, c.lits) # {}
    BY <1>1, <2>2, LiteralsKeepTheirValue DEF TrueIn
  <2> QED
    BY <1>2, <2>3 DEF Satisfies
<1>3. CASE c.kind = "at_most"
  <2>1. Clauses(k, c) = AtMost(k, c.lits, c.bound)
    BY <1>3 DEF Clauses
  <2>2. Cardinality(TrueIn(A, c.lits)) <= c.bound
    BY <1>1, <1>3, <2>1, AtMostIsSound
  <2> QED
    BY <1>3, <2>2 DEF Satisfies
<1>4. CASE c.kind = "at_least"
  <2> DEFINE T == {-y : y \in c.lits}
  <2>1. Clauses(k, c) = AtMost(k, T, Cardinality(c.lits) - c.bound)
    BY <1>4 DEF Clauses
  <2>2. /\ T \in SUBSET Literal /\ \A y \in T : -y \notin T
        /\ Cardinality(TrueIn(A, T)) = Cardinality(c.lits) - Cardinality(TrueIn(A, c.lits))
        /\ Cardinality(c.lits) \in Nat /\ Cardinality(TrueIn(A, c.lits)) \in Nat
    BY <1>1, <1>4, NegatedInputs
  <2> HIDE DEF T
  <2>3. Cardinality(TrueIn(A, T)) <= Cardinality(c.lits) - c.bound
    BY <1>1, <2>1, <2>2, AtMostIsSound
  <2>4. Cardinality(TrueIn(A, c.lits)) >= c.bound
    BY <1>1, <2>2, <2>3
  <2> QED
    BY <1>4, <2>4 DEF Satisfies
<1> QED
  BY <1>1, <1>2, <1>3, <1>4

LEMMA ClausesAreComplete ==
  ASSUME NEW A \in SUBSET Variable, NEW B, NewVariables(B), NEW k \in Nat, NEW c \in Constraint,
         Counts(A, B, k, Listed(Inputs(c))), Satisfies(A, c)
  PROVE  SolvesCnf(A \cup B, Clauses(k, c))
<1>1. /\ c.kind \in {"clause", "at_most", "at_least"} /\ c.lits \in SUBSET Literal /\ c.bound \in Int
      /\ c.kind # "clause" => \A y \in c.lits : -y \notin c.lits
  BY DEF Constraint
<1>2. CASE c.kind = "clause"
  <2>1. TrueIn(A, c.lits) # {}
    BY <1>2 DEF Satisfies
  <2>2. TrueIn(A \cup B, c.lits) # {}
    BY <1>1, <2>1, LiteralsKeepTheirValue DEF TrueIn
  <2> QED
    BY <1>2, <2>2 DEF Clauses, SolvesCnf
<1>3. CASE c.kind = "at_most"
  <2>1. Clauses(k, c) = AtMost(k, c.lits, c.bound) /\ Inputs(c) = c.lits
    BY <1>3 DEF Clauses, Inputs
  <2>2. Cardinality(TrueIn(A, c.lits)) <= c.bound
    BY <1>3 DEF Satisfies
  <2>3. Counts(A, B, k, Listed(c.lits))
    BY <2>1
  <2> QED
    BY <1>1, <1>3, <2>1, <2>2, <2>3, AtMostIsComplete
<1>4. CASE c.kind = "at_least"
  <2> DEFINE T == {-y : y \in c.lits}
  <2>1. Clauses(k, c) = AtMost(k, T, Cardinality(c.lits) - c.bound) /\ Inputs(c) = T
    BY <1>4 DEF Clauses, Inputs
  <2>2. /\ T \in SUBSET Literal /\ \A y \in T : -y \notin T
        /\ Cardinality(TrueIn(A, T)) = Cardinality(c.lits) - Cardinality(TrueIn(A, c.lits))
        /\ Cardinality(c.lits) \in Nat /\ Cardinality(TrueIn(A, c.lits)) \in Nat
    BY <1>1, <1>4, NegatedInputs
  <2>3. Counts(A, B, k, Listed(T))
    BY <2>1
  <2> HIDE DEF T
  <2>4. Cardinality(TrueIn(A, c.lits)) >= c.bound
    BY <1>4 DEF Satisfies
  <2>5. Cardinality(TrueIn(A, T)) <= Cardinality(c.lits) - c.bound
    BY <1>1, <2>2, <2>4
  <2>6. Cardinality(c.lits) - c.bound \in Int
    BY <1>1, <2>2
  <2> QED
    BY <2>1, <2>2, <2>3, <2>5, <2>6, AtMostIsComplete
<1> QED
  BY <1>1, <1>2, <1>3, <1>4

-----------------------------------------------------------------------------
(* A model.                                                                *)

Integral(cnf) == \A clause \in cnf : clause \subseteq Int

\* A clause reads no other counter variables than those of the CNF.
LEMMA OnlyItsVariablesMatter ==
  ASSUME NEW A \in SUBSET Variable, NEW B, NewVariables(B), NEW cnf, Integral(cnf)
  PROVE  SolvesCnf(A \cup (B \cap AuxOf(cnf)), cnf) <=> SolvesCnf(A \cup B, cnf)
<1> DEFINE C == B \cap AuxOf(cnf)
           var(y) == IF y > 0 THEN y ELSE -y
<1>1. ASSUME NEW clause \in cnf, NEW y \in clause PROVE Holds(A \cup C, y) <=> Holds(A \cup B, y)
  <2>1. y \in Int /\ N \in Nat
    BY ModelAssumption DEF Integral
  <2>2. var(y) > N => var(y) \in AuxOf(cnf)
    <3>1. var(y) \in UNION {{var(z) : z \in d} : d \in cnf}
      OBVIOUS
    <3> QED
      BY <3>1 DEF AuxOf
  <2>3. var(y) \in B => var(y) > N
    BY DEF NewVariables
  <2>4. var(y) \in C <=> var(y) \in B
    BY <2>2, <2>3
  <2> HIDE DEF C
  <2>5. CASE y > 0
    BY <2>4, <2>5 DEF Holds
  <2>6. CASE ~ y > 0
    BY <2>4, <2>6 DEF Holds
  <2> QED
    BY <2>5, <2>6
<1>2. \A clause \in cnf : TrueIn(A \cup C, clause) = TrueIn(A \cup B, clause)
  BY <1>1 DEF TrueIn
<1> QED
  BY <1>2 DEF SolvesCnf

LEMMA CounterIsIntegral ==
  ASSUME NEW k \in Nat, NEW x \in Seq(Literal), NEW b \in Nat, 0 < b, b < Len(x)
  PROVE  Integral(Counter(k, x, b))
<1> DEFINE m == Len(x)
           s(i, j) == Aux(k, i, j)
           first == {{-x[1], s(1, 1)}, {-x[m], -s(m - 1, b)}}
           begins(i) == {{-x[i], s(i, 1)}, {-s(i - 1, 1), s(i, 1)}, {-x[i], -s(i - 1, b)}}
           counts(i, j) == {{-x[i], -s(i - 1, j - 1), s(i, j)}, {-s(i - 1, j), s(i, j)}}
<1>1. \A i \in Int, j \in Int : s(i, j) \in Int /\ -s(i, j) \in Int
  <2> TAKE i \in Int, j \in Int
  <2>1. N \in Int /\ Stride \in Int
    BY ModelAssumption DEF Stride
  <2>2. k * Stride \in Int /\ i * (N + 1) \in Int
    BY <2>1
  <2> QED
    BY <2>1, <2>2 DEF Aux
<1>2. m \in Nat /\ m >= 2 /\ \A i \in 1..m : -x[i] \in Int
  BY DEF Literal
<1>3. Counter(k, x, b)
        = first \cup (UNION {begins(i) : i \in 2..(m - 1)})
            \cup (UNION {counts(i, j) : i \in 2..(m - 1), j \in 2..b})
  BY DEF Counter
<1>4. 1 \in 1..m /\ m \in 1..m /\ m - 1 \in Int /\ b \in Int
      /\ (\A i \in 2..(m - 1) : i \in 1..m /\ i \in Int /\ i - 1 \in Int)
      /\ (\A j \in 2..b : j \in Int /\ j - 1 \in Int)
  BY <1>2
<1> HIDE DEF m, s
<1>5. \A clause \in first : clause \subseteq Int
  BY <1>1, <1>2, <1>4
<1>6. \A i \in 2..(m - 1) : \A clause \in begins(i) : clause \subseteq Int
  BY <1>1, <1>2, <1>4
<1>7. \A i \in 2..(m - 1), j \in 2..b : \A clause \in counts(i, j) : clause \subseteq Int
  BY <1>1, <1>2, <1>4
<1> HIDE DEF first, begins, counts
<1> QED
  BY <1>3, <1>5, <1>6, <1>7 DEF Integral

LEMMA AtMostIsIntegral ==
  ASSUME NEW k \in Nat, NEW S \in SUBSET Literal, NEW b \in Int
  PROVE  Integral(AtMost(k, S, b))
<1>1. \A y \in S : -y \in Int
  BY DEF Literal
<1>2. IsFiniteSet(S) /\ Cardinality(S) \in Nat
  BY LiteralsAreFinite
<1>3. CASE b < 0 \/ b >= Cardinality(S)
  BY <1>3 DEF AtMost, Integral
<1>4. CASE ~ b < 0 /\ ~ b >= Cardinality(S) /\ b = 0
  BY <1>1, <1>4 DEF AtMost, Integral
<1>5. CASE ~ b < 0 /\ ~ b >= Cardinality(S) /\ b # 0
  <2>1. AtMost(k, S, b) = Counter(k, Listed(S), b)
    BY <1>5 DEF AtMost
  <2>2. Listed(S) \in Seq(Literal) /\ Len(Listed(S)) = Cardinality(S)
    BY ListedLiterals
  <2>3. b \in Nat /\ 0 < b /\ b < Len(Listed(S))
    BY <1>2, <1>5, <2>2
  <2> QED
    BY <2>1, <2>2, <2>3, CounterIsIntegral
<1> QED
  BY <1>3, <1>4, <1>5

LEMMA CnfIsIntegral ==
  ASSUME NEW m \in Seq(Constraint)
  PROVE  Integral(Cnf(m))
<1>1. ASSUME NEW k \in DOMAIN m PROVE Integral(Clauses(k, m[k]))
  <2> DEFINE c == m[k]
  <2>1. k \in Nat /\ c \in Constraint
    OBVIOUS
  <2>2. /\ c.kind \in {"clause", "at_most", "at_least"} /\ c.lits \in SUBSET Literal /\ c.bound \in Int
        /\ c.kind # "clause" => \A y \in c.lits : -y \notin c.lits
    BY <2>1 DEF Constraint
  <2> HIDE DEF c
  <2>3. CASE c.kind = "clause"
    <3>1. Clauses(k, c) = {c.lits}
      BY <2>3 DEF Clauses
    <3> QED
      BY <2>2, <3>1 DEF Integral, Literal, c
  <2>4. CASE c.kind = "at_most"
    <3>1. Clauses(k, c) = AtMost(k, c.lits, c.bound)
      BY <2>4 DEF Clauses
    <3> QED
      BY <2>1, <2>2, <3>1, AtMostIsIntegral DEF c
  <2>5. CASE c.kind = "at_least"
    <3> DEFINE T == {-y : y \in c.lits}
    <3>1. Clauses(k, c) = AtMost(k, T, Cardinality(c.lits) - c.bound)
      BY <2>5 DEF Clauses
    <3>2. T \in SUBSET Literal /\ Cardinality(c.lits) \in Nat
      BY <2>2, <2>5, NegatedInputs, {} \in SUBSET Variable
    <3> HIDE DEF T
    <3>3. Cardinality(c.lits) - c.bound \in Int
      BY <2>2, <3>2
    <3> QED
      BY <2>1, <3>1, <3>2, <3>3, AtMostIsIntegral DEF c
  <2> QED
    BY <2>2, <2>3, <2>4, <2>5
<1> QED
  BY <1>1 DEF Integral, Cnf

LEMMA CnfIsOfTheConstraints ==
  ASSUME NEW V, NEW m
  PROVE  SolvesCnf(V, Cnf(m)) <=> \A k \in DOMAIN m : SolvesCnf(V, Clauses(k, m[k]))
BY Zenon DEF SolvesCnf, Cnf

\* The counters of one model, each with the truths that it counts.
LEMMA CountersExist ==
  ASSUME NEW A, NEW x, NEW K \in SUBSET Nat
  PROVE  \E B : NewVariables(B) /\ \A k \in K : Counts(A, B, k, x[k])
<1> DEFINE Has(v, k, i, j) == v = Aux(k, i, j) /\ Count(A, x[k], i) >= j
           B == {v \in Nat : v > N /\ \E k \in K : \E i, j \in Counted : Has(v, k, i, j)}
<1>1. NewVariables(B)
  BY DEF NewVariables
<1>2. ASSUME NEW k \in K, NEW i \in Counted, NEW j \in Counted
      PROVE  Aux(k, i, j) \in B <=> Count(A, x[k], i) >= j
  <2>1. Aux(k, i, j) \in Nat /\ Aux(k, i, j) > N
    BY AuxIsNew
  <2>2. ASSUME NEW l \in K, NEW ii \in Counted, NEW jj \in Counted, Aux(k, i, j) = Aux(l, ii, jj)
        PROVE  k = l /\ i = ii /\ j = jj
    BY <2>2, AuxApart
  <2>3. Aux(k, i, j) \in B => Count(A, x[k], i) >= j
    BY <2>2
  <2>4. Count(A, x[k], i) >= j => Aux(k, i, j) \in B
    BY <2>1
  <2> QED
    BY <2>3, <2>4
<1>3. \A k \in K : Counts(A, B, k, x[k])
  BY <1>2 DEF Counts
<1> HIDE DEF B
<1> QED
  BY <1>1, <1>3

\* The CNF of a model has the model's solutions.
LEMMA CnfIsExact ==
  ASSUME NEW m \in Seq(Constraint), NEW A \in SUBSET Variable
  PROVE  Solves(A, ConstraintsOf(m)) <=> \E B \in SUBSET AuxOf(Cnf(m)) : SolvesCnf(A \cup B, Cnf(m))
<1> DEFINE cnf == Cnf(m)
<1>1. Integral(cnf)
  BY CnfIsIntegral
<1>2. DOMAIN m \in SUBSET Nat /\ \A k \in DOMAIN m : m[k] \in Constraint
  OBVIOUS
<1> HIDE DEF cnf
<1>3. ASSUME NEW B \in SUBSET AuxOf(cnf), SolvesCnf(A \cup B, cnf) PROVE Solves(A, ConstraintsOf(m))
  <2>1. NewVariables(B)
    <3> SUFFICES ASSUME NEW v \in B PROVE v \in Nat /\ v > N
      BY DEF NewVariables
    <3>1. v > N /\ v \in UNION {{IF y > 0 THEN y ELSE -y : y \in clause} : clause \in cnf}
      BY DEF AuxOf
    <3>2. PICK clause \in cnf : \E y \in clause : v = IF y > 0 THEN y ELSE -y
      BY <3>1
    <3>3. v \in Int
      BY <1>1, <3>2 DEF Integral
    <3> QED
      BY <3>1, <3>3, ModelAssumption
  <2>2. \A k \in DOMAIN m : SolvesCnf(A \cup B, Clauses(k, m[k]))
    BY <1>3, CnfIsOfTheConstraints DEF cnf
  <2>3. \A k \in DOMAIN m : Satisfies(A, m[k])
    BY <1>2, <2>1, <2>2, ClausesAreSound
  <2> QED
    BY <2>3 DEF Solves, ConstraintsOf
<1>4. ASSUME Solves(A, ConstraintsOf(m)) PROVE \E B \in SUBSET AuxOf(cnf) : SolvesCnf(A \cup B, cnf)
  <2> DEFINE x == [k \in DOMAIN m |-> Listed(Inputs(m[k]))]
  <2>1. PICK B : NewVariables(B) /\ \A k \in DOMAIN m : Counts(A, B, k, x[k])
    BY <1>2, CountersExist
  <2>2. \A k \in DOMAIN m : Counts(A, B, k, Listed(Inputs(m[k])))
    BY <2>1
  <2>3. \A k \in DOMAIN m : Satisfies(A, m[k])
    BY <1>4 DEF Solves, ConstraintsOf
  <2>4. \A k \in DOMAIN m : SolvesCnf(A \cup B, Clauses(k, m[k]))
    BY <1>2, <2>1, <2>2, <2>3, ClausesAreComplete
  <2>5. SolvesCnf(A \cup B, cnf)
    BY <2>4, CnfIsOfTheConstraints DEF cnf
  <2>6. SolvesCnf(A \cup (B \cap AuxOf(cnf)), cnf)
    BY <1>1, <2>1, <2>5, OnlyItsVariablesMatter
  <2> QED
    BY <2>6
<1> QED
  BY <1>3, <1>4 DEF cnf

-----------------------------------------------------------------------------
(* dimacs_export, before and after propagation.                            *)

LEMMA ImagesAreFinite ==
  ASSUME NEW S, IsFiniteSet(S), NEW f, S \subseteq DOMAIN f
  PROVE  IsFiniteSet({f[x] : x \in S})
<1> DEFINE g == [x \in S |-> f[x]]
           T == {f[x] : x \in S}
<1>1. g \in Surjection(S, T)
  BY DEF Surjection
<1> QED
  BY <1>1, FS_Surjection

LEMMA ResidualIsFinite ==
  ASSUME NEW m \in Seq(Constraint), NEW F
  PROVE  IsFiniteSet(Residual(F, m))
<1> DEFINE f == [c \in Kept(F, m) |-> IF c.kind = "at_least" THEN c ELSE Substituted(F, c)]
<1>1. IsFiniteSet(DOMAIN m)
  BY FS_Interval
<1>2. IsFiniteSet(ConstraintsOf(m))
  BY <1>1, ImagesAreFinite DEF ConstraintsOf
<1>3. Kept(F, m) \in SUBSET ConstraintsOf(m)
  BY DEF Kept
<1>4. IsFiniteSet(Kept(F, m))
  BY <1>2, <1>3, FS_Subset
<1>5. IsFiniteSet({f[c] : c \in Kept(F, m)})
  BY <1>4, ImagesAreFinite
<1>6. Residual(F, m) = {f[c] : c \in Kept(F, m)}
  BY DEF Residual
<1> QED
  BY <1>5, <1>6

LEMMA ResidualIsAModel ==
  ASSUME Inv
  PROVE  Listed(residual) \in Seq(Constraint)
<1>1. model \in Seq(Constraint) /\ residual \in SUBSET Constraint
  BY ModelAssumption DEF Inv, ModelTypeOK
<1>2. IsFiniteSet(residual)
  <2>1. CASE phase = "done"
    BY <1>1, <2>1, ResidualIsFinite DEF Inv
  <2>2. CASE phase # "done"
    BY <2>2, FS_EmptySet DEF Inv
  <2> QED
    BY <2>1, <2>2
<1>3. Listed(residual) \in Seq(residual)
  BY <1>2, ListedHasTheMembers
<1> QED
  BY <1>1, <1>3

LEMMA EncodingHolds == Inv => EncodingIsExact
<1> SUFFICES ASSUME Inv, NEW m \in {model, Listed(residual)}, NEW A \in SUBSET Variable
             PROVE  Solves(A, ConstraintsOf(m)) <=>
                      \E B \in SUBSET AuxOf(Cnf(m)) : SolvesCnf(A \cup B, Cnf(m))
  BY DEF EncodingIsExact
<1>1. model \in Seq(Constraint)
  BY ModelAssumption DEF Inv, ModelTypeOK
<1>2. m \in Seq(Constraint)
  BY <1>1, ResidualIsAModel
<1> QED
  BY <1>2, CnfIsExact

\* Whatever the model: the CNF of dimacs_export, of the model and of its residual
\* model, has the solutions of what it was written from, if the counters take
\* suitable values, and no other solutions, whatever values they take.
THEOREM EncodingsAreExact == ModelSpec => []EncodingIsExact
BY EncodingHolds, InvIsInvariant, PTL

-----------------------------------------------------------------------------
(* additive_basis_model: its variables.                                    *)

LEMMA PairsOfTarget ==
  ASSUME NEW n \in Nat, NEW t \in 0..n, NEW p
  PROVE  p \in Pairs(t) <=> /\ p \in AllPairs(n) /\ p[1] = t
<1>1. ASSUME NEW u \in 0..n, NEW q \in Pairs(u) PROVE q[1] = u
  BY DEF Pairs
<1> QED
  BY <1>1 DEF AllPairs

LEMMA PairsAreOrdered ==
  ASSUME NEW n \in Nat, NEW p \in AllPairs(n)
  PROVE  /\ p = <<p[1], p[2]>> /\ p[1] \in 0..n /\ p[2] \in 0..n
         /\ 2 * p[2] < p[1] /\ p[1] - p[2] \in 0..n
<1>1. PICK t \in 0..n : p \in Pairs(t)
  BY DEF AllPairs
<1>2. PICK i \in 0..t : 2 * i < t /\ p = <<t, i>>
  BY <1>1 DEF Pairs
<1> QED
  BY <1>2

LEMMA SumsArePairs ==
  ASSUME NEW n \in Nat, NEW t \in 0..n, NEW i \in Nat, 2 * i < t
  PROVE  <<t, i>> \in Pairs(t)
BY DEF Pairs

\* The pairs that come before one.
Earlier(n, p) == {q \in AllPairs(n) : Before(q, p)}

LEMMA EarlierAreFinite ==
  ASSUME NEW n \in Nat, NEW p
  PROVE  /\ IsFiniteSet(AllPairs(n))
         /\ IsFiniteSet(Earlier(n, p)) /\ Cardinality(Earlier(n, p)) \in Nat
<1>1. IsFiniteSet((0..n) \X (0..n))
  <2>1. IsFiniteSet(0..n)
    BY FS_Interval
  <2> QED
    BY <2>1, FS_Product
<1>2. AllPairs(n) \in SUBSET ((0..n) \X (0..n))
  <2> SUFFICES ASSUME NEW q \in AllPairs(n) PROVE q \in (0..n) \X (0..n)
    OBVIOUS
  <2>1. q = <<q[1], q[2]>> /\ q[1] \in 0..n /\ q[2] \in 0..n
    BY PairsAreOrdered
  <2> QED
    BY <2>1, Zenon
<1>3. IsFiniteSet(AllPairs(n))
  BY <1>1, <1>2, FS_Subset
<1>4. Earlier(n, p) \in SUBSET AllPairs(n)
  BY DEF Earlier
<1> QED
  BY <1>3, <1>4, FS_Subset, FS_CardinalityType

LEMMA PairsAreNumberedInOrder ==
  ASSUME NEW n \in Nat, NEW p \in AllPairs(n), NEW q \in AllPairs(n), Before(p, q)
  PROVE  Cardinality(Earlier(n, p)) < Cardinality(Earlier(n, q))
<1>1. p \notin Earlier(n, p)
  BY PairsAreOrdered DEF Earlier, Before
<1>2. \A r \in AllPairs(n) : Before(r, p) => Before(r, q)
  <2> SUFFICES ASSUME NEW r \in AllPairs(n), Before(r, p) PROVE Before(r, q)
    OBVIOUS
  <2>1. r[1] \in Int /\ r[2] \in Int /\ p[1] \in Int /\ p[2] \in Int /\ q[1] \in Int /\ q[2] \in Int
    BY PairsAreOrdered
  <2> QED
    BY <2>1 DEF Before
<1>3. Earlier(n, p) \cup {p} \in SUBSET Earlier(n, q)
  BY <1>2 DEF Earlier
<1>4. Cardinality(Earlier(n, p) \cup {p}) = Cardinality(Earlier(n, p)) + 1
  BY <1>1, EarlierAreFinite, FS_AddElement
<1>5. Cardinality(Earlier(n, p) \cup {p}) <= Cardinality(Earlier(n, q))
  BY <1>3, EarlierAreFinite, FS_Subset
<1> QED
  BY <1>4, <1>5, EarlierAreFinite

\* Every pair has a variable of its own, beyond those of the elements.
LEMMA PairVariables ==
  ASSUME NEW n \in Nat, NEW p \in AllPairs(n)
  PROVE  /\ PairVariable(n, p) \in Nat /\ PairVariable(n, p) > n + 1
         /\ \A q \in AllPairs(n) : PairVariable(n, q) = PairVariable(n, p) => q = p
<1>1. \A q : PairVariable(n, q) = n + 2 + Cardinality(Earlier(n, q))
  BY DEF PairVariable, Earlier
<1>2. \A q : Cardinality(Earlier(n, q)) \in Nat
  BY EarlierAreFinite
<1>3. ASSUME NEW q \in AllPairs(n), q # p PROVE Cardinality(Earlier(n, q)) # Cardinality(Earlier(n, p))
  <2>1. Before(p, q) \/ Before(q, p)
    <3>1. p = <<p[1], p[2]>> /\ q = <<q[1], q[2]>>
          /\ p[1] \in Int /\ p[2] \in Int /\ q[1] \in Int /\ q[2] \in Int
      BY PairsAreOrdered
    <3>2. p[1] # q[1] \/ p[2] # q[2]
      BY <1>3, <3>1
    <3> QED
      BY <3>1, <3>2 DEF Before
  <2>2. Before(p, q) => Cardinality(Earlier(n, p)) < Cardinality(Earlier(n, q))
    BY PairsAreNumberedInOrder
  <2>3. Before(q, p) => Cardinality(Earlier(n, q)) < Cardinality(Earlier(n, p))
    BY PairsAreNumberedInOrder
  <2> QED
    BY <2>1, <2>2, <2>3, <1>2
<1> QED
  BY <1>1, <1>2, <1>3

-----------------------------------------------------------------------------
(* additive_basis_model: its constraints.                                  *)

BasisConstraints(n, forbidden, size) ==
  {Clause({-Element(i)}) : i \in forbidden}
    \cup (UNION {Definition(n, p) : p \in AllPairs(n)})
    \cup {Clause(Coverage(n, t)) : t \in 0..n}
    \cup {[kind |-> "at_most", lits |-> Element(0)..Element(n), bound |-> size]}

LEMMA BasisConstraintsAreFinite ==
  ASSUME NEW n \in Nat, NEW forbidden \in SUBSET (0..n), NEW size
  PROVE  /\ IsFiniteSet(BasisConstraints(n, forbidden, size))
         /\ ConstraintsOf(BasisModel(n, forbidden, size)) = BasisConstraints(n, forbidden, size)
<1> DEFINE S == BasisConstraints(n, forbidden, size)
           f == [i \in forbidden |-> Clause({-Element(i)})]
           d == [p \in AllPairs(n) |-> Definition(n, p)]
           g == [t \in 0..n |-> Clause(Coverage(n, t))]
           c == [kind |-> "at_most", lits |-> Element(0)..Element(n), bound |-> size]
<1>1. IsFiniteSet(0..n) /\ IsFiniteSet(forbidden) /\ IsFiniteSet(AllPairs(n))
  <2>1. IsFiniteSet(0..n)
    BY FS_Interval
  <2> QED
    BY <2>1, FS_Subset, EarlierAreFinite
<1>2. IsFiniteSet({f[i] : i \in forbidden}) /\ IsFiniteSet({g[t] : t \in 0..n})
  <2>1. forbidden \subseteq DOMAIN f /\ 0..n \subseteq DOMAIN g
    OBVIOUS
  <2> HIDE DEF f, g
  <2> QED
    BY <1>1, <2>1, ImagesAreFinite
<1>3. IsFiniteSet(UNION {d[p] : p \in AllPairs(n)})
  <2>1. IsFiniteSet({d[p] : p \in AllPairs(n)})
    BY <1>1, ImagesAreFinite
  <2>2. ASSUME NEW x, NEW y, NEW z PROVE IsFiniteSet({x, y, z})
    <3>1. IsFiniteSet({x} \cup {y})
      BY FS_Singleton, FS_AddElement
    <3>2. IsFiniteSet(({x} \cup {y}) \cup {z})
      BY <3>1, FS_AddElement
    <3>3. ({x} \cup {y}) \cup {z} = {x, y, z}
      OBVIOUS
    <3> QED
      BY <3>2, <3>3
  <2>3. \A T \in {d[p] : p \in AllPairs(n)} : IsFiniteSet(T)
    <3> SUFFICES ASSUME NEW p \in AllPairs(n) PROVE IsFiniteSet(Definition(n, p))
      OBVIOUS
    <3> QED
      BY <2>2, Zenon DEF Definition
  <2> HIDE DEF d
  <2> QED
    BY <2>1, <2>3, FS_UNION
<1>4. S = (({f[i] : i \in forbidden} \cup (UNION {d[p] : p \in AllPairs(n)}))
             \cup {g[t] : t \in 0..n}) \cup {c}
  <2>1. {f[i] : i \in forbidden} = {Clause({-Element(i)}) : i \in forbidden}
    OBVIOUS
  <2>2. {d[p] : p \in AllPairs(n)} = {Definition(n, p) : p \in AllPairs(n)}
    OBVIOUS
  <2>3. {g[t] : t \in 0..n} = {Clause(Coverage(n, t)) : t \in 0..n}
    OBVIOUS
  <2> HIDE DEF f, d, g
  <2> QED
    BY <2>1, <2>2, <2>3 DEF BasisConstraints
<1> HIDE DEF f, d, g, c
<1>5. IsFiniteSet(S)
  <2>1. IsFiniteSet({f[i] : i \in forbidden} \cup (UNION {d[p] : p \in AllPairs(n)}))
    BY <1>2, <1>3, FS_Union
  <2>2. IsFiniteSet(({f[i] : i \in forbidden} \cup (UNION {d[p] : p \in AllPairs(n)}))
                      \cup {g[t] : t \in 0..n})
    BY <1>2, <2>1, FS_Union
  <2> QED
    BY <1>4, <2>2, FS_AddElement
<1>6. BasisModel(n, forbidden, size) = Listed(S)
  BY DEF BasisModel, BasisConstraints
<1> QED
  BY <1>5, <1>6, ListedHasTheMembers

\* The elements that an assignment selects.
Selected(n, A) == {i \in 0..n : Element(i) \in A}

\* The four kinds of constraints, read as what they say of the selected elements.
LEMMA ForbiddenSays ==
  ASSUME NEW n \in Nat, NEW forbidden \in SUBSET (0..n), NEW A
  PROVE  (\A i \in forbidden : Satisfies(A, Clause({-Element(i)}))) <=> Selected(n, A) \cap forbidden = {}
<1>1. ASSUME NEW i \in forbidden
      PROVE  Satisfies(A, Clause({-Element(i)})) <=> i \notin Selected(n, A)
  <2>1. i \in 0..n /\ -Element(i) \in Int /\ ~ (-Element(i) > 0) /\ -(-Element(i)) = Element(i)
    BY DEF Element
  <2>2. Holds(A, -Element(i)) <=> Element(i) \notin A
    BY <2>1 DEF Holds
  <2>3. Satisfies(A, Clause({-Element(i)})) <=> Holds(A, -Element(i))
    BY DEF Satisfies, Clause, TrueIn
  <2> QED
    BY <2>1, <2>2, <2>3 DEF Selected
<1> QED
  BY <1>1

LEMMA SizeSays ==
  ASSUME NEW n \in Nat, NEW size \in Nat, NEW A
  PROVE  /\ Satisfies(A, [kind |-> "at_most", lits |-> Element(0)..Element(n), bound |-> size])
              <=> Cardinality(Selected(n, A)) <= size
<1> DEFINE S == Selected(n, A)
           T == TrueIn(A, Element(0)..Element(n))
           f == [i \in S |-> i + 1]
<1>1. T = {x \in 1..(n + 1) : x \in A}
  BY DEF TrueIn, Element, Holds
<1>2. S = {i \in 0..n : i + 1 \in A}
  BY DEF Selected, Element
<1>3. f \in Bijection(S, T)
  <2>1. f \in [S -> T]
    BY <1>1, <1>2
  <2>2. \A i, j \in S : f[i] = f[j] => i = j
    BY <1>2
  <2>3. \A x \in T : x - 1 \in S /\ f[x - 1] = x
    BY <1>1, <1>2
  <2> HIDE DEF f
  <2> QED
    BY <2>1, <2>2, <2>3, Zenon DEF Bijection, Injection, IsInjective, Surjection
<1>4. IsFiniteSet(S)
  <2>1. IsFiniteSet(0..n)
    BY FS_Interval
  <2> QED
    BY <1>2, <2>1, FS_Subset
<1>5. Cardinality(T) = Cardinality(S)
  BY <1>3, <1>4, FS_Bijection DEF ExistsBijection
<1> QED
  BY <1>5 DEF Satisfies

LEMMA DefinitionSays ==
  ASSUME NEW n \in Nat, NEW p \in AllPairs(n), NEW A
  PROVE  (\A c \in Definition(n, p) : Satisfies(A, c)) <=>
           (PairVariable(n, p) \in A <=> p[2] \in Selected(n, A) /\ p[1] - p[2] \in Selected(n, A))
<1> DEFINE v == PairVariable(n, p)  l == Element(p[2])  r == Element(p[1] - p[2])
<1>1. v \in Nat /\ v > 0 /\ p[2] \in 0..n /\ p[1] - p[2] \in 0..n
  BY PairVariables, PairsAreOrdered
<1>2. l \in Nat /\ l > 0 /\ r \in Nat /\ r > 0
  BY <1>1 DEF Element
<1>3. ASSUME NEW x \in Nat, x > 0
      PROVE  (Holds(A, x) <=> x \in A) /\ (Holds(A, -x) <=> x \notin A)
  <2>1. ~ (-x > 0) /\ -(-x) = x
    BY <1>3
  <2> QED
    BY <1>3, <2>1 DEF Holds
<1>4. /\ Satisfies(A, Clause({-v, l})) <=> Holds(A, -v) \/ Holds(A, l)
      /\ Satisfies(A, Clause({-v, r})) <=> Holds(A, -v) \/ Holds(A, r)
      /\ Satisfies(A, Clause({v, -l, -r})) <=> Holds(A, v) \/ Holds(A, -l) \/ Holds(A, -r)
  BY Zenon DEF Satisfies, Clause, TrueIn
<1>5. Definition(n, p) = {Clause({-v, l}), Clause({-v, r}), Clause({v, -l, -r})}
  BY DEF Definition
<1>6. (l \in A <=> p[2] \in Selected(n, A)) /\ (r \in A <=> p[1] - p[2] \in Selected(n, A))
  BY <1>1 DEF Selected
<1> HIDE DEF v, l, r
<1>7. (\A c \in Definition(n, p) : Satisfies(A, c)) <=>
        (v \notin A \/ l \in A) /\ (v \notin A \/ r \in A) /\ (v \in A \/ l \notin A \/ r \notin A)
  BY <1>1, <1>2, <1>3, <1>4, <1>5
<1> QED
  BY <1>6, <1>7 DEF v

LEMMA CoverageSays ==
  ASSUME NEW n \in Nat, NEW t \in 0..n, NEW A
  PROVE  Satisfies(A, Clause(Coverage(n, t))) <=>
           \/ \E p \in Pairs(t) : PairVariable(n, p) \in A
           \/ t % 2 = 0 /\ t \div 2 \in Selected(n, A)
<1>1. \A p \in Pairs(t) : PairVariable(n, p) \in Nat /\ PairVariable(n, p) > 0
  BY PairsOfTarget, PairVariables
<1>2. t % 2 = 0 => t \div 2 \in 0..n
  OBVIOUS
<1>3. \A x \in Coverage(n, t) : Holds(A, x) <=> x \in A
  <2>1. t % 2 = 0 => Element(t \div 2) > 0
    BY <1>2 DEF Element
  <2> QED
    BY <1>1, <2>1 DEF Coverage, Holds
<1>4. Satisfies(A, Clause(Coverage(n, t))) <=> \E x \in Coverage(n, t) : x \in A
  BY <1>3 DEF Satisfies, Clause, TrueIn
<1>5. (t % 2 = 0 /\ t \div 2 \in Selected(n, A)) <=> (t % 2 = 0 /\ Element(t \div 2) \in A)
  BY <1>2 DEF Selected
<1> QED
  BY <1>4, <1>5 DEF Coverage

\* A model of a basis problem, solved: its elements, its pairs and its coverage.
LEMMA BasisModelSays ==
  ASSUME NEW n \in Nat, NEW forbidden \in SUBSET (0..n), NEW size \in Nat, NEW A
  PROVE  Solves(A, BasisConstraints(n, forbidden, size)) <=>
           /\ Selected(n, A) \cap forbidden = {} /\ Cardinality(Selected(n, A)) <= size
           /\ \A p \in AllPairs(n) :
                PairVariable(n, p) \in A <=> p[2] \in Selected(n, A) /\ p[1] - p[2] \in Selected(n, A)
           /\ \A t \in 0..n : \/ \E p \in Pairs(t) : PairVariable(n, p) \in A
                              \/ t % 2 = 0 /\ t \div 2 \in Selected(n, A)
<1> DEFINE c == [kind |-> "at_most", lits |-> Element(0)..Element(n), bound |-> size]
<1>1. Solves(A, BasisConstraints(n, forbidden, size)) <=>
        /\ \A i \in forbidden : Satisfies(A, Clause({-Element(i)}))
        /\ \A p \in AllPairs(n) : \A d \in Definition(n, p) : Satisfies(A, d)
        /\ \A t \in 0..n : Satisfies(A, Clause(Coverage(n, t)))
        /\ Satisfies(A, c)
  BY Zenon DEF Solves, BasisConstraints
<1>2. Satisfies(A, c) <=> Cardinality(Selected(n, A)) <= size
  BY SizeSays
<1> HIDE DEF c
<1>3. (\A i \in forbidden : Satisfies(A, Clause({-Element(i)}))) <=> Selected(n, A) \cap forbidden = {}
  BY ForbiddenSays
<1>4. \A p \in AllPairs(n) : (\A d \in Definition(n, p) : Satisfies(A, d)) <=>
        (PairVariable(n, p) \in A <=> p[2] \in Selected(n, A) /\ p[1] - p[2] \in Selected(n, A))
  BY DefinitionSays
<1>5. \A t \in 0..n : Satisfies(A, Clause(Coverage(n, t))) <=>
        \/ \E p \in Pairs(t) : PairVariable(n, p) \in A
        \/ t % 2 = 0 /\ t \div 2 \in Selected(n, A)
  BY CoverageSays
<1> QED
  BY <1>1, <1>2, <1>3, <1>4, <1>5, Zenon

\* What a solution selects is a basis.
LEMMA SolutionsAreBases ==
  ASSUME NEW n \in Nat, NEW forbidden \in SUBSET (0..n), NEW size \in Nat, NEW A,
         Solves(A, BasisConstraints(n, forbidden, size))
  PROVE  Admissible(n, forbidden, size, Selected(n, A))
<1> DEFINE E == Selected(n, A)
<1>1. /\ E \cap forbidden = {} /\ Cardinality(E) <= size
      /\ \A p \in AllPairs(n) : PairVariable(n, p) \in A <=> p[2] \in E /\ p[1] - p[2] \in E
      /\ \A t \in 0..n : \/ \E p \in Pairs(t) : PairVariable(n, p) \in A
                         \/ t % 2 = 0 /\ t \div 2 \in E
  BY BasisModelSays
<1> HIDE DEF E
<1>2. ASSUME NEW t \in 0..n PROVE \E i, j \in E : i + j = t
  <2>1. CASE \E p \in Pairs(t) : PairVariable(n, p) \in A
    <3>1. PICK p \in Pairs(t) : PairVariable(n, p) \in A
      BY <2>1
    <3>2. p \in AllPairs(n) /\ p[1] = t
      BY PairsOfTarget
    <3>3. p[2] \in E /\ t - p[2] \in E /\ p[2] \in Int
      BY <1>1, <3>1, <3>2, PairsAreOrdered
    <3>4. p[2] + (t - p[2]) = t
      BY <3>3
    <3> QED
      BY <3>3, <3>4
  <2>2. CASE t % 2 = 0 /\ t \div 2 \in E
    <3>1. t \div 2 + t \div 2 = t
      BY <2>2
    <3> QED
      BY <2>2, <3>1
  <2> QED
    BY <1>1, <2>1, <2>2
<1> QED
  BY <1>1, <1>2 DEF Admissible, E

\* The solution that a basis is read from.
SolutionOf(n, E) ==
  {Element(i) : i \in E}
    \cup {PairVariable(n, p) : p \in {q \in AllPairs(n) : q[2] \in E /\ q[1] - q[2] \in E}}

LEMMA SolutionSelects ==
  ASSUME NEW n \in Nat, NEW E \in SUBSET (0..n)
  PROVE  /\ Selected(n, SolutionOf(n, E)) = E
         /\ \A p \in AllPairs(n) :
              PairVariable(n, p) \in SolutionOf(n, E) <=> p[2] \in E /\ p[1] - p[2] \in E
<1>1. \A p \in AllPairs(n) : /\ PairVariable(n, p) \in Nat /\ PairVariable(n, p) > n + 1
                             /\ \A q \in AllPairs(n) : PairVariable(n, q) = PairVariable(n, p) => q = p
  BY PairVariables
<1>2. ASSUME NEW i \in 0..n PROVE Element(i) \in SolutionOf(n, E) <=> i \in E
  <2>1. Element(i) \in Nat /\ Element(i) <= n + 1
    BY DEF Element
  <2>2. \A p \in AllPairs(n) : PairVariable(n, p) # Element(i)
    BY <1>1, <2>1
  <2>3. \A j \in E : Element(j) = Element(i) => j = i
    BY DEF Element
  <2> QED
    BY <2>2, <2>3, Zenon DEF SolutionOf
<1>3. ASSUME NEW p \in AllPairs(n)
      PROVE  PairVariable(n, p) \in SolutionOf(n, E) <=> p[2] \in E /\ p[1] - p[2] \in E
  <2>1. \A i \in E : Element(i) # PairVariable(n, p)
    BY <1>1 DEF Element
  <2>2. \A q \in AllPairs(n) : PairVariable(n, q) = PairVariable(n, p) => q = p
    BY <1>1
  <2> QED
    BY <2>1, <2>2, Zenon DEF SolutionOf
<1>4. Selected(n, SolutionOf(n, E)) = E
  BY <1>2 DEF Selected
<1> QED
  BY <1>3, <1>4

\* Every basis is what a solution selects.
LEMMA BasesAreSolutions ==
  ASSUME NEW n \in Nat, NEW forbidden \in SUBSET (0..n), NEW size \in Nat, NEW E \in SUBSET (0..n),
         Admissible(n, forbidden, size, E)
  PROVE  Solves(SolutionOf(n, E), BasisConstraints(n, forbidden, size))
<1> DEFINE A == SolutionOf(n, E)
<1>1. /\ Selected(n, A) = E
      /\ \A p \in AllPairs(n) : PairVariable(n, p) \in A <=> p[2] \in E /\ p[1] - p[2] \in E
  BY SolutionSelects
<1>2. ASSUME NEW t \in 0..n
      PROVE  \/ \E p \in Pairs(t) : PairVariable(n, p) \in A
             \/ t % 2 = 0 /\ t \div 2 \in E
  <2> HIDE DEF A
  <2>1. ASSUME NEW i \in E, NEW j \in E, i + j = t, i < j
        PROVE  \E p \in Pairs(t) : PairVariable(n, p) \in A
    <3>1. i \in Nat /\ 2 * i < t /\ t - i = j
      BY <2>1
    <3>2. <<t, i>> \in Pairs(t)
      BY <3>1, SumsArePairs
    <3>3. <<t, i>> \in AllPairs(n)
      BY <3>2, PairsOfTarget
    <3>4. PairVariable(n, <<t, i>>) \in A
      BY <1>1, <3>1, <3>3
    <3> QED
      BY <3>2, <3>4
  <2>2. PICK i \in E, j \in E : i + j = t
    BY DEF Admissible
  <2>3. i \in Int /\ j \in Int
    OBVIOUS
  <2>4. CASE i = j
    <3>1. t % 2 = 0 /\ t \div 2 = i
      BY <2>2, <2>3, <2>4
    <3> QED
      BY <3>1
  <2>5. CASE i < j
    BY <2>1, <2>2, <2>5
  <2>6. CASE j < i
    <3>1. j + i = t
      BY <2>2, <2>3
    <3> QED
      BY <2>1, <2>6, <3>1
  <2> QED
    BY <2>3, <2>4, <2>5, <2>6
<1>3. E \cap forbidden = {} /\ Cardinality(E) <= size
  BY DEF Admissible
<1> HIDE DEF A
<1>4. Solves(A, BasisConstraints(n, forbidden, size))
  BY <1>1, <1>2, <1>3, BasisModelSays
<1> QED
  BY <1>4 DEF A

LEMMA SolutionsFit ==
  ASSUME NEW n \in Nat, NEW forbidden \in SUBSET (0..n), NEW size, NEW E \in SUBSET (0..n),
         BasisConstraints(n, forbidden, size) \subseteq Constraint
  PROVE  SolutionOf(n, E) \in SUBSET Variable
<1>1. \A c \in Constraint : c.lits \subseteq Literal
  BY DEF Constraint
<1>2. \A x \in Literal : x > 0 => x \in Variable
  BY ModelAssumption DEF Literal, Variable
<1>3. ASSUME NEW i \in 0..n PROVE Element(i) \in Variable
  <2> DEFINE c == [kind |-> "at_most", lits |-> Element(0)..Element(n), bound |-> size]
  <2>1. c \in Constraint
    BY Zenon DEF BasisConstraints
  <2>2. Element(i) \in c.lits /\ Element(i) > 0
    BY DEF Element
  <2> QED
    BY <2>1, <2>2, <1>1, <1>2
<1>4. ASSUME NEW p \in AllPairs(n) PROVE PairVariable(n, p) \in Variable
  <2> DEFINE v == PairVariable(n, p)
             c == Clause({v, -Element(p[2]), -Element(p[1] - p[2])})
  <2>1. c \in Definition(n, p)
    BY Zenon DEF Definition
  <2>2. c \in Constraint
    BY <2>1, Zenon DEF BasisConstraints
  <2>3. v \in c.lits
    BY DEF Clause
  <2>4. v > 0
    BY PairVariables
  <2> HIDE DEF v, c
  <2>5. v \in Variable
    BY <2>2, <2>3, <2>4, <1>1, <1>2
  <2> QED
    BY <2>5 DEF v
<1> QED
  BY <1>3, <1>4, Zenon DEF SolutionOf

\* What the theorems below need of a problem and its model.
LEMMA BasisProblems ==
  ASSUME ModelTypeOK, NEW p \in BasisProblem, model = ModelOf[p]
  PROVE  /\ p.n \in Nat /\ p.forbidden \in SUBSET (0..p.n) /\ p.size \in Nat
         /\ ConstraintsOf(model) = BasisConstraints(p.n, p.forbidden, p.size)
         /\ BasisConstraints(p.n, p.forbidden, p.size) \subseteq Constraint
<1>1. p.n \in Nat /\ p.forbidden \in SUBSET (0..p.n) /\ p.size \in Nat
  BY EncodingAssumption DEF BasisProblem
<1>2. model = BasisModel(p.n, p.forbidden, p.size)
  BY DEF ModelOf
<1>3. ConstraintsOf(model) = BasisConstraints(p.n, p.forbidden, p.size)
  BY <1>1, <1>2, BasisConstraintsAreFinite
<1>4. model \in Seq(Constraint)
  BY ModelAssumption DEF ModelTypeOK
<1> QED
  BY <1>1, <1>3, <1>4 DEF ConstraintsOf

LEMMA BasisHolds == ModelTypeOK => BasisIsExact
<1> SUFFICES ASSUME ModelTypeOK, NEW p \in BasisProblem, phase = "done", model = ModelOf[p]
             PROVE  {{i \in 0..p.n : Element(i) \in A} :
                       A \in {B \in SUBSET (1..N) : Solves(B, ConstraintsOf(model))}}
                      = {E \in SUBSET (0..p.n) : Admissible(p.n, p.forbidden, p.size, E)}
  BY DEF BasisIsExact
<1>1. /\ p.n \in Nat /\ p.forbidden \in SUBSET (0..p.n) /\ p.size \in Nat
      /\ ConstraintsOf(model) = BasisConstraints(p.n, p.forbidden, p.size)
      /\ BasisConstraints(p.n, p.forbidden, p.size) \subseteq Constraint
  BY BasisProblems
<1>2. \A A : {i \in 0..p.n : Element(i) \in A} = Selected(p.n, A)
  BY DEF Selected
<1>3. ASSUME NEW A \in SUBSET (1..N), Solves(A, ConstraintsOf(model))
      PROVE  Selected(p.n, A) \in SUBSET (0..p.n)
             /\ Admissible(p.n, p.forbidden, p.size, Selected(p.n, A))
  BY <1>1, <1>3, SolutionsAreBases DEF Selected
<1>4. ASSUME NEW E \in SUBSET (0..p.n), Admissible(p.n, p.forbidden, p.size, E)
      PROVE  \E A \in SUBSET (1..N) : Solves(A, ConstraintsOf(model)) /\ E = Selected(p.n, A)
  <2>1. SolutionOf(p.n, E) \in SUBSET (1..N)
    BY <1>1, SolutionsFit DEF Variable
  <2>2. Solves(SolutionOf(p.n, E), ConstraintsOf(model))
    BY <1>1, <1>4, BasesAreSolutions
  <2>3. Selected(p.n, SolutionOf(p.n, E)) = E
    BY <1>1, SolutionSelects
  <2> QED
    BY <2>1, <2>2, <2>3
<1>5. {Selected(p.n, A) : A \in {B \in SUBSET (1..N) : Solves(B, ConstraintsOf(model))}}
        = {E \in SUBSET (0..p.n) : Admissible(p.n, p.forbidden, p.size, E)}
  BY <1>3, <1>4, Zenon
<1> QED
  BY <1>2, <1>5, Zenon

\* For any bound on the elements: the solutions of the model that
\* additive_basis_model writes select exactly the sets that are bases.
THEOREM BasisModelsAreExact == ModelSpec => []BasisIsExact
BY BasisHolds, ModelTypeCorrect, PTL

LEMMA OptionsStand == Inv => OptionsAreEntailed
<1> SUFFICES ASSUME Inv, NEW p \in BasisProblem, phase = "done", model = ModelOf[p],
                    NEW t \in 0..p.n, NEW E \in SUBSET (0..p.n),
                    Admissible(p.n, p.forbidden, p.size, E)
             PROVE  \E option \in Options(facts, p.n, t) : \A v \in option : v - 1 \in E
  BY DEF OptionsAreEntailed
<1> DEFINE A == SolutionOf(p.n, E)
<1>1. /\ p.n \in Nat /\ p.forbidden \in SUBSET (0..p.n) /\ p.size \in Nat
      /\ ConstraintsOf(model) = BasisConstraints(p.n, p.forbidden, p.size)
      /\ BasisConstraints(p.n, p.forbidden, p.size) \subseteq Constraint
  BY BasisProblems DEF Inv
<1>2. A \in SUBSET Variable /\ Solves(A, ConstraintsOf(model))
  BY <1>1, SolutionsFit, BasesAreSolutions
<1>3. Agrees(A, facts)
  BY <1>2 DEF Inv, FactsAreEntailed
<1>4. ASSUME NEW i \in E PROVE -Element(i) \notin facts /\ Element(i) - 1 = i
  <2>1. Element(i) \in A
    BY DEF SolutionOf
  <2>2. -(-Element(i)) = Element(i) /\ ~ (-Element(i) > 0) /\ Element(i) - 1 = i
    BY DEF Element
  <2>3. ~ Holds(A, -Element(i))
    BY <2>1, <2>2 DEF Holds
  <2> QED
    BY <2>2, <2>3, <1>3 DEF Agrees
<1> HIDE DEF A
<1>5. ASSUME NEW i \in E, NEW j \in E, i + j = t, i < j
      PROVE  \E option \in Options(facts, p.n, t) : \A v \in option : v - 1 \in E
  <2> DEFINE q == <<t, i>>
             option == {Element(q[2]), Element(t - q[2])} \ facts
  <2>1. i \in Nat /\ 2 * i < t /\ t - i = j
    BY <1>5
  <2>2. q \in Pairs(t) /\ q[2] = i /\ t - q[2] = j
    BY <1>1, <2>1, SumsArePairs
  <2>3. -Element(q[2]) \notin facts /\ -Element(t - q[2]) \notin facts
    BY <1>4, <2>2
  <2>4. \A v \in option : v - 1 \in E
    BY <1>4, <2>2
  <2> HIDE DEF q
  <2>5. option \in Options(facts, p.n, t)
    BY <2>2, <2>3, Zenon DEF Options
  <2> QED
    BY <2>4, <2>5
<1>6. PICK i \in E, j \in E : i + j = t
  BY DEF Admissible
<1>7. i \in Int /\ j \in Int
  OBVIOUS
<1>8. CASE i = j
  <2>1. t % 2 = 0 /\ t \div 2 = i
    BY <1>6, <1>7, <1>8
  <2>2. {Element(i)} \in Options(facts, p.n, t)
    BY <1>4, <2>1 DEF Options
  <2> QED
    BY <1>4, <2>2
<1>9. CASE i < j
  BY <1>5, <1>6, <1>9
<1>10. CASE j < i
  <2>1. j + i = t
    BY <1>6, <1>7
  <2> QED
    BY <1>5, <1>10, <2>1
<1> QED
  BY <1>7, <1>8, <1>9, <1>10

\* For any bound on the elements: of the ways that readable_deduction_trace leaves
\* open to cover a target, every basis takes one.
THEOREM OptionsHold == ModelSpec => []OptionsAreEntailed
BY OptionsStand, InvIsInvariant, PTL
=============================================================================
