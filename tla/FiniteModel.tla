------------------------------- MODULE FiniteModel -------------------------------
(***************************************************************************)
(* Unit and cardinality propagation over a finite Boolean model, and the   *)
(* residual model it leaves, tools/proofbench/proof_engineering.py.  As in *)
(* the code a literal is a variable's number or its negation; the values   *)
(* found so far are the set of literals they make true.  A constraint's    *)
(* list of literals is a set: the code builds none with repeats.           *)
(***************************************************************************)
EXTENDS Integers, Sequences, FiniteSets

CONSTANTS
  N,       \* number of variables
  Models   \* the models, as sequences of constraints

Variable == 1..N
Literal == (-N..N) \ {0}

\* A clause has no bound; the code's cardinality constraints name no variable twice.
Constraint ==
  {c \in [kind : {"clause", "at_most", "at_least"}, lits : SUBSET Literal, bound : Int] :
     c.kind # "clause" => \A x \in c.lits : -x \notin c.lits}

ASSUME ModelAssumption == N \in Nat /\ Models \subseteq Seq(Constraint)

VARIABLES
  model,          \* the model at hand
  facts,          \* values
  visit,          \* the constraint that the loop is at
  changed,        \* whether this pass has found a value
  contradiction,  \* whether the trace has a contradiction
  phase,
  residual        \* what residual_model returns

modelVars == <<model, facts, visit, changed, contradiction, phase, residual>>

ModelTypeOK ==
  /\ model \in Models /\ facts \subseteq Literal
  /\ visit \in 1..Len(model) + 1 /\ changed \in BOOLEAN /\ contradiction \in BOOLEAN
  /\ phase \in {"propagate", "substitute", "done", "KeyError"}
  /\ residual \subseteq Constraint

-----------------------------------------------------------------------------
\* An assignment is the set of variables it makes true.
Holds(A, x) == IF x > 0 THEN x \in A ELSE -x \notin A
TrueIn(A, lits) == {x \in lits : Holds(A, x)}
Satisfies(A, c) ==
  /\ c.kind = "clause" => TrueIn(A, c.lits) # {}
  /\ c.kind = "at_most" => Cardinality(TrueIn(A, c.lits)) <= c.bound
  /\ c.kind = "at_least" => Cardinality(TrueIn(A, c.lits)) >= c.bound
Solves(A, cs) == \A c \in cs : Satisfies(A, c)
ConstraintsOf(m) == {m[i] : i \in DOMAIN m}
Agrees(A, F) == \A x \in F : Holds(A, x)

\* Mutant of Live: a literal that is false is live too.
LiveUnfalsified(F, lits) == {x \in lits : x \notin F}

\* The literals whose variable has no value yet.
Live(F, lits) == {x \in lits : x \notin F /\ -x \notin F}

Known(F, c) == Cardinality(c.lits \cap F)
IsUnit(F, c) == c.kind = "clause" /\ c.lits \cap F = {} /\ Cardinality(Live(F, c.lits)) = 1
IsFull(F, c) == c.kind = "at_most" /\ Known(F, c) = c.bound
IsTight(F, c) ==
  c.kind = "at_least" /\ Known(F, c) + Cardinality(Live(F, c.lits)) = c.bound

\* Mutant of Forced: all of the live literals of a clause.
ForcedAll(F, c) ==
  IF (c.kind = "clause" /\ c.lits \cap F = {}) \/ IsTight(F, c) THEN Live(F, c.lits)
  ELSE IF IsFull(F, c) THEN {-x : x \in Live(F, c.lits)} ELSE {}

\* What one visit of a constraint adds to the values.
Forced(F, c) ==
  IF IsUnit(F, c) \/ IsTight(F, c) THEN Live(F, c.lits)
  ELSE IF IsFull(F, c) THEN {-x : x \in Live(F, c.lits)} ELSE {}

Contradicts(F, c) == c.kind = "clause" /\ c.lits \cap F = {} /\ Live(F, c.lits) = {}

-----------------------------------------------------------------------------
\* Mutant of ModelInit: constraints counted from 0.
ModelInitZero ==
  /\ model \in Models
  /\ facts = {} /\ visit = 0 /\ changed = FALSE /\ contradiction = FALSE
  /\ phase = "propagate" /\ residual = {}

ModelInit ==
  /\ model \in Models
  /\ facts = {} /\ visit = 1 /\ changed = FALSE /\ contradiction = FALSE
  /\ phase = "propagate" /\ residual = {}

Visit ==
  /\ phase = "propagate" /\ visit <= Len(model)
  /\ facts' = facts \cup Forced(facts, model[visit])
  /\ changed' = (changed \/ Forced(facts, model[visit]) # {})
  /\ contradiction' = (contradiction \/ Contradicts(facts, model[visit]))
  /\ visit' = visit + 1
  /\ UNCHANGED <<model, phase, residual>>

\* Mutants of Again: one pass only; another pass whatever the last one found.
AgainNever == FALSE
AgainAlways == TRUE

Again == changed

EndPass ==
  /\ phase = "propagate" /\ visit > Len(model)
  /\ changed' = FALSE
  /\ \/ Again /\ visit' = 1 /\ UNCHANGED phase
     \/ ~ Again /\ phase' = "substitute" /\ UNCHANGED visit
  /\ UNCHANGED <<model, facts, contradiction, residual>>

\* Mutant of Substituted: the bound of a cardinality is left as it was.
SubstitutedOldBound(F, c) == [c EXCEPT !.lits = Live(F, @)]

\* residual_model on a clause or an at_most constraint.  An at_least is kept as
\* it is: the code puts the constraint object itself into the residual model, and
\* renumbers its literals in the original model too, which is not followed.
Substituted(F, c) ==
  [c EXCEPT !.lits = Live(F, @),
            !.bound = IF c.kind = "at_most" THEN @ - Known(F, c) ELSE @]

IsDischarged(F, c) == c.kind = "clause" /\ c.lits \cap F # {}
Kept(F, m) == {c \in ConstraintsOf(m) : ~ IsDischarged(F, c)}
Residual(F, m) ==
  {IF c.kind = "at_least" THEN c ELSE Substituted(F, c) : c \in Kept(F, m)}

\* The variables that get a new number; those of an at_least are not among them.
Numbered(F, m) ==
  {v \in Variable : \E c \in Kept(F, m) :
     c.kind # "at_least" /\ (v \in Live(F, c.lits) \/ -v \in Live(F, c.lits))}
Renumbers(F, m) ==
  \A c \in Kept(F, m) : c.kind = "at_least" =>
    \A v \in Variable : v \in c.lits \/ -v \in c.lits => v \in Numbered(F, m)

Substitute ==
  /\ phase = "substitute"
  /\ \/ Renumbers(facts, model) /\ phase' = "done" /\ residual' = Residual(facts, model)
     \/ ~ Renumbers(facts, model) /\ phase' = "KeyError" /\ UNCHANGED residual
  /\ UNCHANGED <<model, facts, visit, changed, contradiction>>

ModelNext == Visit \/ EndPass \/ Substitute

ModelSpec == ModelInit /\ [][ModelNext]_modelVars /\ WF_modelVars(ModelNext)

-----------------------------------------------------------------------------
\* Propagation is sound: every solution of the model agrees with the values
\* found so far, and a model whose trace has a contradiction has none.
FactsAreEntailed ==
  \A A \in SUBSET Variable : Solves(A, ConstraintsOf(model)) =>
    Agrees(A, facts) /\ ~ contradiction

\* The values are a dictionary: no variable gets both, in any order of visits.
FactsAreFunctional == \A x \in facts : -x \notin facts

\* The loop stops only when no constraint forces anything more.
NothingIsMissed ==
  phase = "substitute" => \A c \in ConstraintsOf(model) : Forced(facts, c) = {}

\* The residual model has the solutions of the model, where the values hold.
ResidualIsEquivalent ==
  phase = "done" => \A A \in SUBSET Variable : Agrees(A, facts) =>
    (Solves(A, ConstraintsOf(model)) <=> Solves(A, residual))

\* Propagation and substitution come to an end.
PropagationEnds == <>(phase \in {"done", "KeyError"})

\* Every model has a residual model.
ResidualIsBuilt == phase # "KeyError"
=============================================================================
