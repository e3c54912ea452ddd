----------------------------- MODULE FiniteEncoding -----------------------------
(***************************************************************************)
(* What proof_engineering.py builds from finite models: the CNF of         *)
(* dimacs_export (a Sinz sequential counter per cardinality), the model of *)
(* an additive basis problem, and the alternatives of the readable trace.  *)
(* Checked on the models of FiniteModel, before and after propagation.     *)
(***************************************************************************)
EXTENDS FiniteModel, FiniteSetsExt

CONSTANT MaxElement  \* bound on the elements of the basis problems

ASSUME EncodingAssumption == MaxElement \in Nat

\* The elements of a set as a list, in some order.
Listed(S) == FoldSet(LAMBDA x, list : Append(list, x), <<>>, S)

\* The counter variable s(i, j) of the k-th constraint, which has no more than
\* Stride of them.
Stride == N * (N + 1)
Aux(k, i, j) == N + k * Stride + i * (N + 1) + j

\* Mutant of Counter: no guard at the intermediate inputs.
CounterUnguarded(k, x, b) ==
  LET m == Len(x)  s(i, j) == Aux(k, i, j) IN
  {{-x[1], s(1, 1)}, {-x[m], -s(m - 1, b)}}
    \cup (UNION {{{-x[i], s(i, 1)}, {-s(i - 1, 1), s(i, 1)}} : i \in 2..(m - 1)})
    \cup (UNION {{{-x[i], -s(i - 1, j - 1), s(i, j)}, {-s(i - 1, j), s(i, j)}} :
                   i \in 2..(m - 1), j \in 2..b})

\* at_most for 0 < b < Len(x): s(i, j) says that i inputs have j truths.
Counter(k, x, b) ==
  LET m == Len(x)  s(i, j) == Aux(k, i, j) IN
  {{-x[1], s(1, 1)}, {-x[m], -s(m - 1, b)}}
    \cup (UNION {{{-x[i], s(i, 1)}, {-s(i - 1, 1), s(i, 1)}, {-x[i], -s(i - 1, b)}} :
                   i \in 2..(m - 1)})
    \cup (UNION {{{-x[i], -s(i - 1, j - 1), s(i, j)}, {-s(i - 1, j), s(i, j)}} :
                   i \in 2..(m - 1), j \in 2..b})

AtMost(k, lits, b) ==
  IF b < 0 THEN {{}}
  ELSE IF b >= Cardinality(lits) THEN {}
  ELSE IF b = 0 THEN {{-x} : x \in lits}
  ELSE Counter(k, Listed(lits), b)

Clauses(k, c) ==
  CASE c.kind = "clause" -> {c.lits}
    [] c.kind = "at_most" -> AtMost(k, c.lits, c.bound)
    [] c.kind = "at_least" -> AtMost(k, {-x : x \in c.lits}, Cardinality(c.lits) - c.bound)

Cnf(m) == UNION {Clauses(k, m[k]) : k \in DOMAIN m}
AuxOf(cnf) ==
  {v \in UNION {{IF x > 0 THEN x ELSE -x : x \in clause} : clause \in cnf} : v > N}
SolvesCnf(A, cnf) == \A clause \in cnf : TrueIn(A, clause) # {}

-----------------------------------------------------------------------------
\* additive_basis_model: element i is variable i + 1, and every sum of two
\* different elements has a variable of its own, in the order of the targets.
Pairs(t) == {<<t, i>> : i \in {e \in 0..t : 2 * e < t}}
AllPairs(n) == UNION {Pairs(t) : t \in 0..n}
Before(p, q) == p[1] < q[1] \/ (p[1] = q[1] /\ p[2] < q[2])
PairVariable(n, p) == n + 2 + Cardinality({q \in AllPairs(n) : Before(q, p)})
Clause(lits) == [kind |-> "clause", lits |-> lits, bound |-> 0]
Element(i) == i + 1

\* The sum t is i + (t - i); an even t is also twice its half.
Coverage(n, t) ==
  {PairVariable(n, p) : p \in Pairs(t)} \cup (IF t % 2 = 0 THEN {Element(t \div 2)} ELSE {})

\* Mutant of Definition: the pair does not need its right element.
DefinitionLeft(n, p) ==
  LET v == PairVariable(n, p)  l == Element(p[2])  r == Element(p[1] - p[2]) IN
  {Clause({-v, l}), Clause({v, -l, -r})}

Definition(n, p) ==
  LET v == PairVariable(n, p)  l == Element(p[2])  r == Element(p[1] - p[2]) IN
  {Clause({-v, l}), Clause({-v, r}), Clause({v, -l, -r})}

BasisModel(n, forbidden, size) ==
  Listed({Clause({-Element(i)}) : i \in forbidden}
             \cup (UNION {Definition(n, p) : p \in AllPairs(n)})
             \cup {Clause(Coverage(n, t)) : t \in 0..n}
             \cup {[kind |-> "at_most", lits |-> Element(0)..Element(n), bound |-> size]})

\* The problem itself: which sets of elements are bases.
Admissible(n, forbidden, size, E) ==
  /\ E \cap forbidden = {} /\ Cardinality(E) <= size
  /\ \A t \in 0..n : \E i, j \in E : i + j = t

\* readable_deduction_trace: the ways that are left to cover a target.
CoveredBy(F, n, t) ==
  \/ \E p \in Pairs(t) : {Element(p[2]), Element(t - p[2])} \subseteq F
  \/ t % 2 = 0 /\ Element(t \div 2) \in F

\* Mutant of Options: a pair with one element that is selected is no option.
OptionsOpen(F, n, t) ==
  {{Element(p[2]), Element(t - p[2])} :
     p \in {q \in Pairs(t) : {Element(q[2]), Element(t - q[2])} \cap F = {}
                              /\ -Element(q[2]) \notin F /\ -Element(t - q[2]) \notin F}}
    \cup (IF t % 2 = 0 /\ -Element(t \div 2) \notin F THEN {{Element(t \div 2)}} ELSE {})

Options(F, n, t) ==
  {{Element(p[2]), Element(t - p[2])} \ F :
     p \in {q \in Pairs(t) : -Element(q[2]) \notin F /\ -Element(t - q[2]) \notin F}}
    \cup (IF t % 2 = 0 /\ -Element(t \div 2) \notin F THEN {{Element(t \div 2)}} ELSE {})

-----------------------------------------------------------------------------
\* The CNF has exactly the solutions of the model it was written from, whatever
\* values its counter variables take.
EncodingIsExact ==
  phase \in {"done", "KeyError"} => \A m \in {model, Listed(residual)} :
    LET cnf == Cnf(m) IN
    \A A \in SUBSET Variable :
      Solves(A, ConstraintsOf(m)) <=>
        \E B \in SUBSET AuxOf(cnf) : SolvesCnf(A \cup B, cnf)

BasisProblem ==
  {p \in [n : 0..MaxElement, forbidden : SUBSET (0..MaxElement), size : 1..MaxElement] :
     p.forbidden \subseteq 0..p.n}
ModelOf == [p \in BasisProblem |-> BasisModel(p.n, p.forbidden, p.size)]

\* The model of a basis problem has exactly the bases as its solutions.
BasisIsExact ==
  \A p \in BasisProblem :
    phase = "done" /\ model = ModelOf[p] =>
      {{i \in 0..p.n : Element(i) \in A} : A \in {B \in SUBSET (1..N) : Solves(B, ConstraintsOf(model))}}
        = {E \in SUBSET (0..p.n) : Admissible(p.n, p.forbidden, p.size, E)}

\* What the trace offers a formaliser as a lemma holds of every basis.
OptionsAreEntailed ==
  \A p \in BasisProblem :
    phase = "done" /\ model = ModelOf[p] =>
      \A t \in 0..p.n : ~ CoveredBy(facts, p.n, t) /\ Options(facts, p.n, t) # {} =>
        \A E \in SUBSET (0..p.n) : Admissible(p.n, p.forbidden, p.size, E) =>
          \E option \in Options(facts, p.n, t) : \A v \in option : v - 1 \in E
=============================================================================
