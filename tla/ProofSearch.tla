------------------------------ MODULE ProofSearch ------------------------------
(***************************************************************************)
(* ProofOrchestrator.solve, tools/proofbench/proof_orchestrator.py: a      *)
(* best-first search over proof prefixes.  Every tactic, whether of the    *)
(* deterministic portfolio or proposed by a model, is probed by Lean; only *)
(* a probe that closes the goal goes on to the final validation.           *)
(***************************************************************************)
EXTENDS Integers, Sequences, SequencesExt, FiniteSets

CONSTANTS
  GoalOrder,    \* the goal states, those to expand first first
  RootGoal,     \* the goal of the task
  Portfolio,    \* the deterministic tactics, in the order they are tried
  Proposed,     \* the tactics that models propose
  MaxProposals, \* candidates of models per state (24)
  MaxNodes,     \* loop bound on search nodes (64)
  MaxDepth,     \* no expansion at this depth (16)
  FiniteGoal,   \* whether classify_obligation finds a finite or SAT-like goal
  HasModel      \* whether the case's metadata has a finite additive basis

ASSUME SearchAssumption ==
  /\ GoalOrder \in Seq(STRING) /\ IsInjective(GoalOrder)
  /\ RootGoal \in {GoalOrder[i] : i \in DOMAIN GoalOrder}
  /\ \A i \in DOMAIN GoalOrder : GoalOrder[i] \notin {"CLOSED", "UNSOUND", "ERROR", "TIMEOUT"}
  /\ Portfolio \in Seq(STRING)
  /\ MaxProposals \in Nat /\ MaxNodes \in Nat \ {0} /\ MaxDepth \in Nat
  /\ FiniteGoal \in BOOLEAN /\ HasModel \in BOOLEAN

VARIABLES
  pc,         \* "initial", "select", "portfolio", "gather", "proposals", "done"
  answers,    \* what Lean answered to <<goal, tactic>>, and will answer again
  nodes,      \* the search nodes, in creation order
  frontier,   \* the nodes to expand
  current,    \* the node under expansion
  pending,    \* the tactics still to try on it
  expanded,   \* the nodes that were expanded
  blueprint,  \* of each node: status and dependencies of its blueprint node
  result      \* the record that solve returns

searchVars == <<pc, answers, nodes, frontier, current, pending, expanded, blueprint, result>>

Goals == {GoalOrder[i] : i \in DOMAIN GoalOrder}
Tactics == Proposed \cup {Portfolio[i] : i \in DOMAIN Portfolio}
\* "CLOSED": no goal is left and validation accepts; "UNSOUND": no goal is left
\* and validation refuses (theorem shape, axioms); "ERROR": Lean refuses;
\* "TIMEOUT": no answer yet.
Answers == Goals \cup {"CLOSED", "UNSOUND", "ERROR", "TIMEOUT"}
Source == {"initial", "deterministic", "kimina", "model"}
Node == [prefix : Seq(Tactics), goal : Goals, parent : Nat, source : Source]
NoResult == [pass |-> FALSE, code |-> "NONE", terminal |-> "NONE",
             prefix |-> <<>>, output |-> FALSE]

SearchTypeOK ==
  /\ pc \in {"initial", "select", "portfolio", "gather", "proposals", "done"}
  /\ DOMAIN answers \subseteq Goals \X Tactics
  /\ \A q \in DOMAIN answers : answers[q] \in Answers
  /\ nodes \in Seq(Node)
  /\ frontier \cup expanded \subseteq DOMAIN nodes
  /\ current = 0 \/ current \in DOMAIN nodes
  /\ \A i \in DOMAIN pending : pending[i] \in [tactic : Tactics, source : Source]
  /\ DOMAIN blueprint = DOMAIN nodes

-----------------------------------------------------------------------------
visited == {nodes[i].goal : i \in DOMAIN nodes}
Depth(n) == Len(nodes[n].prefix)

\* The frontier is sorted by the size of the goal, then depth and age.
Place(g) == CHOOSE i \in DOMAIN GoalOrder : GoalOrder[i] = g
Precedes(a, b) ==
  \/ Place(nodes[a].goal) < Place(nodes[b].goal)
  \/ nodes[a].goal = nodes[b].goal /\ a <= b
Best == CHOOSE n \in frontier : \A m \in frontier : Precedes(n, m)

\* A probe: the answer of Lean, or a failure of the infrastructure.
Answered(g, t) == <<g, t>> \in DOMAIN answers /\ answers[<<g, t>>] # "TIMEOUT"
Probe(g, t) ==
  {"TIMEOUT"} \cup
  (IF Answered(g, t) THEN {answers[<<g, t>>]} ELSE Answers \ {"TIMEOUT"})

Remember(g, t, a) ==
  answers' = IF a = "TIMEOUT" /\ Answered(g, t) THEN answers
             ELSE [q \in DOMAIN answers \cup {<<g, t>>} |->
                     IF q = <<g, t>> THEN a ELSE answers[q]]

Closes(a) == a \in {"CLOSED", "UNSOUND"}

\* Mutant of IsNew: a goal that was visited is progress too.
IsNewAnyway(g, a) == a \in Goals /\ a # g

IsNew(g, a) == a \in Goals /\ a # g /\ a \notin visited

Portfolioed == [i \in DOMAIN Portfolio |->
                  [tactic |-> Portfolio[i], source |-> "deterministic"]]

\* What the specialist and then the other models propose; the specialist is
\* asked only where the portfolio made no progress.
Progressed(n) == \E m \in DOMAIN nodes :
                   nodes[m].parent = n /\ nodes[m].source = "deterministic"

\* Mutant of MayPropose: the specialist is asked everywhere.
MayProposeAlways(n, s) == s \in {"kimina", "model"}

MayPropose(n, s) == s = "model" \/ (s = "kimina" /\ ~ Progressed(n))

Candidates(n) ==
  {c \in SeqOf([tactic : Proposed, source : {"kimina", "model"}], MaxProposals) :
     /\ \A i \in DOMAIN c : MayPropose(n, c[i].source)
     /\ \A i, j \in DOMAIN c :
          i < j /\ c[j].source = "kimina" => c[i].source = "kimina"}

-----------------------------------------------------------------------------
\* _finish.  Only the exhausted search passes the assessment on; a finite goal
\* is then handed off, and a case that brings its model whenever it is not
\* proved.  The output is written for a pass only.
Finish(pass, code, prefix, assessed) ==
  /\ pc' = "done"
  /\ result' = [pass |-> pass, code |-> code, prefix |-> prefix, output |-> pass,
                terminal |-> IF pass THEN "VERIFIED"
                             ELSE IF HasModel \/ (assessed /\ FiniteGoal) THEN "ACTIONABLE_HANDOFF"
                             ELSE "PROOF_RECOVERY_EXHAUSTED"]

\* Mutant of Child: the prefix of the parent is kept.
ChildOfSame(n, a, c) ==
  [prefix |-> nodes[n].prefix, goal |-> a, parent |-> n, source |-> c.source]

Child(n, a, c) ==
  [prefix |-> Append(nodes[n].prefix, c.tactic), goal |-> a, parent |-> n,
   source |-> c.source]

\* Mutant of AddChild: the node gets no blueprint node.
AddChildAlone(n, a, c) ==
  LET id == Len(nodes) + 1
  IN /\ nodes' = Append(nodes, Child(n, a, c))
     /\ frontier' = frontier \cup {id}
     /\ blueprint' = blueprint

\* A node, a checkpoint and an unverified blueprint node the parent depends on.
AddChild(n, a, c) ==
  LET id == Len(nodes) + 1
      parent == [blueprint[n] EXCEPT !.needs = @ \cup {id}]
  IN /\ nodes' = Append(nodes, Child(n, a, c))
     /\ frontier' = frontier \cup {id}
     /\ blueprint' = Append([blueprint EXCEPT ![n] = parent],
                            [verified |-> FALSE, needs |-> {}])

SearchInit ==
  /\ pc = "initial" /\ answers = [q \in {} |-> "ERROR"]
  /\ nodes = <<>> /\ frontier = {} /\ current = 0 /\ pending = <<>>
  /\ expanded = {} /\ blueprint = <<>> /\ result = NoResult

\* The goal of the initial prefix.  A probe that shows none ends the search.
InitialGoal ==
  /\ pc = "initial" /\ pc' = "select"
  /\ nodes' = <<[prefix |-> <<>>, goal |-> RootGoal, parent |-> 0,
                 source |-> "initial"]>>
  /\ frontier' = {1}
  /\ blueprint' = <<[verified |-> FALSE, needs |-> {}]>>
  /\ UNCHANGED <<answers, current, pending, expanded, result>>

NoInitialGoal ==
  /\ pc = "initial" /\ pc' = "done"
  /\ \E code \in {"FINAL_PASS", "INFRASTRUCTURE_FAILURE",
                  "LEAN_SYNTAX_OR_TACTIC_FAILURE", "INTEGRITY_FAILURE"} :
       result' = [NoResult EXCEPT !.code = code]
  /\ UNCHANGED <<answers, nodes, frontier, current, pending, expanded, blueprint>>

\* Mutant of Selectable: no bound on the nodes.
SelectableAlways == frontier # {}

Selectable == frontier # {} /\ Len(nodes) < MaxNodes

\* Mutant of Expand: the node stays on the frontier.
ExpandAgain ==
  /\ pc = "select" /\ Selectable /\ Depth(Best) < MaxDepth
  /\ pc' = "portfolio" /\ current' = Best /\ pending' = Portfolioed
  /\ expanded' = expanded \cup {Best}
  /\ UNCHANGED <<answers, nodes, frontier, blueprint, result>>

Expand ==
  /\ pc = "select" /\ Selectable /\ Depth(Best) < MaxDepth
  /\ pc' = "portfolio" /\ current' = Best /\ pending' = Portfolioed
  /\ frontier' = frontier \ {Best} /\ expanded' = expanded \cup {Best}
  /\ UNCHANGED <<answers, nodes, blueprint, result>>

Backtrack ==
  /\ pc = "select" /\ Selectable /\ Depth(Best) >= MaxDepth
  /\ frontier' = frontier \ {Best}
  /\ UNCHANGED <<pc, answers, nodes, current, pending, expanded, blueprint, result>>

\* _attempt, on the next tactic of the portfolio or of the proposals.  The
\* portfolio stops at the first progress; the proposals are all tried.
Candidate == Head(pending)
Attempt(a) ==
  /\ pc \in {"portfolio", "proposals"} /\ pending # <<>>
  /\ a \in Probe(nodes[current].goal, Candidate.tactic)
  /\ Remember(nodes[current].goal, Candidate.tactic, a)

Rejected ==
  \E a \in Answers :
    /\ Attempt(a)
    /\ ~ Closes(a) /\ ~ IsNew(nodes[current].goal, a)
    /\ pending' = Tail(pending)
    /\ UNCHANGED <<pc, nodes, frontier, current, expanded, blueprint, result>>

Accepted ==
  \E a \in Goals :
    /\ Attempt(a) /\ IsNew(nodes[current].goal, a)
    /\ AddChild(current, a, Candidate)
    /\ pending' = IF pc = "portfolio" THEN <<>> ELSE Tail(pending)
    /\ UNCHANGED <<pc, current, expanded, result>>

\* The blueprint node is verified and validation decides.
Closed ==
  \E a \in {"CLOSED", "UNSOUND"} :
    /\ Attempt(a)
    /\ blueprint' = [blueprint EXCEPT ![current].verified = TRUE]
    /\ Finish(a = "CLOSED", IF a = "CLOSED" THEN "PASS" ELSE "INTEGRITY_FAILURE",
              Append(nodes[current].prefix, Candidate.tactic), FALSE)
    /\ UNCHANGED <<nodes, frontier, current, pending, expanded>>

PortfolioDone ==
  /\ pc = "portfolio" /\ pending = <<>> /\ pc' = "gather"
  /\ UNCHANGED <<answers, nodes, frontier, current, pending, expanded, blueprint, result>>

Gather ==
  /\ pc = "gather" /\ pc' = "proposals" /\ pending' \in Candidates(current)
  /\ UNCHANGED <<answers, nodes, frontier, current, expanded, blueprint, result>>

ProposalsDone ==
  /\ pc = "proposals" /\ pending = <<>> /\ pc' = "select"
  /\ UNCHANGED <<answers, nodes, frontier, current, pending, expanded, blueprint, result>>

SearchExhausted ==
  /\ pc = "select" /\ ~ Selectable
  /\ Finish(FALSE, "SEARCH_EXHAUSTED", <<>>, TRUE)
  /\ UNCHANGED <<answers, nodes, frontier, current, pending, expanded, blueprint>>

SearchNext ==
  \/ InitialGoal \/ NoInitialGoal \/ Expand \/ Backtrack
  \/ Rejected \/ Accepted \/ Closed
  \/ PortfolioDone \/ Gather \/ ProposalsDone \/ SearchExhausted

\* The loop runs on its own: probes and models are called with a timeout.
SearchSpec == SearchInit /\ [][SearchNext]_searchVars /\ WF_searchVars(SearchNext)

-----------------------------------------------------------------------------
Advance(g, t) == IF <<g, t>> \in DOMAIN answers THEN answers[<<g, t>>] ELSE "ERROR"
Replay(prefix) ==
  LET goal[k \in 0..Len(prefix)] == IF k = 0 THEN RootGoal ELSE Advance(goal[k - 1], prefix[k])
  IN goal[Len(prefix)]

\* The frontier holds Lean-validated prefixes only: replaying the tactics of any
\* node, step by step, leads to the goal the node is searched for, and what
\* passes is a prefix whose replay leaves no goal and that validation accepts.
PrefixesReplay ==
  /\ \A i \in DOMAIN nodes : Replay(nodes[i].prefix) = nodes[i].goal
  /\ result.pass => Replay(result.prefix) = "CLOSED"
  /\ result.output => result.terminal = "VERIFIED"

\* No goal is searched twice, however many tactics lead to it: the search
\* cannot go round in circles.
NoGoalTwice ==
  \A i, j \in DOMAIN nodes : nodes[i].goal = nodes[j].goal => i = j

\* The loop bound is tested between expansions only, so a search may pass it by
\* the children of its last expansion: one of the portfolio and one for each
\* proposal.
SearchIsBounded == Len(nodes) <= MaxNodes + MaxProposals

\* The specialist is asked only at dead ends of the portfolio: no state has
\* children of both.
SpecialistAtDeadEnds ==
  \A i, j \in DOMAIN nodes :
    nodes[i].parent = nodes[j].parent /\ nodes[i].source = "kimina"
      => nodes[j].source # "deterministic"

\* Replaying a node's tactics leads to its goal, no goal is searched twice, the
\* specialist is asked at dead ends of the portfolio only, and a search passes its
\* loop bound by the children of one expansion at most.
SearchIsSound == PrefixesReplay /\ NoGoalTwice /\ SpecialistAtDeadEnds /\ SearchIsBounded

\* The search ends, whatever Lean and the models answer.
SearchEnds == <>(pc = "done")

\* What the blueprint says of its nodes: a verified one depends only on
\* verified ones (comment in TypedContextClosure.candidates).
VerifiedIsSupported ==
  \A i \in DOMAIN blueprint :
    blueprint[i].verified => \A d \in blueprint[i].needs : blueprint[d].verified

\* A search that gives up below its bound has probed the whole portfolio on
\* every state it expanded (comment in solve: the decomposition is expanded
\* before its speculative siblings).
ExhaustedTriedPortfolio ==
  result.code = "SEARCH_EXHAUSTED" /\ Len(nodes) < MaxNodes
    => \A i \in expanded, k \in DOMAIN Portfolio :
         <<nodes[i].goal, Portfolio[k]>> \in DOMAIN answers

\* A failed search for a finite goal is handed off (comment in _finish).
FiniteFailureIsHandedOff ==
  pc = "done" /\ nodes # <<>> /\ FiniteGoal /\ ~ result.pass
    => result.terminal = "ACTIONABLE_HANDOFF"
=============================================================================
