--------------------------- MODULE MCRunLifecycle ---------------------------
(***************************************************************************)
(* Instances of RunLifecycle for TLC: a run's DAG is the default chain     *)
(* with some of its nodes left out.                                        *)
(***************************************************************************)
EXTENDS RunLifecycle, Sequences, TLC

\* The nodes of a chain, and the dependency of each on the one before it.
ChainNodes(chain) == {chain[i] : i \in DOMAIN chain}
ChainDeps(chain) ==
  [n \in ChainNodes(chain) |->
     {chain[i] : i \in {j \in 1 .. Len(chain) - 1 : chain[j + 1] = n}}]

\* One node of every kind the lifecycle tells apart.
LongChain ==
  <<"question_discovery", "evidence_discovery", "question_refinement",
    "skill_discovery_creation", "research_execution", "claim_adjudication",
    "research_readiness">>
LongNodes == ChainNodes(LongChain)
LongDeps  == ChainDeps(LongChain)

\* Without the skills, whose decisions block no node.
CoreChain ==
  <<"question_discovery", "evidence_discovery", "question_refinement",
    "research_execution", "claim_adjudication", "research_readiness">>
CoreNodes == ChainNodes(CoreChain)
CoreDeps  == ChainDeps(CoreChain)

\* A discovery that restarts, a refinement that waits, an execution.
ShortChain ==
  <<"evidence_discovery", "question_refinement", "research_execution">>
ShortNodes == ChainNodes(ShortChain)
ShortDeps  == ChainDeps(ShortChain)

\* Two nodes are enough for two programs to collide.
PairChain == <<"evidence_discovery", "research_execution">>
PairNodes == ChainNodes(PairChain)
PairDeps  == ChainDeps(PairChain)

SkillChain == <<"evidence_discovery", "skill_discovery_creation">>
SkillNodes == ChainNodes(SkillChain)
SkillDeps  == ChainDeps(SkillChain)

\* Every cause but the one whose answer reopens its node.
CompletingCauses == Cause \ {"ATOMIC"}

\* The commands of RunLifecycle but the one that restores nodes from the
\* repair history.
ReopeningCommands == LifecycleCommands \ {"repair-research-completion-coverage"}

Programs == Permutations(Proc)
=============================================================================
