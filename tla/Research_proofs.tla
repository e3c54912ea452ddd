----------------------------- MODULE Research_proofs -----------------------------
(***************************************************************************)
(* What is proved of the parts of the runtime that make a result: the      *)
(* evidence chain, the papers written from packages, the profile of local  *)
(* models, the continuation of external answers and the repairs of the     *)
(* planning nodes.                                                         *)
(***************************************************************************)
EXTENDS EvidenceChain, PaperPipeline, LocalProfile, ExternalContinuation, StructuredRepair,
        WellFoundedInduction, TLAPS

-----------------------------------------------------------------------------
(***************************************************************************)
(* EvidenceChain.  The provenance goes first and is immutable, so that the *)
(* skills are executed to completion at most once: what validation,        *)
(* replication and adjudication leave is of that execution, and no repair  *)
(* brings a second one.                                                    *)
(***************************************************************************)

\* A node is completed behind completed nodes.
InOrder == \A n \in Nodes : st[n] = "COMPLETED" => \A m \in Before(n) : st[m] = "COMPLETED"

\* Until the provenance is stored nothing is, and nothing was concluded from it.
NothingBefore ==
    stored["provenance"] = 0 =>
        /\ \A f \in Files : stored[f] = 0
        /\ ~claims.direct
        /\ coverage # "SUFFICIENT"

\* What a completed node has left for those behind it.
Left ==
    /\ st["gap"] = "COMPLETED" => required = plan.caps
    /\ st["skills"] = "COMPLETED" => ("exe" \in registry => "exe" \in required)
    /\ st["execution"] = "COMPLETED" =>
          /\ work # 0
          /\ stored["provenance"] = work
          /\ \A cap \in required : stored[FileOf(cap)] = work
    /\ st["validation"] = "COMPLETED" /\ Executable => [cap |-> "exe", result |-> work] \in passed
    /\ st["replication"] = "COMPLETED" =>
          /\ report
          /\ replicated.status = "PASSED"
          /\ replicated.result = Compared
    /\ st["adjudication"] = "COMPLETED" => claims.plan = plan.number

\* Claims that are about the stored result, validated and replicated.
Earned(c) ==
    /\ c.direct
    /\ c.result # 0 /\ c.result = stored["result"]
    /\ [cap |-> "exe", result |-> c.result] \in passed
    /\ report
    /\ replicated.status = "PASSED"
    /\ replicated.result = c.result

\* The claims and the coverage are those of the one execution.
Concluded ==
    /\ claims.direct => Earned(claims)
    /\ coverage = "SUFFICIENT" => claims.direct
    /\ st["execution"] = "COMPLETED" /\ st["adjudication"] # "COMPLETED" =>
          ~claims.direct /\ coverage # "SUFFICIENT"
    /\ st["execution"] = "COMPLETED" /\ coverage = "SUFFICIENT" => required \subseteq {"lit", "exe"}

PackagesEarned ==
    \A p \in packages :
        /\ Earned(p.claims)
        /\ p.claims.plan = p.plan
        /\ p.plan <= plan.number
        /\ p.plan = plan.number => plan.caps \cap Resolvers = {}

\* Repairs bound the plans.
PlansBounded == repairs \in 0..MaxChainRepairs /\ plan.number <= repairs + 1

ChainInv ==
    /\ ChainTypeOK
    /\ PlansBounded
    /\ InOrder
    /\ NothingBefore
    /\ StoredIsOneExecution
    /\ Left
    /\ Concluded
    /\ PackagesEarned

ChainStatus == {"PENDING", "COMPLETED", "FAILED", "BLOCKED", "WAITING_FOR_HUMAN"}

LEMMA FilesOfCaps ==
  /\ Caps = {"lit", "exe"} \cup Resolvers
  /\ \A cap \in Caps : FileOf(cap) \in Files
  /\ \A cap \in Caps : FileOf(cap) = "result" => cap = "exe"
  /\ FileOf("exe") = "result"
  /\ \A P \in Plans : P \subseteq Caps
<1>1. \A P \in Plans : P \subseteq Caps
  BY DEF Plans, Caps
<1>2. "exe" \notin Resolvers /\ "lit" \notin Resolvers
  BY ChainAssumption
<1>3. \A cap \in Caps : FileOf(cap) \in Files /\ (FileOf(cap) = "result" => cap = "exe")
  BY <1>2 DEF Caps, FileOf, Files
<1> QED
  BY <1>1, <1>3 DEF Caps, FileOf

\* The nodes form a chain.
LEMMA StagesInOrder ==
  ASSUME InOrder
  PROVE  /\ st["skills"] = "COMPLETED" => st["gap"] = "COMPLETED"
         /\ st["tasks"] = "COMPLETED" => st["skills"] = "COMPLETED"
         /\ st["execution"] = "COMPLETED" => st["tasks"] = "COMPLETED"
         /\ st["validation"] = "COMPLETED" => st["execution"] = "COMPLETED"
         /\ st["falsification"] = "COMPLETED" => st["validation"] = "COMPLETED"
         /\ st["replication"] = "COMPLETED" => st["falsification"] = "COMPLETED"
         /\ st["adjudication"] = "COMPLETED" => st["replication"] = "COMPLETED"
         /\ st["readiness"] = "COMPLETED" => st["adjudication"] = "COMPLETED"
BY DEF InOrder, Nodes, Before

LEMMA ReadyBehind ==
  /\ ChainReady("skills") => st["gap"] = "COMPLETED"
  /\ ChainReady("tasks") => st["skills"] = "COMPLETED"
  /\ ChainReady("execution") => st["tasks"] = "COMPLETED"
  /\ ChainReady("validation") => st["execution"] = "COMPLETED"
  /\ ChainReady("falsification") => st["validation"] = "COMPLETED"
  /\ ChainReady("replication") => st["falsification"] = "COMPLETED"
  /\ ChainReady("adjudication") => st["replication"] = "COMPLETED"
  /\ ChainReady("readiness") => st["adjudication"] = "COMPLETED"
BY DEF ChainReady, Before

\* A ready node that completes or stops leaves the others and the order.
LEMMA StepInOrder ==
  ASSUME ChainTypeOK, InOrder, NEW n \in Nodes, NEW s \in ChainStatus, ChainReady(n),
         st' = [st EXCEPT ![n] = s]
  PROVE  /\ InOrder'
         /\ st' \in [Nodes -> ChainStatus]
         /\ st'[n] = s /\ st[n] = "PENDING"
         /\ \A m \in Nodes \ {n} : st'[m] = st[m]
<1>1. st \in [Nodes -> ChainStatus]
  BY DEF ChainTypeOK, ChainStatus
<1>2. st' \in [Nodes -> ChainStatus] /\ st'[n] = s /\ \A m \in Nodes \ {n} : st'[m] = st[m]
  BY <1>1
<1>3. st[n] = "PENDING" /\ \A m \in Before(n) : st[m] = "COMPLETED"
  BY DEF ChainReady
<1>4. \A k \in Nodes : Before(k) \subseteq Nodes /\ k \notin Before(k)
  BY DEF Nodes, Before
<1>5. InOrder'
  <2> SUFFICES ASSUME NEW k \in Nodes, st'[k] = "COMPLETED", NEW m \in Before(k)
               PROVE  st'[m] = "COMPLETED"
    BY DEF InOrder
  <2>1. m \in Nodes /\ m # k
    BY <1>4
  <2>2. CASE k = n
    BY <2>1, <2>2, <1>2, <1>3
  <2>3. CASE k # n
    <3>1. st[m] = "COMPLETED"
      BY <2>3, <1>2 DEF InOrder
    <3> QED
      BY <3>1, <2>1, <1>2, <1>3
  <2> QED
    BY <2>2, <2>3
<1> QED
  BY <1>2, <1>3, <1>5

LEMMA RunsAreCounted ==
  ASSUME ChainTypeOK, runs < MaxExecutions
  PROVE  runs + 1 \in Executions /\ runs + 1 # 0 /\ 0 \in Executions
<1>1. runs \in Executions
  BY DEF ChainTypeOK
<1> QED
  BY <1>1, ChainAssumption DEF ChainAssumption, Executions

LEMMA PlanIsNumbered ==
  ASSUME ChainTypeOK
  PROVE  plan.number \in Nat \ {0} /\ plan.number \in 0..(MaxChainRepairs + 1) /\ plan.number <= plan.number
<1>1. plan.number \in 1..(MaxChainRepairs + 1)
  BY DEF ChainTypeOK
<1> QED
  BY <1>1, ChainAssumption DEF ChainAssumption

\* What the nodes have left stays as long as the variables it is about.
LEMMA LeftStays ==
  ASSUME Left, Concluded, PackagesEarned, NothingBefore, StoredIsOneExecution,
         UNCHANGED <<plan, required, registry, work, stored, report, passed, replicated, claims, coverage,
                     packages>>,
         \A n \in Nodes : st'[n] = "COMPLETED" =>
            st[n] = "COMPLETED" \/ n \in {"tasks", "falsification", "readiness"},
         st["adjudication"] = "COMPLETED" =>
            st'["adjudication"] = "COMPLETED" \/ st'["execution"] # "COMPLETED"
  PROVE  Left' /\ Concluded' /\ PackagesEarned' /\ NothingBefore' /\ StoredIsOneExecution'
<1>1. /\ \A n \in {"gap", "skills", "execution", "validation", "replication", "adjudication"} :
           st'[n] = "COMPLETED" => st[n] = "COMPLETED"
  BY DEF Nodes
<1>2. Left'
  BY <1>1 DEF Left, Executable, Compared
<1>3. Concluded'
  BY <1>1 DEF Concluded, Earned
<1>4. PackagesEarned' /\ NothingBefore' /\ StoredIsOneExecution'
  BY DEF PackagesEarned, Earned, NothingBefore, StoredIsOneExecution
<1> QED
  BY <1>2, <1>3, <1>4

-----------------------------------------------------------------------------
LEMMA ChainInvInit == ChainInit => ChainInv
<1> SUFFICES ASSUME ChainInit PROVE ChainInv
  OBVIOUS
<1> USE ChainAssumption DEF ChainAssumption
<1>1. plan.caps \in Plans /\ plan.number = 1
  BY DEF ChainInit
<1>2. ChainTypeOK
  <2>1. 0 \in Executions /\ 0 \in 0..(MaxChainRepairs + 1) /\ 1 \in 1..(MaxChainRepairs + 1)
    BY DEF Executions
  <2>2. installed \subseteq Caps /\ registry \subseteq Caps /\ ran \subseteq Caps
    BY DEF ChainInit, Caps
  <2>3. stored \in [Files -> Executions]
    BY <2>1 DEF ChainInit
  <2>4. st \in [Nodes -> ChainStatus]
    BY DEF ChainInit, ChainStatus
  <2>5. claims \in [result : Executions, direct : BOOLEAN, plan : 0..(MaxChainRepairs + 1)]
    BY <2>1 DEF ChainInit, NoClaims
  <2> QED
    BY <1>1, <2>1, <2>2, <2>3, <2>4, <2>5 DEF ChainInit, ChainTypeOK, ChainStatus
<1>3. PlansBounded /\ InOrder /\ NothingBefore /\ StoredIsOneExecution
  BY <1>1 DEF ChainInit, PlansBounded, InOrder, NothingBefore, StoredIsOneExecution, NoClaims
<1>4. Left /\ Concluded /\ PackagesEarned
  BY DEF ChainInit, Left, Concluded, PackagesEarned, NoClaims, Nodes
<1> QED
  BY <1>2, <1>3, <1>4 DEF ChainInv

LEMMA GapAnalysisKeeps == ASSUME ChainInv, GapAnalysis PROVE ChainInv'
<1> USE DEF skills, storeFiles, verdicts, bounds
<1>0. st' = [st EXCEPT !["gap"] = "COMPLETED"] /\ ChainReady("gap") /\ UNCHANGED why
  BY DEF GapAnalysis, Complete
<1>1. /\ InOrder' /\ st' \in [Nodes -> ChainStatus]
      /\ st["gap"] = "PENDING" /\ \A m \in Nodes \ {"gap"} : st'[m] = st[m]
  BY <1>0, StepInOrder DEF ChainInv, Nodes, ChainStatus
<1>2. \A n \in Nodes \ {"gap"} : st'[n] # "COMPLETED"
  BY <1>1, StagesInOrder DEF ChainInv, Nodes
<1>3. ChainTypeOK'
  BY <1>0, <1>1 DEF ChainInv, ChainTypeOK, GapAnalysis, ChainStatus
<1>4. Left' /\ Concluded'
  BY <1>2 DEF ChainInv, GapAnalysis, Left, Concluded, Earned, Nodes
<1>5. PlansBounded' /\ NothingBefore' /\ StoredIsOneExecution' /\ PackagesEarned'
  BY DEF ChainInv, GapAnalysis, PlansBounded, NothingBefore, StoredIsOneExecution, PackagesEarned, Earned
<1> QED
  BY <1>1, <1>3, <1>4, <1>5 DEF ChainInv

\* A skill whose file is the result's is the executable one.
LEMMA SkillDiscoveryKeeps == ASSUME ChainInv, DiscoverSkills PROVE ChainInv'
<1> USE DEF skills, storeFiles, verdicts, bounds
<1>0. st' = [st EXCEPT !["skills"] = "COMPLETED"] /\ ChainReady("skills") /\ UNCHANGED why
  BY DEF DiscoverSkills, Complete
<1>1. /\ InOrder' /\ st' \in [Nodes -> ChainStatus]
      /\ st["skills"] = "PENDING" /\ \A m \in Nodes \ {"skills"} : st'[m] = st[m]
  BY <1>0, StepInOrder DEF ChainInv, Nodes, ChainStatus
<1>2. \A n \in Nodes \ {"gap", "skills"} : st'[n] # "COMPLETED"
  BY <1>1, StagesInOrder DEF ChainInv, Nodes
<1>3. PICK choice \in [required -> Caps] :
        /\ \A cap \in required : choice[cap] \in Resolvable(cap)
        /\ registry' = {choice[cap] : cap \in required}
        /\ installed' = installed \cup registry'
  BY DEF DiscoverSkills
<1>4. required \subseteq Caps
  BY FilesOfCaps DEF ChainInv, ChainTypeOK
<1>5. "exe" \in registry' => "exe" \in required
  <2> SUFFICES ASSUME NEW cap \in required, choice[cap] = "exe" PROVE "exe" \in required
    BY <1>3
  <2>1. "exe" \in Resolvable(cap)
    BY <1>3
  <2>2. "exe" = cap \/ FileOf("exe") = FileOf(cap)
    BY <2>1 DEF Resolvable, SkillsFor
  <2> QED
    BY <2>2, <1>4, FilesOfCaps
<1>6. ChainTypeOK'
  <2>0. \A cap \in required : choice[cap] \in Caps
    BY <1>3
  <2>1. registry' \subseteq Caps
    BY <1>3, <2>0
  <2>2. installed' \subseteq Caps
    BY <1>3, <2>1 DEF ChainInv, ChainTypeOK
  <2> QED
    BY <1>0, <1>1, <2>1, <2>2 DEF ChainInv, ChainTypeOK, DiscoverSkills, ChainStatus
<1>7. Left' /\ Concluded'
  BY <1>1, <1>2, <1>5 DEF ChainInv, DiscoverSkills, Left, Concluded, Earned, Nodes
<1>8. PlansBounded' /\ NothingBefore' /\ StoredIsOneExecution' /\ PackagesEarned'
  BY DEF ChainInv, DiscoverSkills, PlansBounded, NothingBefore, StoredIsOneExecution, PackagesEarned, Earned
<1> QED
  BY <1>1, <1>6, <1>7, <1>8 DEF ChainInv

LEMMA SkillRefusedKeeps == ASSUME ChainInv, SkillRefused PROVE ChainInv'
<1> USE DEF skills, storeFiles, verdicts, bounds
<1>0. st' = [st EXCEPT !["skills"] = "WAITING_FOR_HUMAN"] /\ ChainReady("skills") /\ UNCHANGED why
  BY DEF SkillRefused, Halt
<1>1. /\ InOrder' /\ st' \in [Nodes -> ChainStatus] /\ st'["skills"] = "WAITING_FOR_HUMAN"
      /\ st["skills"] = "PENDING" /\ \A m \in Nodes \ {"skills"} : st'[m] = st[m]
  BY <1>0, StepInOrder DEF ChainInv, Nodes, ChainStatus
<1>2. PICK saved \in SUBSET (required \ {"exe"}) :
        installed' = installed \cup {c \in saved : SkillsFor(c) = {}}
  BY DEF SkillRefused
<1>3. required \subseteq Caps
  BY FilesOfCaps DEF ChainInv, ChainTypeOK
<1>4. ChainTypeOK'
  BY <1>0, <1>1, <1>2, <1>3 DEF ChainInv, ChainTypeOK, SkillRefused, ChainStatus
<1>5. Left' /\ Concluded' /\ PackagesEarned' /\ NothingBefore' /\ StoredIsOneExecution'
  <2>1. \A n \in Nodes : st'[n] = "COMPLETED" => st[n] = "COMPLETED"
    BY <1>1
  <2>2. st["adjudication"] = "COMPLETED" => st'["adjudication"] = "COMPLETED"
    BY <1>1 DEF Nodes
  <2>3. UNCHANGED <<plan, required, registry, work, stored, report, passed, replicated, claims, coverage,
                    packages>>
    BY DEF SkillRefused
  <2> QED
    BY <2>1, <2>2, <2>3, LeftStays DEF ChainInv
<1>6. PlansBounded'
  BY DEF ChainInv, SkillRefused, PlansBounded
<1> QED
  BY <1>1, <1>4, <1>5, <1>6 DEF ChainInv

LEMMA TaskDagKeeps == ASSUME ChainInv, TaskDag PROVE ChainInv'
<1> USE DEF skills, storeFiles, verdicts, bounds
<1>0. st' = [st EXCEPT !["tasks"] = "COMPLETED"] /\ ChainReady("tasks") /\ UNCHANGED why
  BY DEF TaskDag, Complete
<1>1. /\ InOrder' /\ st' \in [Nodes -> ChainStatus]
      /\ st["tasks"] = "PENDING" /\ \A m \in Nodes \ {"tasks"} : st'[m] = st[m]
  BY <1>0, StepInOrder DEF ChainInv, Nodes, ChainStatus
<1>2. ChainTypeOK'
  BY <1>0, <1>1 DEF ChainInv, ChainTypeOK, TaskDag, ChainStatus
<1>3. Left' /\ Concluded' /\ PackagesEarned' /\ NothingBefore' /\ StoredIsOneExecution'
  <2>1. \A n \in Nodes : st'[n] = "COMPLETED" => st[n] = "COMPLETED" \/ n = "tasks"
    BY <1>1
  <2>2. st["adjudication"] = "COMPLETED" => st'["adjudication"] = "COMPLETED"
    BY <1>1 DEF Nodes
  <2>3. UNCHANGED <<plan, required, registry, work, stored, report, passed, replicated, claims, coverage,
                    packages>>
    BY DEF TaskDag
  <2> QED
    BY <2>1, <2>2, <2>3, LeftStays DEF ChainInv
<1>4. PlansBounded'
  BY DEF ChainInv, TaskDag, PlansBounded
<1> QED
  BY <1>1, <1>2, <1>3, <1>4 DEF ChainInv

LEMMA ExecutionFailsKeeps == ASSUME ChainInv, ExecutionFails PROVE ChainInv'
<1> USE DEF skills, storeFiles, verdicts, bounds
<1>0. PICK r \in {"no skill", "script"} : st' = [st EXCEPT !["execution"] = "FAILED"] /\ why' = r
  BY DEF ExecutionFails, Halt
<1>1. /\ InOrder' /\ st' \in [Nodes -> ChainStatus]
      /\ st'["execution"] # "COMPLETED"
      /\ st["execution"] = "PENDING" /\ \A m \in Nodes \ {"execution"} : st'[m] = st[m]
  BY <1>0, StepInOrder DEF ChainInv, Nodes, ChainStatus, ExecutionFails
<1>2. \A n \in {"execution", "validation", "falsification", "replication", "adjudication", "readiness"} :
        st'[n] # "COMPLETED"
  BY <1>1, StagesInOrder DEF ChainInv, Nodes
<1>3. PICK done \in SUBSET (required \cap registry) : ran' = ran \cup done
  BY DEF ExecutionFails
<1>4. runs + 1 \in Executions /\ 0 \in Executions
  BY RunsAreCounted DEF ChainInv, ExecutionFails
<1>5. ChainTypeOK'
  <2>1. ran' \subseteq Caps
    BY <1>3 DEF ChainInv, ChainTypeOK
  <2>2. why' \in {"nothing", "no skill", "script", "immutable"}
    BY <1>0 DEF ChainInv, ChainTypeOK
  <2>3. runs' \in Executions /\ work' \in Executions
    BY <1>4 DEF ExecutionFails
  <2> QED
    BY <1>1, <2>1, <2>2, <2>3 DEF ChainInv, ChainTypeOK, ExecutionFails, ChainStatus
<1>6. Left' /\ Concluded'
  BY <1>1, <1>2 DEF ChainInv, ExecutionFails, Left, Concluded, Earned, Nodes
<1>7. PlansBounded' /\ NothingBefore' /\ StoredIsOneExecution' /\ PackagesEarned'
  BY DEF ChainInv, ExecutionFails, PlansBounded, NothingBefore, StoredIsOneExecution, PackagesEarned, Earned
<1> QED
  BY <1>1, <1>5, <1>6, <1>7 DEF ChainInv

\* The first execution that is stored: nothing was before.
LEMMA StoringKeeps ==
  ASSUME ChainInv, ExecutionRuns, ~ProvenanceStored, NEW put \in SUBSET Outputs,
         stored' = Put({"provenance"} \cup put, runs')
  PROVE  /\ runs' \in Executions /\ runs' # 0 /\ work' = runs'
         /\ stored' \in [Files -> Executions] /\ stored'["provenance"] = runs'
         /\ \A f \in put : stored'[f] = runs'
         /\ NothingBefore' /\ StoredIsOneExecution'
         /\ ~claims.direct /\ coverage # "SUFFICIENT" /\ packages = {}
<1> USE DEF skills, storeFiles, verdicts, bounds
<1>1. runs' \in Executions /\ runs' # 0 /\ work' = runs'
  BY RunsAreCounted DEF ChainInv, ExecutionRuns
<1>2. /\ \A f \in Files : stored[f] = 0
      /\ ~claims.direct /\ coverage # "SUFFICIENT"
  BY DEF ChainInv, NothingBefore, ProvenanceStored
<1>3. 0 \in Executions /\ "provenance" \in Files
  BY ChainAssumption DEF ChainAssumption, Executions, Files
<1>4. put \subseteq Files
  <2>1. required \subseteq Caps
    BY FilesOfCaps DEF ChainInv, ChainTypeOK
  <2> QED
    BY <2>1, FilesOfCaps DEF Outputs
<1>5. \A f \in Files : stored'[f] = IF f \in {"provenance"} \cup put THEN runs' ELSE 0
  BY <1>2 DEF Put
<1>6. stored' \in [Files -> Executions]
  BY <1>1, <1>2, <1>3 DEF Put
<1>7. StoredIsOneExecution'
  BY <1>5 DEF StoredIsOneExecution
<1>8. NothingBefore'
  BY <1>1, <1>3, <1>5 DEF NothingBefore
<1>9. packages = {}
  BY <1>2 DEF ChainInv, PackagesEarned, Earned, Files
<1> QED
  BY <1>1, <1>2, <1>3, <1>4, <1>5, <1>6, <1>7, <1>8, <1>9

LEMMA ResearchExecutionKeeps == ASSUME ChainInv, ResearchExecution PROVE ChainInv'
<1> USE DEF skills, storeFiles, verdicts, bounds
<1>0. /\ ExecutionRuns /\ ran' = ran \cup required /\ ChainReady("execution")
      /\ UNCHANGED <<plan, required, installed, registry, report, validation, passed, replicated, claims,
                     coverage, packages, repairs, crashes>>
  BY DEF ResearchExecution, ExecutionRuns
<1>1. runs' \in Executions /\ work' \in Executions
  BY <1>0, RunsAreCounted DEF ChainInv, ExecutionRuns
<1>2. ran' \subseteq Caps /\ required \subseteq Caps
  BY <1>0, FilesOfCaps DEF ChainInv, ChainTypeOK
<1>3. PlansBounded'
  BY <1>0 DEF ChainInv, PlansBounded
<1>4. CASE ProvenanceStored
  <2>0. /\ st' = [st EXCEPT !["execution"] = "FAILED"]
        /\ why' = "immutable" /\ stored' = stored
    BY <1>4 DEF ResearchExecution, Halt
  <2>1. /\ InOrder' /\ st' \in [Nodes -> ChainStatus] /\ st'["execution"] = "FAILED"
        /\ st["execution"] = "PENDING" /\ \A m \in Nodes \ {"execution"} : st'[m] = st[m]
    BY <1>0, <2>0, StepInOrder DEF ChainInv, Nodes, ChainStatus
  <2>2. \A n \in {"execution", "validation", "falsification", "replication", "adjudication", "readiness"} :
          st'[n] # "COMPLETED"
    BY <2>1, StagesInOrder DEF ChainInv, Nodes
  <2>3. ChainTypeOK'
    BY <1>0, <1>1, <1>2, <2>0, <2>1 DEF ChainInv, ChainTypeOK, ChainStatus
  <2>4. Left' /\ Concluded'
    BY <1>0, <2>0, <2>1, <2>2 DEF ChainInv, Left, Concluded, Earned, Nodes
  <2>5. NothingBefore' /\ StoredIsOneExecution' /\ PackagesEarned'
    BY <1>0, <2>0 DEF ChainInv, NothingBefore, StoredIsOneExecution, PackagesEarned, Earned
  <2> QED
    BY <1>3, <2>1, <2>3, <2>4, <2>5 DEF ChainInv
<1>5. CASE ~ProvenanceStored
  <2>0. /\ st' = [st EXCEPT !["execution"] = "COMPLETED"]
        /\ why' = why /\ stored' = Put({"provenance"} \cup Outputs, runs')
    BY <1>5 DEF ResearchExecution, Complete
  <2>1. /\ InOrder' /\ st' \in [Nodes -> ChainStatus]
        /\ st["execution"] = "PENDING" /\ \A m \in Nodes \ {"execution"} : st'[m] = st[m]
    BY <1>0, <2>0, StepInOrder DEF ChainInv, Nodes, ChainStatus
  <2>2. \A n \in {"validation", "falsification", "replication", "adjudication", "readiness"} :
          st'[n] # "COMPLETED"
    BY <2>1, StagesInOrder DEF ChainInv, Nodes
  <2>3. /\ runs' \in Executions /\ runs' # 0 /\ work' = runs'
        /\ stored' \in [Files -> Executions] /\ stored'["provenance"] = runs'
        /\ \A f \in Outputs : stored'[f] = runs'
        /\ NothingBefore' /\ StoredIsOneExecution'
        /\ ~claims.direct /\ coverage # "SUFFICIENT" /\ packages = {}
    BY <1>0, <1>5, <2>0, StoringKeeps
  <2>4. \A cap \in required : stored'[FileOf(cap)] = runs'
    BY <2>3 DEF Outputs
  <2>5. ChainTypeOK'
    BY <1>0, <1>1, <1>2, <2>0, <2>1, <2>3 DEF ChainInv, ChainTypeOK, ChainStatus
  <2>6. Left'
    BY <1>0, <2>1, <2>2, <2>3, <2>4 DEF ChainInv, Left, Nodes
  <2>7. Concluded' /\ PackagesEarned'
    BY <1>0, <2>3 DEF Concluded, PackagesEarned
  <2> QED
    BY <1>3, <2>1, <2>3, <2>5, <2>6, <2>7 DEF ChainInv
<1> QED
  BY <1>4, <1>5

LEMMA OutputMissingKeeps == ASSUME ChainInv, OutputMissing PROVE ChainInv'
<1> USE DEF skills, storeFiles, verdicts, bounds
<1>0. /\ ExecutionRuns /\ ~ProvenanceStored /\ ChainReady("execution") /\ ran' = ran \cup required
      /\ st' = [st EXCEPT !["execution"] = "BLOCKED"] /\ why' = why
      /\ UNCHANGED <<plan, required, installed, registry, report, validation, passed, replicated, claims,
                     coverage, packages, repairs, crashes>>
  BY DEF OutputMissing, ExecutionRuns, Halt
<1>1. PICK put \in SUBSET Outputs : stored' = Put({"provenance"} \cup put, runs')
  BY DEF OutputMissing
<1>2. /\ runs' \in Executions /\ work' = runs' /\ stored' \in [Files -> Executions]
      /\ NothingBefore' /\ StoredIsOneExecution'
      /\ ~claims.direct /\ coverage # "SUFFICIENT" /\ packages = {}
  BY <1>0, <1>1, StoringKeeps
<1>3. /\ InOrder' /\ st' \in [Nodes -> ChainStatus] /\ st'["execution"] = "BLOCKED"
      /\ st["execution"] = "PENDING" /\ \A m \in Nodes \ {"execution"} : st'[m] = st[m]
  BY <1>0, StepInOrder DEF ChainInv, Nodes, ChainStatus
<1>4. \A n \in {"execution", "validation", "falsification", "replication", "adjudication", "readiness"} :
        st'[n] # "COMPLETED"
  BY <1>3, StagesInOrder DEF ChainInv, Nodes
<1>5. ran' \subseteq Caps
  BY <1>0, FilesOfCaps DEF ChainInv, ChainTypeOK
<1>6. ChainTypeOK' /\ PlansBounded'
  BY <1>0, <1>2, <1>3, <1>5 DEF ChainInv, ChainTypeOK, PlansBounded, ChainStatus
<1>7. Left' /\ Concluded' /\ PackagesEarned'
  BY <1>0, <1>2, <1>3, <1>4 DEF ChainInv, Left, Concluded, PackagesEarned, Nodes
<1> QED
  BY <1>2, <1>3, <1>6, <1>7 DEF ChainInv

LEMMA CrashAfterOutputsKeeps == ASSUME ChainInv, CrashAfterOutputs PROVE ChainInv'
<1> USE DEF skills, storeFiles, verdicts, bounds
<1>0. /\ ExecutionRuns /\ ~ProvenanceStored /\ ChainReady("execution")
      /\ UNCHANGED <<st, why, ran, repairs, plan, required, installed, registry, report, validation, passed,
                     replicated, claims, coverage, packages>>
  BY DEF CrashAfterOutputs, ExecutionRuns
<1>1. PICK put \in SUBSET Outputs : stored' = Put({"provenance"} \cup put, runs')
  BY DEF CrashAfterOutputs
<1>2. /\ runs' \in Executions /\ work' = runs' /\ stored' \in [Files -> Executions]
      /\ NothingBefore' /\ StoredIsOneExecution'
      /\ ~claims.direct /\ coverage # "SUFFICIENT" /\ packages = {}
  BY <1>0, <1>1, StoringKeeps
<1>3. \A n \in {"execution", "validation", "falsification", "replication", "adjudication", "readiness"} :
        st[n] # "COMPLETED"
  BY <1>0, StagesInOrder DEF ChainInv, ChainReady
<1>4. ChainTypeOK' /\ PlansBounded' /\ InOrder'
  BY <1>0, <1>2 DEF ChainInv, ChainTypeOK, PlansBounded, InOrder
<1>5. Left' /\ Concluded' /\ PackagesEarned'
  BY <1>0, <1>2, <1>3 DEF ChainInv, Left, Concluded, PackagesEarned
<1> QED
  BY <1>2, <1>4, <1>5 DEF ChainInv

LEMMA ValidationKeeps == ASSUME ChainInv, Validation PROVE ChainInv'
<1> USE DEF skills, storeFiles, verdicts, bounds
<1>0. PICK verdict \in {"PASS", "FAIL"} :
        /\ validation' = [verdict |-> verdict, result |-> IF Executable THEN work ELSE stored["metrics"]]
        /\ IF verdict = "PASS"
           THEN /\ passed' = IF Executable THEN passed \cup {[cap |-> "exe", result |-> work]} ELSE passed
                /\ Complete("validation")
           ELSE Halt("validation", "BLOCKED", "method") /\ UNCHANGED passed
  BY DEF Validation
<1>1. /\ ChainReady("validation")
      /\ UNCHANGED <<plan, required, installed, registry, ran, runs, work, stored, report, replicated, claims,
                     coverage, packages, repairs, crashes>>
  BY DEF Validation
<1>2. /\ st' = [st EXCEPT !["validation"] = IF verdict = "PASS" THEN "COMPLETED" ELSE "BLOCKED"]
      /\ why' = why
      /\ passed \subseteq passed'
      /\ passed' \subseteq passed \cup {[cap |-> "exe", result |-> work]}
      /\ verdict = "PASS" /\ Executable => [cap |-> "exe", result |-> work] \in passed'
  BY <1>0 DEF Complete, Halt
<1>3. /\ InOrder' /\ st' \in [Nodes -> ChainStatus]
      /\ st'["validation"] = (IF verdict = "PASS" THEN "COMPLETED" ELSE "BLOCKED")
      /\ st["validation"] = "PENDING" /\ \A m \in Nodes \ {"validation"} : st'[m] = st[m]
  BY <1>1, <1>2, StepInOrder DEF ChainInv, Nodes, ChainStatus
<1>4. \A n \in {"falsification", "replication", "adjudication", "readiness"} : st'[n] # "COMPLETED"
  BY <1>3, StagesInOrder DEF ChainInv, Nodes
<1>5. ChainTypeOK'
  <2>1. validation' \in [verdict : {"NONE", "PASS", "FAIL"}, result : Executions]
    <3>1. work \in Executions /\ stored["metrics"] \in Executions
      BY DEF ChainInv, ChainTypeOK, Files
    <3> QED
      BY <1>0, <3>1
  <2>2. passed' \subseteq [cap : {"exe"}, result : Executions]
    <3>1. [cap |-> "exe", result |-> work] \in [cap : {"exe"}, result : Executions]
      BY DEF ChainInv, ChainTypeOK
    <3>2. passed \subseteq [cap : {"exe"}, result : Executions]
      BY DEF ChainInv, ChainTypeOK
    <3> QED
      BY <1>2, <3>1, <3>2
  <2> QED
    BY <1>1, <1>2, <1>3, <2>1, <2>2 DEF ChainInv, ChainTypeOK, ChainStatus
<1>6. Left'
  BY <1>1, <1>2, <1>3, <1>4 DEF ChainInv, Left, Executable, Nodes
<1>7. Concluded' /\ PackagesEarned'
  BY <1>1, <1>2, <1>3, <1>4 DEF ChainInv, Concluded, PackagesEarned, Earned, Nodes
<1>8. PlansBounded' /\ NothingBefore' /\ StoredIsOneExecution'
  BY <1>1 DEF ChainInv, PlansBounded, NothingBefore, StoredIsOneExecution
<1> QED
  BY <1>3, <1>5, <1>6, <1>7, <1>8 DEF ChainInv

LEMMA FalsificationKeeps == ASSUME ChainInv, Falsification PROVE ChainInv'
<1> USE DEF skills, storeFiles, verdicts, bounds
<1>0. PICK s \in {"COMPLETED", "BLOCKED"} : st' = [st EXCEPT !["falsification"] = s] /\ why' = why
  BY DEF Falsification, Complete, Halt
<1>1. /\ InOrder' /\ st' \in [Nodes -> ChainStatus]
      /\ st["falsification"] = "PENDING" /\ \A m \in Nodes \ {"falsification"} : st'[m] = st[m]
  BY <1>0, StepInOrder DEF ChainInv, Nodes, ChainStatus, Falsification
<1>2. ChainTypeOK'
  BY <1>0, <1>1 DEF ChainInv, ChainTypeOK, Falsification, ChainStatus
<1>3. Left' /\ Concluded' /\ PackagesEarned' /\ NothingBefore' /\ StoredIsOneExecution'
  <2>1. \A n \in Nodes : st'[n] = "COMPLETED" => st[n] = "COMPLETED" \/ n = "falsification"
    BY <1>1
  <2>2. st["adjudication"] = "COMPLETED" => st'["adjudication"] = "COMPLETED"
    BY <1>1 DEF Nodes
  <2>3. UNCHANGED <<plan, required, registry, work, stored, report, passed, replicated, claims, coverage,
                    packages>>
    BY DEF Falsification
  <2> QED
    BY <2>1, <2>2, <2>3, LeftStays DEF ChainInv
<1>4. PlansBounded'
  BY DEF ChainInv, Falsification, PlansBounded
<1> QED
  BY <1>1, <1>2, <1>3, <1>4 DEF ChainInv

\* A second replication finds the report of the first.
LEMMA ReplicationKeeps == ASSUME ChainInv, Replication PROVE ChainInv'
<1> USE DEF skills, storeFiles, verdicts, bounds
<1>1. /\ ChainReady("replication")
      /\ UNCHANGED <<plan, required, installed, registry, ran, runs, work, stored, validation, passed, claims,
                     coverage, packages, repairs, crashes>>
  BY DEF Replication
<1>2. PICK s \in {"COMPLETED", "BLOCKED", "FAILED"} :
        /\ st' = [st EXCEPT !["replication"] = s]
        /\ why' \in {why, "immutable"}
        /\ report' /\ (report => replicated' = replicated)
        /\ replicated' = replicated \/ replicated' \in [status : {"PASSED", "FAILED"}, result : {Compared}]
        /\ s = "COMPLETED" => replicated' = [status |-> "PASSED", result |-> Compared]
  BY DEF Replication, Complete, Halt
<1>3. /\ InOrder' /\ st' \in [Nodes -> ChainStatus] /\ st'["replication"] = s
      /\ st["replication"] = "PENDING" /\ \A m \in Nodes \ {"replication"} : st'[m] = st[m]
  BY <1>1, <1>2, StepInOrder DEF ChainInv, Nodes, ChainStatus
<1>4. \A n \in {"adjudication", "readiness"} : st'[n] # "COMPLETED"
  BY <1>3, StagesInOrder DEF ChainInv, Nodes
<1>5. ChainTypeOK'
  <2>1. Compared \in Executions
    BY DEF ChainInv, ChainTypeOK, Compared, Files
  <2>2. replicated' \in [status : {"NOT_ATTEMPTED", "PASSED", "FAILED"}, result : Executions]
    BY <1>2, <2>1 DEF ChainInv, ChainTypeOK
  <2>3. report' \in BOOLEAN /\ why' \in {"nothing", "no skill", "script", "immutable"}
    BY <1>2 DEF ChainInv, ChainTypeOK, Replication
  <2> QED
    BY <1>1, <1>3, <2>2, <2>3 DEF ChainInv, ChainTypeOK, ChainStatus
<1>6. Compared' = Compared /\ Executable' = Executable
  BY <1>1 DEF Compared, Executable
<1>7. Left'
  BY <1>1, <1>2, <1>3, <1>4, <1>6 DEF ChainInv, Left, Nodes
<1>8. Concluded' /\ PackagesEarned'
  BY <1>1, <1>2, <1>3, <1>4 DEF ChainInv, Concluded, PackagesEarned, Earned, Nodes
<1>9. PlansBounded' /\ NothingBefore' /\ StoredIsOneExecution'
  BY <1>1 DEF ChainInv, PlansBounded, NothingBefore, StoredIsOneExecution
<1> QED
  BY <1>3, <1>5, <1>7, <1>8, <1>9 DEF ChainInv

LEMMA CrashAfterReportKeeps == ASSUME ChainInv, CrashAfterReport PROVE ChainInv'
<1> USE DEF skills, storeFiles, verdicts, bounds
<1>1. ChainTypeOK'
  BY DEF ChainInv, CrashAfterReport, ChainTypeOK
<1>2. PlansBounded' /\ InOrder' /\ NothingBefore' /\ StoredIsOneExecution'
  BY DEF ChainInv, CrashAfterReport, PlansBounded, InOrder, NothingBefore, StoredIsOneExecution
<1>3. Left' /\ Concluded' /\ PackagesEarned'
  BY DEF ChainInv, CrashAfterReport, Left, Concluded, PackagesEarned, Earned, Compared, Executable
<1> QED
  BY <1>1, <1>2, <1>3 DEF ChainInv

\* Claims that answer the question are of the stored result, and come last.
LEMMA AdjudicationKeeps == ASSUME ChainInv, Adjudication PROVE ChainInv'
<1> USE DEF skills, storeFiles, verdicts, bounds
<1>1. /\ ChainReady("adjudication")
      /\ UNCHANGED <<plan, required, installed, registry, ran, runs, work, stored, report, validation, passed,
                     replicated, coverage, packages, repairs, crashes>>
  BY DEF Adjudication
<1>2. PICK direct \in BOOLEAN, s \in {"COMPLETED", "BLOCKED"} :
        /\ direct => Executable
        /\ st' = [st EXCEPT !["adjudication"] = s] /\ why' = why
        /\ s = "COMPLETED" => claims' = [result |-> Compared, direct |-> direct, plan |-> plan.number]
        /\ s = "BLOCKED" => claims' = claims
  BY DEF Adjudication, Complete, Halt
<1>3. /\ InOrder' /\ st' \in [Nodes -> ChainStatus] /\ st'["adjudication"] = s
      /\ st["adjudication"] = "PENDING" /\ \A m \in Nodes \ {"adjudication"} : st'[m] = st[m]
  BY <1>1, <1>2, StepInOrder DEF ChainInv, Nodes, ChainStatus
<1>4. /\ st["replication"] = "COMPLETED" /\ st["validation"] = "COMPLETED"
      /\ st["execution"] = "COMPLETED" /\ st["skills"] = "COMPLETED"
  BY <1>1, ReadyBehind, StagesInOrder DEF ChainInv
<1>5. ~claims.direct /\ coverage # "SUFFICIENT"
  BY <1>3, <1>4 DEF ChainInv, Concluded
<1>6. Executable => Compared = work /\ Compared = stored["result"]
  BY <1>4, FilesOfCaps DEF ChainInv, Left, Executable, Compared
<1>7. ChainTypeOK'
  <2>1. Compared \in Executions
    BY DEF ChainInv, ChainTypeOK, Compared, Files
  <2>2. plan.number \in 0..(MaxChainRepairs + 1)
    BY PlanIsNumbered DEF ChainInv
  <2>3. claims' \in [result : Executions, direct : BOOLEAN, plan : 0..(MaxChainRepairs + 1)]
    <3>1. claims \in [result : Executions, direct : BOOLEAN, plan : 0..(MaxChainRepairs + 1)]
      BY DEF ChainInv, ChainTypeOK
    <3> QED
      BY <1>2, <2>1, <2>2, <3>1
  <2> QED
    BY <1>1, <1>2, <1>3, <2>3 DEF ChainInv, ChainTypeOK, ChainStatus
<1>8. claims'.direct => /\ Executable
                        /\ claims'.result = Compared
                        /\ s = "COMPLETED"
  BY <1>2, <1>5
<1>9. Concluded'
  <2>1. claims'.direct => Earned(claims)'
    BY <1>1, <1>4, <1>6, <1>8 DEF ChainInv, Left, Earned
  <2> QED
    BY <1>1, <1>2, <1>3, <1>5, <2>1 DEF Concluded
<1>10. Left'
  <2>1. s = "COMPLETED" => claims'.plan = plan.number
    BY <1>2
  <2> QED
    BY <1>1, <1>3, <2>1 DEF ChainInv, Left, Executable, Compared, Nodes
<1>11. PackagesEarned' /\ PlansBounded' /\ StoredIsOneExecution'
  BY <1>1 DEF ChainInv, PackagesEarned, Earned, PlansBounded, StoredIsOneExecution
<1>12. NothingBefore'
  BY <1>1, <1>4 DEF ChainInv, NothingBefore, Left
<1> QED
  BY <1>3, <1>7, <1>9, <1>10, <1>11, <1>12 DEF ChainInv

LEMMA RaisesKeeps == ASSUME ChainInv, Raises PROVE ChainInv'
<1> USE DEF skills, storeFiles, verdicts, bounds
<1>0. PICK n \in {"validation", "falsification", "replication", "adjudication"} :
        ChainReady(n) /\ st' = [st EXCEPT ![n] = "FAILED"] /\ why' = "script"
  BY DEF Raises, Halt
<1>1. /\ InOrder' /\ st' \in [Nodes -> ChainStatus] /\ st'[n] = "FAILED"
      /\ st[n] = "PENDING" /\ \A m \in Nodes \ {n} : st'[m] = st[m]
  BY <1>0, StepInOrder DEF ChainInv, Nodes, ChainStatus
<1>2. ChainTypeOK'
  BY <1>0, <1>1 DEF ChainInv, ChainTypeOK, Raises, ChainStatus
<1>3. Left' /\ Concluded' /\ PackagesEarned' /\ NothingBefore' /\ StoredIsOneExecution'
  <2>1. \A m \in Nodes : st'[m] = "COMPLETED" => st[m] = "COMPLETED"
    BY <1>1
  <2>2. st["adjudication"] = "COMPLETED" => st'["adjudication"] = "COMPLETED"
    BY <1>1 DEF Nodes
  <2>3. UNCHANGED <<plan, required, registry, work, stored, report, passed, replicated, claims, coverage,
                    packages>>
    BY DEF Raises
  <2> QED
    BY <2>1, <2>2, <2>3, LeftStays DEF ChainInv
<1>4. PlansBounded'
  BY DEF ChainInv, Raises, PlansBounded
<1> QED
  BY <1>1, <1>2, <1>3, <1>4 DEF ChainInv

\* Sufficient coverage asks for no resolver.
LEMMA SufficientNeedsNoResolver ==
  ASSUME ChainTypeOK, Sufficient
  PROVE  claims.direct /\ required \subseteq {"lit", "exe"}
<1>1. \A p \in passed : p.cap = "exe"
  BY DEF ChainTypeOK
<1> QED
  BY <1>1 DEF Sufficient, RequirementResolved

\* The gate lets a package pass that its own plan has earned.
LEMMA PackagedIsEarned ==
  ASSUME ChainInv, Packaged, UNCHANGED <<plan, required, stored, report, passed, replicated>>,
         st["execution"] = "COMPLETED", st["adjudication"] = "COMPLETED",
         claims.direct, required \subseteq {"lit", "exe"}
  PROVE  /\ PackagesEarned'
         /\ packages' \subseteq [claims : [result : Executions, direct : BOOLEAN,
                                         plan : 0..(MaxChainRepairs + 1)],
                                plan : 1..(MaxChainRepairs + 1)]
<1> DEFINE new == [claims |-> claims, plan |-> plan.number]
<1>1. packages' = packages \cup {new}
  BY DEF Packaged
<1>2. new.claims = claims /\ new.plan = plan.number
  OBVIOUS
<1>3. new \in [claims : [result : Executions, direct : BOOLEAN, plan : 0..(MaxChainRepairs + 1)],
               plan : 1..(MaxChainRepairs + 1)]
  BY DEF ChainInv, ChainTypeOK
<1>4. Earned(claims) /\ claims.plan = plan.number
  BY DEF ChainInv, Concluded, Left
<1>5. plan.caps \cap Resolvers = {}
  <2>1. required = plan.caps
    BY StagesInOrder DEF ChainInv, Left
  <2> QED
    BY <2>1, ChainAssumption DEF ChainAssumption
<1>6. plan.number <= plan.number
  BY PlanIsNumbered DEF ChainInv
<1> HIDE DEF new
<1>7. packages' \subseteq [claims : [result : Executions, direct : BOOLEAN, plan : 0..(MaxChainRepairs + 1)],
                         plan : 1..(MaxChainRepairs + 1)]
  BY <1>1, <1>3 DEF ChainInv, ChainTypeOK
<1>8. PackagesEarned'
  <2> SUFFICES ASSUME NEW p \in packages'
               PROVE  /\ Earned(p.claims)' /\ p.claims.plan = p.plan /\ p.plan <= plan'.number
                      /\ p.plan = plan'.number => plan'.caps \cap Resolvers = {}
    BY DEF PackagesEarned, Earned
  <2>1. CASE p \in packages
    BY <2>1 DEF ChainInv, PackagesEarned, Earned
  <2>2. CASE p = new
    BY <2>2, <1>2, <1>4, <1>5, <1>6 DEF Earned
  <2> QED
    BY <2>1, <2>2, <1>1
<1> QED
  BY <1>7, <1>8

LEMMA ReadinessKeeps == ASSUME ChainInv, Readiness PROVE ChainInv'
<1> USE DEF skills, storeFiles, verdicts, bounds
<1>1. /\ ChainReady("readiness")
      /\ UNCHANGED <<plan, required, installed, registry, ran, runs, work, stored, report, validation, passed,
                     replicated, claims, repairs, crashes>>
      /\ coverage' = SelectedObjectiveCoverage
  BY DEF Readiness
<1>2. PICK s \in {"COMPLETED", "BLOCKED"} :
        /\ st' = [st EXCEPT !["readiness"] = s] /\ why' = why
        /\ packages' = packages \/ (Sufficient /\ Packaged)
  BY DEF Readiness, Complete, Halt
<1>3. /\ InOrder' /\ st' \in [Nodes -> ChainStatus]
      /\ st["readiness"] = "PENDING" /\ \A m \in Nodes \ {"readiness"} : st'[m] = st[m]
  BY <1>1, <1>2, StepInOrder DEF ChainInv, Nodes, ChainStatus
<1>4. st["adjudication"] = "COMPLETED" /\ st["execution"] = "COMPLETED"
  BY <1>1, ReadyBehind, StagesInOrder DEF ChainInv
<1>5. coverage' \in {"SUFFICIENT", "INSUFFICIENT"}
      /\ (coverage' = "SUFFICIENT" => claims.direct /\ required \subseteq {"lit", "exe"})
  BY <1>1, SufficientNeedsNoResolver DEF ChainInv, SelectedObjectiveCoverage
<1>6. /\ PackagesEarned'
      /\ packages' \subseteq [claims : [result : Executions, direct : BOOLEAN,
                                      plan : 0..(MaxChainRepairs + 1)],
                             plan : 1..(MaxChainRepairs + 1)]
  <2>1. CASE packages' = packages
    BY <2>1, <1>1 DEF ChainInv, ChainTypeOK, PackagesEarned, Earned
  <2>2. CASE Sufficient /\ Packaged
    BY <2>2, <1>1, <1>4, PackagedIsEarned, SufficientNeedsNoResolver DEF ChainInv
  <2> QED
    BY <2>1, <2>2, <1>2
<1>7. ChainTypeOK'
  BY <1>1, <1>2, <1>3, <1>5, <1>6 DEF ChainInv, ChainTypeOK, ChainStatus
<1>8. Concluded'
  <2>1. claims.direct => Earned(claims)'
    BY <1>1 DEF ChainInv, Concluded, Earned
  <2> QED
    BY <1>1, <1>3, <1>4, <1>5, <2>1 DEF Concluded, Nodes
<1>9. Left' /\ PlansBounded' /\ StoredIsOneExecution'
  BY <1>1, <1>3 DEF ChainInv, Left, Executable, Compared, PlansBounded, StoredIsOneExecution, Nodes
<1>10. NothingBefore'
  BY <1>1, <1>4 DEF ChainInv, NothingBefore, Left
<1> QED
  BY <1>3, <1>6, <1>7, <1>8, <1>9, <1>10 DEF ChainInv

LEMMA PackageKeeps == ASSUME ChainInv, Package PROVE ChainInv'
<1> USE DEF skills, storeFiles, verdicts, bounds
<1>1. UNCHANGED <<st, why, plan, required, installed, registry, ran, runs, work, stored, report, validation,
                  passed, replicated, claims, coverage, repairs, crashes>>
  BY DEF Package
<1>2. coverage = "SUFFICIENT" /\ st["execution"] = "COMPLETED"
  BY DEF Package, PaperGate
<1>3. claims.direct /\ required \subseteq {"lit", "exe"} /\ st["adjudication"] = "COMPLETED"
  BY <1>2 DEF ChainInv, Concluded
<1>4. Packaged
  BY DEF Package
<1>5. /\ PackagesEarned'
      /\ packages' \subseteq [claims : [result : Executions, direct : BOOLEAN,
                                      plan : 0..(MaxChainRepairs + 1)],
                             plan : 1..(MaxChainRepairs + 1)]
  BY <1>1, <1>2, <1>3, <1>4, PackagedIsEarned
<1>6. ChainTypeOK'
  BY <1>1, <1>5 DEF ChainInv, ChainTypeOK
<1>7. PlansBounded' /\ InOrder' /\ StoredIsOneExecution'
  BY <1>1 DEF ChainInv, PlansBounded, InOrder, StoredIsOneExecution
<1>8. NothingBefore' /\ Left' /\ Concluded'
  BY <1>1 DEF ChainInv, NothingBefore, Left, Concluded, Earned, Compared, Executable
<1> QED
  BY <1>5, <1>6, <1>7, <1>8 DEF ChainInv

LEMMA RepairCoverageKeeps == ASSUME ChainInv, RepairChainCoverage PROVE ChainInv'
<1> USE DEF skills, storeFiles, verdicts, bounds
<1>1. /\ UNCHANGED <<why, plan, required, installed, registry, ran, runs, work, stored, report, validation,
                     passed, replicated, claims, packages, crashes>>
      /\ repairs < MaxChainRepairs /\ repairs' = repairs + 1
      /\ coverage' = SelectedObjectiveCoverage
      /\ st' = IF Sufficient THEN st ELSE [n \in Nodes |-> "PENDING"]
  BY DEF RepairChainCoverage
<1>2. PlansBounded'
  BY <1>1, PlanIsNumbered, ChainAssumption DEF ChainInv, PlansBounded, ChainAssumption
<1>3. coverage' \in {"SUFFICIENT", "INSUFFICIENT"} /\ (coverage' = "SUFFICIENT" <=> Sufficient)
  BY <1>1 DEF SelectedObjectiveCoverage
<1>4. ChainTypeOK'
  BY <1>1, <1>3 DEF ChainInv, ChainTypeOK
<1>5. InOrder' /\ Left'
  BY <1>1 DEF ChainInv, InOrder, Left, Compared, Executable, Nodes
<1>6. StoredIsOneExecution' /\ PackagesEarned'
  BY <1>1 DEF ChainInv, StoredIsOneExecution, PackagesEarned, Earned
<1>7. Sufficient => claims.direct /\ required \subseteq {"lit", "exe"}
  BY SufficientNeedsNoResolver DEF ChainInv
<1>8. NothingBefore'
  BY <1>1, <1>3, <1>7 DEF ChainInv, NothingBefore
<1>9. Concluded'
  <2>1. claims.direct => Earned(claims)'
    BY <1>1 DEF ChainInv, Concluded, Earned
  <2> QED
    BY <1>1, <1>3, <1>7, <2>1 DEF ChainInv, Concluded, Nodes
<1> QED
  BY <1>2, <1>4, <1>5, <1>6, <1>8, <1>9 DEF ChainInv

LEMMA RepairEvidenceKeeps == ASSUME ChainInv, RepairChainEvidence PROVE ChainInv'
<1> USE DEF skills, storeFiles, verdicts, bounds
<1>1. /\ UNCHANGED <<why, required, installed, registry, ran, runs, work, stored, report, validation,
                     passed, replicated, claims, coverage, packages, crashes>>
      /\ repairs < MaxChainRepairs /\ repairs' = repairs + 1
      /\ st' = [n \in Nodes |-> "PENDING"]
      /\ plan'.caps \in Plans /\ plan'.number = plan.number + 1
  BY DEF RepairChainEvidence
<1>2. PlansBounded' /\ plan'.number \in 1..(MaxChainRepairs + 1)
  BY <1>1, PlanIsNumbered, ChainAssumption DEF ChainInv, PlansBounded, ChainAssumption
<1>3. ChainTypeOK'
  BY <1>1, <1>2 DEF ChainInv, ChainTypeOK
<1>4. InOrder' /\ Left'
  BY <1>1 DEF InOrder, Left, Nodes
<1>5. StoredIsOneExecution' /\ NothingBefore'
  BY <1>1 DEF ChainInv, StoredIsOneExecution, NothingBefore
<1>6. Concluded'
  BY <1>1 DEF ChainInv, Concluded, Earned, Nodes
<1>7. PackagesEarned'
  <2>1. \A p \in packages : p.plan \in Nat
    <3>1. \A p \in packages : p.plan \in 1..(MaxChainRepairs + 1)
      BY DEF ChainInv, ChainTypeOK
    <3> QED
      BY <3>1, ChainAssumption DEF ChainAssumption
  <2>2. \A p \in packages : p.plan <= plan'.number /\ p.plan # plan'.number
    BY <1>1, <2>1, PlanIsNumbered DEF ChainInv, PackagesEarned
  <2> QED
    BY <1>1, <2>2 DEF ChainInv, PackagesEarned, Earned
<1> QED
  BY <1>2, <1>3, <1>4, <1>5, <1>6, <1>7 DEF ChainInv

LEMMA ChainInvariance == ChainSpec => []ChainInv
<1>1. ChainInv /\ [ChainNext]_chainVars => ChainInv'
  <2> SUFFICES ASSUME ChainInv, [ChainNext]_chainVars PROVE ChainInv'
    OBVIOUS
  <2>1. CASE UNCHANGED chainVars
    <3> USE DEF chainVars, skills, storeFiles, verdicts, bounds
    <3>1. ChainTypeOK'
      BY <2>1 DEF ChainInv, ChainTypeOK
    <3>2. PlansBounded' /\ InOrder' /\ NothingBefore' /\ StoredIsOneExecution'
      BY <2>1 DEF ChainInv, PlansBounded, InOrder, NothingBefore, StoredIsOneExecution
    <3>3. Left' /\ Concluded' /\ PackagesEarned'
      BY <2>1 DEF ChainInv, Left, Concluded, PackagesEarned, Earned, Compared, Executable
    <3> QED
      BY <3>1, <3>2, <3>3 DEF ChainInv
  <2>2. CASE ChainNext
    BY <2>2, GapAnalysisKeeps, SkillDiscoveryKeeps, SkillRefusedKeeps, TaskDagKeeps, ExecutionFailsKeeps,
       OutputMissingKeeps, ResearchExecutionKeeps, CrashAfterOutputsKeeps, ValidationKeeps, FalsificationKeeps, ReplicationKeeps,
       CrashAfterReportKeeps, AdjudicationKeeps, RaisesKeeps, ReadinessKeeps, PackageKeeps,
       RepairCoverageKeeps, RepairEvidenceKeeps
       DEF ChainNext, Work
  <2> QED
    BY <2>1, <2>2
<1> QED
  BY ChainInvInit, <1>1, PTL DEF ChainSpec

\* The record, the store and the directories of a chain keep their types.
THEOREM ChainTypeCorrect == ChainSpec => []ChainTypeOK
<1>1. ChainInv => ChainTypeOK
  BY DEF ChainInv
<1> QED
  BY ChainInvariance, <1>1, PTL

\* The files in the store are of one execution, however many are started, die
\* between two files or are asked for by repairs (_node_research_execution,
\* src/research_runtime.py).
THEOREM StoredIsAlwaysOneExecution == ChainSpec => []StoredIsOneExecution
<1>1. ChainInv => StoredIsOneExecution
  BY DEF ChainInv
<1> QED
  BY ChainInvariance, <1>1, PTL

\* A package is of a stored result that was validated and replicated, of the plan
\* its claims were made for, and of no plan that a substitute skill would have to
\* resolve, through every repair (paper_readiness_report, src/paper_gate.py).
THEOREM PackagesAreEarned == ChainSpec => []PackageIsEarned
<1>1. ChainInv => PackageIsEarned
  BY DEF ChainInv, PackagesEarned, Earned, PackageIsEarned, PackageIsReplicated, PackageIsOfItsPlan,
         ResolversAreNoEvidence
<1> QED
  BY ChainInvariance, <1>1, PTL

-----------------------------------------------------------------------------
(***************************************************************************)
(* PaperPipeline.  What is written to a package file is never changed, it  *)
(* is only replaced, so that a reference that was compared with the file   *)
(* keeps what it stands for: the lint of a node is one of the content that *)
(* the paper is written from.  Any number of processes may do this at once.*)
(***************************************************************************)

Whole(contents, ref) == ref.content \in DOMAIN contents /\ contents[ref.content] # "torn"
Usable(contents, ref) == Whole(contents, ref) /\ contents[ref.content] # "supporting"

\* A paper that is being made; behind the lint its claims can be used.
Linted(contents, mem) ==
    /\ Whole(contents, mem.ref)
    /\ mem.done >= Lint => Usable(contents, mem.ref)

HasPackage(packageFiles, asked) ==
    IF asked = 0 THEN \E v \in PackageVersions : packageFiles[v] # 0
    ELSE asked \in PackageVersions /\ packageFiles[asked] # 0

PaperProcess ==
    [pc : {"idle", "verified", "loop", "complete", "written"}, mem : Papers, executed : 0..MaxNodes]

\* What a process holds at each of its steps.
ProcessInv(contents, packageFiles, x) ==
    /\ x.pc = "verified" => HasPackage(packageFiles, x.mem.ref.version)
    /\ x.pc = "loop" => /\ x.mem.status \in {"PLANNED_PAPER", "BLOCKED_RESEARCH_NOT_READY"}
                        /\ Linted(contents, x.mem)
    /\ x.pc \in {"complete", "written"} => Usable(contents, x.mem.ref)

PaperInv ==
    /\ PaperTypeOK
    /\ writer # 0 => recorded < MaxVersion
    /\ paper.status = "PLANNED_PAPER" => Linted(quality, paper)
    /\ result # NoRef => Usable(quality, result)
    /\ \A p \in Procs : ProcessInv(quality, files, proc[p])

\* With one process: a paper is complete only once it is written.
PaperCompleteInv ==
    /\ CompletePaperIsWritten
    /\ \A p \in Procs :
          /\ proc[p].pc \in {"loop", "complete", "written"} => paper.status # "PAPER_COMPLETE"
          /\ proc[p].pc = "written" => result = proc[p].mem.ref

\* A set of naturals with a bound has a greatest member.
LEMMA GreatestNat ==
  ASSUME NEW N \in Nat, NEW S \in SUBSET (0..N), S # {}
  PROVE  \E m \in S : \A k \in S : k <= m
<1> DEFINE R == OpToRel(<, Nat)
           T == {n \in Nat : N - n \in S}
<1>1. IsWellFoundedOn(R, Nat)
  BY NatLessThanWellFounded
<1>2. T # {}
  <2>1. PICK k \in S : TRUE
    OBVIOUS
  <2>2. N - k \in Nat /\ N - (N - k) = k
    BY <2>1
  <2> QED
    BY <2>1, <2>2
<1>3. PICK x \in T : \A y \in T : ~ (<<y, x>> \in R)
  BY <1>1, <1>2, WFMin
<1>4. \A y \in T : ~ (y < x)
  BY <1>3 DEF OpToRel
<1>5. \A k \in S : N - k \in T
  BY DEF T
<1>6. x \in Nat /\ N - x \in S
  OBVIOUS
<1>7. \A k \in S : k <= N - x
  <2> HIDE DEF T, R
  <2> QED
    BY <1>4, <1>5, <1>6
<1> QED
  BY <1>6, <1>7

\* Of the packages that exist one has the last path.
LEMMA LastPathExists == ASSUME PaperTypeOK, Exist # {} PROVE LastPath \in Exist
<1> USE PaperAssumption DEF PaperAssumption
<1>1. MaxVersion \in Nat /\ Exist \subseteq 1..MaxVersion
  BY DEF Exist, PackageVersions
<1>2. \A v \in 1..MaxVersion : LeadingDigit(v) \in 0..MaxVersion
  BY <1>1 DEF LeadingDigit
<1> DEFINE D == {LeadingDigit(v) : v \in Exist}
<1>3. PICK d \in D : \A e \in D : e <= d
  <2>1. D \in SUBSET (0..MaxVersion) /\ D # {}
    BY <1>1, <1>2
  <2> HIDE DEF D
  <2> QED
    BY <1>1, <2>1, GreatestNat
<1> DEFINE S == {v \in Exist : LeadingDigit(v) = d}
<1>4. PICK v \in S : \A w \in S : w <= v
  <2>1. S \in SUBSET (0..MaxVersion) /\ S # {}
    BY <1>1
  <2> HIDE DEF S
  <2> QED
    BY <1>1, <2>1, GreatestNat
<1>5. v \in Exist /\ LeadingDigit(v) = d
  OBVIOUS
<1>6. \A w \in Exist : PathAfter(v, w)
  <2> TAKE w \in Exist
  <2>1. LeadingDigit(w) <= d /\ LeadingDigit(w) \in Nat /\ LeadingDigit(v) \in Nat
    BY <1>1, <1>2, <1>3, <1>5
  <2>2. LeadingDigit(w) = d => w <= v
    BY <1>4
  <2>3. v \in Nat /\ w \in Nat
    BY <1>1, <1>5
  <2> QED
    BY <1>5, <2>1, <2>2, <2>3 DEF PathAfter
<1> HIDE DEF D, S
<1> QED
  BY <1>5, <1>6 DEF LastPath

LEMMA ChosenExists ==
  ASSUME PaperTypeOK, NEW asked, HasPackage(files, asked)
  PROVE  Chosen(asked) \in Exist
<1>1. CASE asked = 0
  <2>1. Exist # {}
    BY <1>1 DEF HasPackage, Exist
  <2> QED
    BY <1>1, <2>1, LastPathExists DEF Chosen
<1>2. CASE asked # 0
  BY <1>2 DEF HasPackage, Chosen, Exist
<1> QED
  BY <1>1, <1>2

-----------------------------------------------------------------------------
LEMMA ContentsAreCounted == ASSUME PaperTypeOK PROVE Len(quality) \in Nat /\ DOMAIN quality = 1..Len(quality)
BY DEF PaperTypeOK

LEMMA ProcessType == PaperTypeOK => proc \in [Procs -> PaperProcess]
BY DEF PaperTypeOK, PaperProcess

LEMMA NoPaperTypes ==
  ASSUME PaperTypeOK
  PROVE  NoRef \in Refs /\ NoPaper \in Papers /\ TornPaper \in Papers /\ Blocked \in Papers
<1>1. NoRef \in Refs
  BY ContentsAreCounted, PaperAssumption DEF NoRef, Refs, PaperAssumption
<1> QED
  BY <1>1 DEF NoPaper, TornPaper, Blocked, Paper, Papers, NodeCount

LEMMA IdleIsSound ==
  ASSUME PaperTypeOK
  PROVE  IdlePaper \in PaperProcess /\ ProcessInv(quality, files, IdlePaper)
BY NoPaperTypes, PaperAssumption DEF IdlePaper, PaperProcess, ProcessInv, PaperAssumption

\* A step of a paper command changes no package file.
LEMMA CommandStep ==
  ASSUME PaperInv, UNCHANGED runFiles, NEW p \in Procs, NEW x \in PaperProcess,
         paper' \in Papers, paper'.status = "PLANNED_PAPER" => Linted(quality, paper'),
         result' \in Refs, result' # NoRef => Usable(quality, result'),
         proc' = [proc EXCEPT ![p] = x], ProcessInv(quality, files, x)
  PROVE  PaperInv'
<1>1. Refs' = Refs /\ Papers' = Papers
  BY DEF runFiles, Refs, Papers
<1>2. proc' \in [Procs -> PaperProcess]
  BY ProcessType DEF PaperInv
<1>3. PaperProcess' = PaperProcess
  BY <1>1 DEF PaperProcess
<1>4. PaperTypeOK'
  <2>1. paper'.status = "PLANNED_PAPER" => paper'.ref.content # 0
    BY ContentsAreCounted DEF PaperInv, Linted, Whole
  <2> QED
    BY <1>1, <1>2, <2>1 DEF PaperInv, PaperTypeOK, PaperProcess, runFiles
<1>5. \A q \in Procs : ProcessInv(quality, files, proc'[q])
  BY ProcessType DEF PaperInv
<1> QED
  BY <1>4, <1>5 DEF PaperInv, runFiles

\* A file is replaced by one with a new content, which no reference names.
LEMMA FileStep ==
  ASSUME PaperInv, UNCHANGED <<paper, result, proc>>,
         quality' \in Seq(Qualities), Len(quality) <= Len(quality'),
         \A c \in DOMAIN quality : quality'[c] = quality[c],
         recorded' \in 0..MaxVersion, writer' \in {0, recorded' + 1}, writer' # 0 => recorded' < MaxVersion,
         files' \in [PackageVersions -> 0..Len(quality')],
         \A v \in PackageVersions : files[v] # 0 => files'[v] # 0
  PROVE  PaperInv'
<1>1. /\ Len(quality) \in Nat /\ DOMAIN quality = 1..Len(quality)
      /\ Len(quality') \in Nat /\ DOMAIN quality' = 1..Len(quality')
  BY ContentsAreCounted DEF PaperInv
<1>2. Refs \subseteq Refs'
  BY <1>1 DEF Refs
<1>3. Papers \subseteq Papers'
  BY <1>2 DEF Papers
<1>4. PaperProcess \subseteq PaperProcess'
  BY <1>3 DEF PaperProcess
<1>5. \A ref : (Whole(quality, ref) => Whole(quality', ref)) /\ (Usable(quality, ref) => Usable(quality', ref))
  BY <1>1 DEF Whole, Usable
<1>6. \A asked : HasPackage(files, asked) => HasPackage(files', asked)
  BY DEF HasPackage
<1>7. \A mem : Linted(quality, mem) => Linted(quality', mem)
  BY <1>5 DEF Linted
<1>8. \A x : ProcessInv(quality, files, x) => ProcessInv(quality', files', x)
  BY <1>5, <1>6, <1>7 DEF ProcessInv
<1>9. PaperTypeOK'
  <2>1. proc' \in [Procs -> PaperProcess]'
    BY <1>4, ProcessType DEF PaperInv
  <2>2. paper' \in Papers' /\ result' \in Refs'
    BY <1>2, <1>3 DEF PaperInv, PaperTypeOK
  <2> QED
    BY <2>1, <2>2 DEF PaperInv, PaperTypeOK, PaperProcess
<1> QED
  BY <1>5, <1>7, <1>8, <1>9 DEF PaperInv

LEMMA PaperInvInit == PaperInit => PaperInv
<1> SUFFICES ASSUME PaperInit PROVE PaperInv
  OBVIOUS
<1> USE PaperAssumption DEF PaperAssumption
<1>1. First \in Nat /\ First <= MaxVersion
  OBVIOUS
<1>2. quality \in Seq(Qualities) /\ Len(quality) = First
  BY <1>1 DEF PaperInit, Qualities
<1>3. files \in [PackageVersions -> 0..Len(quality)]
  BY <1>1, <1>2 DEF PaperInit, PackageVersions
<1>4. NoRef \in Refs /\ NoPaper \in Papers
  BY <1>1, <1>2 DEF NoRef, Refs, NoPaper, Paper, Papers, NodeCount
<1>5. IdlePaper \in PaperProcess
  BY <1>4 DEF IdlePaper, PaperProcess
<1>6. PaperTypeOK
  BY <1>2, <1>3, <1>4, <1>5 DEF PaperInit, PaperTypeOK, PaperProcess, NoPaper, Paper
<1> QED
  BY <1>6 DEF PaperInit, PaperInv, NoPaper, Paper, ProcessInv, IdlePaper


-----------------------------------------------------------------------------
\* write_research_package appends a content and gives it to the next version.
LEMMA WriteStep ==
  ASSUME PaperInv, NEW q \in Qualities, Write(q), writer' \in {0, recorded + 1}
  PROVE  PaperInv'
<1> USE PaperAssumption DEF PaperAssumption
<1>1. recorded \in Nat /\ recorded + 1 \in PackageVersions /\ recorded < MaxVersion
  BY DEF Write, PaperInv, PaperTypeOK, PackageVersions
<1>2. quality' = Append(quality, q) /\ quality \in Seq(Qualities)
  BY DEF Write, PaperInv, PaperTypeOK
<1>3. /\ quality' \in Seq(Qualities)
      /\ Len(quality) \in Nat /\ Len(quality') = Len(quality) + 1
      /\ \A c \in DOMAIN quality : quality'[c] = quality[c]
  <2> HIDE DEF Qualities
  <2> QED
    BY <1>2
<1>4. files' = [files EXCEPT ![recorded + 1] = Len(quality')] /\ files \in [PackageVersions -> 0..Len(quality)]
  BY DEF Write, PaperInv, PaperTypeOK
<1>5. files' \in [PackageVersions -> 0..Len(quality')]
  BY <1>1, <1>3, <1>4
<1>6. \A v \in PackageVersions : files[v] # 0 => files'[v] # 0
  BY <1>1, <1>3, <1>4
<1>7. recorded' \in 0..MaxVersion /\ writer' \in {0, recorded' + 1} /\ (writer' # 0 => recorded' < MaxVersion)
  BY <1>1 DEF Write, PaperInv, PaperTypeOK
<1> QED
  BY <1>3, <1>5, <1>6, <1>7, FileStep DEF Write

LEMMA RecordStep ==
  ASSUME PaperInv, RecordPackage \/ WriterDiesUnrecorded \/ FitChanges
  PROVE  PaperInv'
<1>1. UNCHANGED <<paper, result, proc, quality, files>>
  BY DEF RecordPackage, WriterDiesUnrecorded, FitChanges
<1>2. recorded' \in 0..MaxVersion /\ writer' \in {0, recorded' + 1} /\ (writer' # 0 => recorded' < MaxVersion)
  BY PaperAssumption DEF PaperAssumption, RecordPackage, WriterDiesUnrecorded, FitChanges, PaperInv, PaperTypeOK
<1>3. /\ quality' \in Seq(Qualities) /\ Len(quality) <= Len(quality')
      /\ \A c \in DOMAIN quality : quality'[c] = quality[c]
      /\ files' \in [PackageVersions -> 0..Len(quality')]
  BY <1>1, ContentsAreCounted DEF PaperInv, PaperTypeOK
<1> QED
  BY <1>1, <1>2, <1>3, FileStep

\* What a command keeps of the paper and of what was written.
LEMMA PaperKept ==
  ASSUME PaperInv
  PROVE  /\ paper \in Papers /\ (paper.status = "PLANNED_PAPER" => Linted(quality, paper))
         /\ result \in Refs /\ (result # NoRef => Usable(quality, result))
         /\ TornPaper \in Papers /\ TornPaper.status # "PLANNED_PAPER"
BY NoPaperTypes DEF PaperInv, PaperTypeOK, TornPaper, Paper

\* A process that is done, has died or was refused leaves nothing behind.
LEMMA LeaveStep ==
  ASSUME PaperInv, UNCHANGED <<runFiles, result>>, NEW p \in Procs,
         Leave(p) \/ (UNCHANGED proc /\ PaperAt(p, "idle")),
         paper' \in Papers, paper'.status = "PLANNED_PAPER" => Linted(quality, paper')
  PROVE  PaperInv'
<1>1. PICK x \in PaperProcess : proc' = [proc EXCEPT ![p] = x] /\ ProcessInv(quality, files, x)
  <2>1. CASE Leave(p)
    BY <2>1, IdleIsSound DEF Leave, PaperInv
  <2>2. CASE UNCHANGED proc /\ PaperAt(p, "idle")
    <3>1. proc[p] \in PaperProcess /\ proc' = [proc EXCEPT ![p] = proc[p]]
      BY <2>2, ProcessType DEF PaperInv
    <3> QED
      BY <3>1 DEF PaperInv
  <2> QED
    BY <2>1, <2>2
<1> QED
  BY <1>1, PaperKept, CommandStep

\* The reference to a package that was read is whole.
LEMMA RefIsWhole ==
  ASSUME PaperInv, NEW v \in Exist
  PROVE  Ref(v) \in Refs /\ (Reads(v) => Whole(quality, Ref(v)))
BY ContentsAreCounted, PaperAssumption
   DEF PaperInv, PaperTypeOK, Exist, PackageVersions, Ref, Refs, Reads, HasFile, Whole, PaperAssumption

LEMMA StartStep ==
  ASSUME PaperInv, NEW p \in Procs, NEW asked \in Versioned, StartVerified(p, asked)
  PROVE  PaperInv'
<1> DEFINE mem == Paper("NONE", [NoRef EXCEPT !.version = asked], 0)
           x == [proc[p] EXCEPT !.pc = "verified", !.mem = mem]
<1>1. HasPackage(files, asked) /\ asked \in 0..MaxVersion
  <2>1. Chosen(asked) \in Exist
    BY DEF StartVerified, Passes, HasFile
  <2> QED
    BY <2>1, PaperAssumption DEF PaperAssumption, Chosen, Exist, HasPackage
<1>2. mem \in Papers /\ mem.ref.version = asked
  BY <1>1, ContentsAreCounted DEF Paper, Papers, Refs, NoRef, NodeCount, PaperInv
<1>3. proc \in [Procs -> PaperProcess] /\ proc[p] \in PaperProcess
  BY ProcessType DEF PaperInv
<1> HIDE DEF mem
<1>4. x \in PaperProcess /\ x.pc = "verified" /\ x.mem = mem
  BY <1>2, <1>3 DEF PaperProcess
<1>5. proc' = [proc EXCEPT ![p] = x]
  BY <1>3 DEF StartVerified, Goto, mem
<1>6. ProcessInv(quality, files, x)
  BY <1>1, <1>2, <1>4 DEF ProcessInv
<1> HIDE DEF x
<1> QED
  BY <1>4, <1>5, <1>6, PaperKept, CommandStep DEF StartVerified

LEMMA LoadStep == ASSUME PaperInv, NEW p \in Procs, StartLoads(p) PROVE PaperInv'
<1> DEFINE v == Chosen(proc[p].mem.ref.version)
<1>1. v \in Exist
  BY ChosenExists DEF StartLoads, PaperAt, PaperInv, ProcessInv
<1> HIDE DEF v
<1>2. paper' \in Papers /\ (paper'.status = "PLANNED_PAPER" => Linted(quality, paper'))
  <2>1. CASE Reads(v)
    <3>1. paper' = Paper("PLANNED_PAPER", Ref(v), 0)
      BY <2>1 DEF StartLoads, v
    <3> QED
      BY <1>1, <2>1, <3>1, RefIsWhole DEF Paper, Papers, Linted, Lint, NodeCount
  <2>2. CASE ~Reads(v)
    BY <2>2, PaperKept DEF StartLoads, v
  <2> QED
    BY <2>1, <2>2
<1> QED
  BY <1>2, LeaveStep DEF StartLoads

LEMMA RefusalStep ==
  ASSUME PaperInv, NEW p \in Procs, (\E asked \in Versioned : StartRefused(p, asked)) \/ ResumeBlocks(p)
  PROVE  PaperInv'
<1>1. paper' \in Papers /\ paper'.status # "PLANNED_PAPER"
  <2>1. ASSUME NEW asked \in Versioned, StartRefused(p, asked) PROVE paper' \in Papers /\ paper'.status # "PLANNED_PAPER"
    BY <2>1, NoPaperTypes DEF PaperInv, StartRefused, Blocked, Paper
  <2>2. CASE ResumeBlocks(p)
    BY <2>2, PaperKept DEF ResumeBlocks, Papers
  <2> QED
    BY <2>1, <2>2
<1> QED
  BY <1>1, LeaveStep DEF StartRefused, ResumeBlocks

LEMMA ResumeStep == ASSUME PaperInv, NEW p \in Procs, Resume(p) PROVE PaperInv'
<1> DEFINE x == [proc[p] EXCEPT !.pc = "loop", !.mem = paper]
<1>1. proc \in [Procs -> PaperProcess] /\ proc[p] \in PaperProcess
  BY ProcessType DEF PaperInv
<1>2. x \in PaperProcess /\ x.pc = "loop" /\ x.mem = paper
  BY <1>1, PaperKept DEF PaperProcess
<1>3. proc' = [proc EXCEPT ![p] = x]
  BY <1>1 DEF Resume, Goto
<1>4. ProcessInv(quality, files, x)
  BY <1>2, PaperKept DEF ProcessInv, Resume
<1> HIDE DEF x
<1> QED
  BY <1>2, <1>3, <1>4, PaperKept, CommandStep DEF Resume

\* The lint is the fourth node: it refuses, or the claims can be used.
LEMMA NodeIsLinted ==
  ASSUME PaperInv, NEW mem \in Papers, Linted(quality, mem), mem.done < NodeCount,
         mem.status \in {"PLANNED_PAPER", "BLOCKED_RESEARCH_NOT_READY"}
  PROVE  /\ NodeExecuted(mem) \in Papers /\ Linted(quality, NodeExecuted(mem))
         /\ NodeExecuted(mem).status \in {"PLANNED_PAPER", "BLOCKED_RESEARCH_NOT_READY"}
<1>1. CASE mem.done + 1 = Lint /\ quality[mem.ref.content] = "supporting"
  BY <1>1 DEF NodeExecuted, Papers, Linted
<1>2. CASE ~ (mem.done + 1 = Lint /\ quality[mem.ref.content] = "supporting")
  <2>1. NodeExecuted(mem) = [mem EXCEPT !.done = mem.done + 1]
    BY <1>2 DEF NodeExecuted
  <2>2. mem.done + 1 \in 0..NodeCount
    BY DEF Papers, NodeCount
  <2>3. mem.done \in Nat /\ (mem.done + 1 >= Lint => (mem.done + 1 = Lint \/ mem.done >= Lint))
    BY DEF Papers, Lint
  <2>4. NodeExecuted(mem) \in Papers
    BY <2>1, <2>2 DEF Papers
  <2>5. /\ NodeExecuted(mem).ref = mem.ref /\ NodeExecuted(mem).done = mem.done + 1
        /\ NodeExecuted(mem).status = mem.status
    BY <2>1 DEF Papers
  <2>6. mem.done + 1 >= Lint => Usable(quality, mem.ref)
    BY <1>2, <2>3 DEF Linted, Usable
  <2> QED
    BY <2>4, <2>5, <2>6 DEF Linted
<1> QED
  BY <1>1, <1>2

LEMMA NodeStep == ASSUME PaperInv, NEW p \in Procs, PaperNode(p) PROVE PaperInv'
<1> DEFINE after == NodeExecuted(proc[p].mem)
           x == [proc[p] EXCEPT !.mem = after, !.executed = proc[p].executed + 1]
<1>1. proc \in [Procs -> PaperProcess] /\ proc[p] \in PaperProcess
  BY ProcessType DEF PaperInv
<1>2. /\ proc[p].mem \in Papers /\ Linted(quality, proc[p].mem) /\ proc[p].mem.done < NodeCount
      /\ proc[p].mem.status \in {"PLANNED_PAPER", "BLOCKED_RESEARCH_NOT_READY"} /\ proc[p].pc = "loop"
  BY <1>1 DEF PaperNode, PaperAt, PaperInv, ProcessInv, PaperProcess
<1>3. /\ after \in Papers /\ Linted(quality, after)
      /\ after.status \in {"PLANNED_PAPER", "BLOCKED_RESEARCH_NOT_READY"}
  BY <1>2, NodeIsLinted
<1>4. proc' = [proc EXCEPT ![p] = x] /\ paper' = after
  BY <1>1 DEF PaperNode
<1>5. proc[p].executed + 1 \in 0..MaxNodes
  BY <1>1, PaperAssumption DEF PaperNode, PaperProcess, PaperAssumption
<1> HIDE DEF after
<1>6. x \in PaperProcess /\ x.pc = "loop" /\ x.mem = after
  BY <1>1, <1>2, <1>3, <1>5 DEF PaperProcess
<1>7. ProcessInv(quality, files, x)
  BY <1>3, <1>6 DEF ProcessInv
<1> HIDE DEF x
<1> QED
  BY <1>3, <1>4, <1>6, <1>7, PaperKept, CommandStep DEF PaperNode

LEMMA LoopEndStep == ASSUME PaperInv, NEW p \in Procs, LoopEnds(p) PROVE PaperInv'
<1>1. CASE proc[p].mem.done = NodeCount
  <2> DEFINE x == [proc[p] EXCEPT !.pc = "complete", !.mem = [proc[p].mem EXCEPT !.status = "PAPER_COMPLETE"]]
  <2>1. proc \in [Procs -> PaperProcess] /\ proc[p] \in PaperProcess
    BY ProcessType DEF PaperInv
  <2>2. proc[p].mem \in Papers /\ Usable(quality, proc[p].mem.ref)
    BY <1>1, <2>1 DEF LoopEnds, PaperAt, PaperInv, ProcessInv, PaperProcess, Linted, Lint, NodeCount
  <2>3. x \in PaperProcess /\ x.pc = "complete" /\ x.mem.ref = proc[p].mem.ref
    BY <2>1, <2>2 DEF PaperProcess, Papers
  <2>4. proc' = [proc EXCEPT ![p] = x]
    BY <1>1, <2>1 DEF LoopEnds, Goto
  <2>5. ProcessInv(quality, files, x)
    BY <2>2, <2>3 DEF ProcessInv
  <2> HIDE DEF x
  <2> QED
    BY <2>3, <2>4, <2>5, PaperKept, CommandStep DEF LoopEnds
<1>2. CASE proc[p].mem.done # NodeCount
  BY <1>2, PaperKept, LeaveStep DEF LoopEnds
<1> QED
  BY <1>1, <1>2

LEMMA WritePaperStep == ASSUME PaperInv, NEW p \in Procs, WritePaper(p) PROVE PaperInv'
<1> DEFINE x == [proc[p] EXCEPT !.pc = "written", !.mem = proc[p].mem]
<1>1. proc \in [Procs -> PaperProcess] /\ proc[p] \in PaperProcess
  BY ProcessType DEF PaperInv
<1>2. Usable(quality, proc[p].mem.ref) /\ proc[p].mem \in Papers /\ proc[p].mem.ref \in Refs
  BY <1>1 DEF WritePaper, PaperAt, PaperInv, ProcessInv, PaperProcess, Papers
<1>3. x \in PaperProcess /\ x.pc = "written" /\ x.mem = proc[p].mem
  BY <1>1, <1>2 DEF PaperProcess
<1>4. proc' = [proc EXCEPT ![p] = x] /\ result' = proc[p].mem.ref
  BY <1>1 DEF WritePaper, Goto
<1>5. ProcessInv(quality, files, x)
  BY <1>2, <1>3 DEF ProcessInv
<1> HIDE DEF x
<1> QED
  BY <1>2, <1>3, <1>4, <1>5, PaperKept, CommandStep DEF WritePaper

LEMMA SavePaperStep == ASSUME PaperInv, NEW p \in Procs, SavePaper(p) PROVE PaperInv'
<1>1. proc[p] \in PaperProcess
  BY ProcessType DEF PaperInv
<1>2. Usable(quality, proc[p].mem.ref) /\ proc[p].mem \in Papers
  BY <1>1 DEF SavePaper, PaperAt, PaperInv, ProcessInv, PaperProcess
<1> QED
  BY <1>2, LeaveStep DEF SavePaper, Linted, Usable

LEMMA DeathStep == ASSUME PaperInv, NEW p \in Procs, PaperDies(p) PROVE PaperInv'
BY PaperKept, LeaveStep DEF PaperDies

LEMMA PaperInvNext == PaperInv /\ [PaperNext]_paperVars => PaperInv'
<1> SUFFICES ASSUME PaperInv, [PaperNext]_paperVars PROVE PaperInv'
  OBVIOUS
<1>1. CASE UNCHANGED paperVars
  <2>1. UNCHANGED <<recorded, files, writer, quality, fit, paper, result, proc>>
    BY <1>1 DEF paperVars, runFiles
  <2>2. Papers' = Papers /\ Refs' = Refs
    BY <2>1 DEF Papers, Refs
  <2> QED
    BY <2>1, <2>2 DEF PaperInv, PaperTypeOK
<1>2. ASSUME PublishPackage PROVE PaperInv'
  BY <1>2, WriteStep DEF PublishPackage
<1>3. ASSUME PackageWriterDies PROVE PaperInv'
  <2>1. writer' \in {0, recorded + 1} /\ Write("torn") /\ "torn" \in Qualities
    BY <1>3 DEF PackageWriterDies, PaperInv, PaperTypeOK, Qualities
  <2> QED
    BY <2>1, WriteStep
<1>4. ASSUME NEW p \in Procs,
             \/ \E asked \in Versioned : StartRefused(p, asked) \/ StartVerified(p, asked)
             \/ ResumeBlocks(p) \/ Resume(p) \/ Command(p) \/ PaperDies(p)
      PROVE  PaperInv'
  BY <1>4, RefusalStep, StartStep, LoadStep, ResumeStep, NodeStep, LoopEndStep, WritePaperStep,
     SavePaperStep, DeathStep DEF Command
<1> QED
  BY <1>1, <1>2, <1>3, <1>4, RecordStep DEF PaperNext

LEMMA PapersStayLinted == PaperSpec => []PaperInv
BY PaperInvInit, PaperInvNext, PTL DEF PaperSpec

\* However many processes run the paper commands and wherever each dies,
\* every file and every process is in one of its states, and a reference
\* names a content that was written.
THEOREM PaperTypeCorrect == PaperSpec => []PaperTypeOK
<1>1. PaperInv => PaperTypeOK
  BY DEF PaperInv
<1> QED
  BY <1>1, PapersStayLinted, PTL

\* However many processes run the paper commands on however many versions, and
\* whatever is written over a package between a reading, a node and the writing,
\* what is written as a paper stands on claims that passed its lint.
THEOREM PapersStandOnUsableClaims == PaperSpec => []PaperHasUsableClaims
<1>1. PaperInv => PaperHasUsableClaims
  BY DEF PaperInv, PaperHasUsableClaims, Usable, Whole
<1> QED
  BY <1>1, PapersStayLinted, PTL

-----------------------------------------------------------------------------
LEMMA PaperCompleteInit == PaperInit => PaperCompleteInv
BY DEF PaperInit, PaperCompleteInv, CompletePaperIsWritten, NoPaper, Paper, IdlePaper

LEMMA PaperSoundness == PaperInv /\ PaperCompleteInv => PaperIsSound
BY DEF PaperInv, PaperCompleteInv, PaperIsSound, PaperHasUsableClaims, Usable, Whole

LEMMA PaperCompleteNext ==
  ASSUME \A p, q \in Procs : p = q
  PROVE  PaperInv /\ PaperCompleteInv /\ [PaperNext]_paperVars => PaperCompleteInv'
<1> SUFFICES ASSUME PaperInv, PaperCompleteInv, [PaperNext]_paperVars PROVE PaperCompleteInv'
  OBVIOUS
<1>1. ASSUME UNCHANGED <<paper, result, proc>> PROVE PaperCompleteInv'
  BY <1>1 DEF PaperCompleteInv, CompletePaperIsWritten
<1>2. ASSUME NEW p \in Procs,
             \/ \E asked \in Versioned : StartRefused(p, asked) \/ StartVerified(p, asked)
             \/ ResumeBlocks(p) \/ Resume(p) \/ Command(p) \/ PaperDies(p)
      PROVE  PaperCompleteInv'
  <2>1. proc \in [Procs -> PaperProcess] /\ proc[p] \in PaperProcess /\ Procs = {p}
    BY ProcessType DEF PaperInv
  <2> SUFFICES /\ CompletePaperIsWritten'
               /\ proc'[p].pc \in {"loop", "complete", "written"} => paper'.status # "PAPER_COMPLETE"
               /\ proc'[p].pc = "written" => result' = proc'[p].mem.ref
    BY <2>1 DEF PaperCompleteInv
  <2>2. /\ proc[p].pc \in {"loop", "complete", "written"} => paper.status # "PAPER_COMPLETE"
        /\ proc[p].pc = "written" => result = proc[p].mem.ref
        /\ paper.status = "PAPER_COMPLETE" => result = paper.ref
    BY DEF PaperCompleteInv, CompletePaperIsWritten
  <2>3. ASSUME NEW asked \in Versioned, StartRefused(p, asked) PROVE paper'.status = "BLOCKED_RESEARCH_NOT_READY" /\ UNCHANGED proc
    BY <2>3 DEF StartRefused, Blocked, Paper
  <2>4. CASE \E asked \in Versioned : StartRefused(p, asked)
    <3>1. PICK asked \in Versioned : StartRefused(p, asked)
      BY <2>4
    <3>2. paper'.status # "PAPER_COMPLETE" /\ UNCHANGED proc /\ proc[p].pc = "idle"
      BY <2>3, <3>1 DEF StartRefused, PaperAt
    <3> QED
      BY <3>2 DEF CompletePaperIsWritten
  <2>5. CASE \E asked \in Versioned : StartVerified(p, asked)
    BY <2>1, <2>2, <2>5 DEF StartVerified, CompletePaperIsWritten, Goto, PaperProcess
  <2>6. CASE StartLoads(p)
    BY <2>1, <2>2, <2>6 DEF StartLoads, CompletePaperIsWritten, Leave, IdlePaper, Paper
  <2>7. CASE ResumeBlocks(p)
    BY <2>1, <2>2, <2>7, PaperKept DEF ResumeBlocks, CompletePaperIsWritten, Papers
  <2>8. CASE Resume(p)
    BY <2>1, <2>2, <2>8 DEF Resume, CompletePaperIsWritten, Goto, PaperProcess
  <2>9. CASE PaperNode(p)
    <3>1. paper'.status \in {"PLANNED_PAPER", "BLOCKED_RESEARCH_NOT_READY"} /\ proc'[p].pc = "loop"
      <4>1. /\ proc[p].mem \in Papers /\ Linted(quality, proc[p].mem) /\ proc[p].mem.done < NodeCount
            /\ proc[p].mem.status \in {"PLANNED_PAPER", "BLOCKED_RESEARCH_NOT_READY"}
        BY <2>1, <2>9 DEF PaperNode, PaperAt, PaperInv, ProcessInv, PaperProcess
      <4> QED
        BY <2>1, <2>9, <4>1, NodeIsLinted DEF PaperNode, PaperAt, PaperProcess
    <3> QED
      BY <3>1 DEF CompletePaperIsWritten
  <2>10. CASE LoopEnds(p)
    BY <2>1, <2>2, <2>10 DEF LoopEnds, PaperAt, CompletePaperIsWritten, Goto, Leave, IdlePaper, PaperProcess
  <2>11. CASE WritePaper(p)
    BY <2>1, <2>2, <2>11 DEF WritePaper, PaperAt, CompletePaperIsWritten, Goto, PaperProcess
  <2>12. CASE SavePaper(p)
    BY <2>1, <2>2, <2>12 DEF SavePaper, PaperAt, CompletePaperIsWritten, Leave, IdlePaper
  <2>13. CASE PaperDies(p)
    BY <2>1, <2>2, <2>13 DEF PaperDies, CompletePaperIsWritten, Leave, IdlePaper, TornPaper, Paper
  <2> QED
    BY <1>2, <2>4, <2>5, <2>6, <2>7, <2>8, <2>9, <2>10, <2>11, <2>12, <2>13 DEF Command
<1>3. CASE \/ PublishPackage \/ RecordPackage \/ PackageWriterDies \/ WriterDiesUnrecorded
           \/ FitChanges \/ UNCHANGED paperVars
  BY <1>1, <1>3 DEF PublishPackage, RecordPackage, PackageWriterDies, WriterDiesUnrecorded,
                    FitChanges, Write, paperVars
<1> QED
  BY <1>2, <1>3 DEF PaperNext

\* Where one process at a time runs the paper commands, a paper that is said to
\* be complete is the one that was written, wherever a command died.  (Two at
\* once, that may write in any order, do not keep this.)
THEOREM PapersAreSound ==
  ASSUME \A p, q \in Procs : p = q
  PROVE  PaperSpec => []PaperIsSound
BY PaperCompleteInit, PaperSoundness, PapersStayLinted, PaperCompleteNext, PTL DEF PaperSpec

-----------------------------------------------------------------------------
(***************************************************************************)
(* LocalProfile.  Wherever a measurement is kept, in the profile, in an    *)
(* artifact or in the benchmark in progress, its tasks are among those     *)
(* that some trial of the configuration was good for.                      *)
(***************************************************************************)

\* The measurements of a map from configurations are those of trials.
Tried(entry, scores) == \A c \in ModelConfigs : entry[c].tasks \subseteq scores[c]

BenchInv(b, scores) ==
    /\ Tried(b.best, scores)
    /\ b.todo \subseteq b.of
    /\ \A c \in ModelConfigs \ b.of : b.best[c] = Unmeasured

ArtifactsInv(kept, scores) ==
    \A c \in ModelConfigs : \A t \in 0..Trials : kept[c][t].tasks \subseteq scores[c]

Profiles == [kind : {"none", "torn", "built"}, configs : SUBSET ModelConfigs, entry : [ModelConfigs -> TrialResults]]
Benches == [on : BOOLEAN, todo : SUBSET ModelConfigs, trial : 1..Trials,
            best : [ModelConfigs -> TrialResults], of : SUBSET ModelConfigs]

\* A profile whose configurations only have entries.
Confined(x) == \A c \in ModelConfigs \ x.configs : x.entry[c] = Unmeasured

ProfileInv ==
    /\ here \subseteq ModelConfigs /\ fits \subseteq ModelConfigs /\ index \subseteq ModelConfigs
    /\ profile \in Profiles /\ Confined(profile) /\ Tried(profile.entry, scored)
    /\ artifacts \in [ModelConfigs -> [0..Trials -> TrialResults]] /\ ArtifactsInv(artifacts, scored)
    /\ bench \in Benches /\ BenchInv(bench, scored)
    /\ scored \in [ModelConfigs -> SUBSET Tasks]

LEMMA UnmeasuredIsAResult ==
  /\ Unmeasured \in TrialResults /\ Unmeasured.tasks = {} /\ Unmeasured.measured = FALSE
  /\ NoEntries \in [ModelConfigs -> TrialResults] /\ \A c \in ModelConfigs : NoEntries[c] = Unmeasured
BY DEF Unmeasured, TrialResults, Measurement, NoEntries

LEMMA ProfileInvIsTyped == ProfileInv => ProfileTypeOK
<1> SUFFICES ASSUME ProfileInv PROVE ProfileTypeOK
  OBVIOUS
<1>1. \A c \in ModelConfigs \ profile.configs : profile.entry[c] = Unmeasured
  BY DEF ProfileInv, Confined
<1>2. Measured \subseteq profile.configs
  BY DEF Measured
<1> QED
  BY <1>1, <1>2 DEF ProfileInv, ProfileTypeOK, Profiles, Benches

LEMMA NoBenchIsSound ==
  ASSUME NEW scores \in [ModelConfigs -> SUBSET Tasks]
  PROVE  NoBench \in Benches /\ BenchInv(NoBench, scores) /\ NoBench.on = FALSE
BY UnmeasuredIsAResult, ProfileAssumption DEF NoBench, Benches, BenchInv, Tried, ProfileAssumption

LEMMA EmptyProfileIsSound ==
  ASSUME NEW scores \in [ModelConfigs -> SUBSET Tasks], NEW x \in {NoProfile, TornProfile}
  PROVE  x \in Profiles /\ Confined(x) /\ Tried(x.entry, scores) /\ x.configs = {}
BY UnmeasuredIsAResult DEF NoProfile, TornProfile, Profile, Profiles, Confined, Tried

\* build_profile keeps what was measured of the configurations it finds.
LEMMA BuiltIsSound ==
  ASSUME ProfileInv
  PROVE  /\ Found \subseteq ModelConfigs
         /\ Built(profile) \in Profiles /\ Confined(Built(profile)) /\ Tried(Built(profile).entry, scored)
         /\ Built(profile).configs = Found
         /\ \A c \in Found : Built(profile).entry[c] = profile.entry[c]
<1>1. Found \subseteq ModelConfigs
  BY DEF Found, ProfileInv
<1>2. profile.entry \in [ModelConfigs -> TrialResults]
  BY DEF ProfileInv, Profiles
<1> DEFINE e == [c \in ModelConfigs |-> IF c \in Found THEN profile.entry[c] ELSE Unmeasured]
<1>3. e \in [ModelConfigs -> TrialResults] /\ Tried(e, scored)
  BY <1>2, UnmeasuredIsAResult DEF Tried, ProfileInv
<1>4. (\A c \in Found : e[c] = profile.entry[c]) /\ (\A c \in ModelConfigs \ Found : e[c] = Unmeasured)
  BY <1>1
<1>5. Built(profile) = [kind |-> "built", configs |-> Found, entry |-> e]
  BY DEF Built, Profile
<1> HIDE DEF e
<1> QED
  BY <1>1, <1>3, <1>4, <1>5 DEF Profiles, Confined

\* The artifact of a smoke test takes the entry of its configuration.
LEMMA SmokedIsSound ==
  ASSUME ProfileInv, profile' = Built(profile), Smoked(Found)
  PROVE  artifacts' \in [ModelConfigs -> [0..Trials -> TrialResults]] /\ ArtifactsInv(artifacts', scored)
<1> DEFINE e == profile'.entry
<1>1. e \in [ModelConfigs -> TrialResults] /\ Tried(e, scored)
  BY BuiltIsSound DEF Profiles
<1>2. artifacts \in [ModelConfigs -> [0..Trials -> TrialResults]] /\ ArtifactsInv(artifacts, scored)
  BY DEF ProfileInv
<1>3. 0 \in 0..Trials
  BY ProfileAssumption DEF ProfileAssumption
<1>4. \A c \in ModelConfigs :
        artifacts'[c] = IF c \in Earliest(Found) THEN [artifacts[c] EXCEPT ![0] = e[c]] ELSE artifacts[c]
  BY DEF Smoked
<1>5. artifacts' = [c \in ModelConfigs |-> artifacts'[c]]
  BY DEF Smoked
<1> HIDE DEF e
<1>6. \A c \in ModelConfigs : artifacts'[c] \in [0..Trials -> TrialResults]
  BY <1>1, <1>2, <1>4
<1>7. ArtifactsInv(artifacts', scored)
  BY <1>1, <1>2, <1>3, <1>4 DEF ArtifactsInv, Tried
<1> QED
  BY <1>5, <1>6, <1>7

LEMMA ProfileInvInit == ProfileInit => ProfileInv
<1> SUFFICES ASSUME ProfileInit PROVE ProfileInv
  OBVIOUS
<1>1. scored \in [ModelConfigs -> SUBSET Tasks]
  BY DEF ProfileInit
<1>2. artifacts \in [ModelConfigs -> [0..Trials -> TrialResults]] /\ ArtifactsInv(artifacts, scored)
  BY UnmeasuredIsAResult DEF ProfileInit, ArtifactsInv
<1> QED
  BY <1>1, <1>2, NoBenchIsSound, EmptyProfileIsSound DEF ProfileInit, ProfileInv

-----------------------------------------------------------------------------
LEMMA RebuildStep ==
  ASSUME ProfileInv, Build \/ Smoke
  PROVE  ProfileInv'
<1>1. Rebuild /\ UNCHANGED bench
  BY DEF Build, Smoke, evidence
<1>2. artifacts' \in [ModelConfigs -> [0..Trials -> TrialResults]] /\ ArtifactsInv(artifacts', scored)
  <2>1. CASE Build
    BY <2>1 DEF Build, evidence, ProfileInv
  <2>2. CASE Smoke
    BY <2>2, SmokedIsSound DEF Smoke, Rebuild
  <2> QED
    BY <2>1, <2>2
<1> QED
  BY <1>1, <1>2, BuiltIsSound DEF Rebuild, environment, ProfileInv

LEMMA BenchmarkStartStep == ASSUME ProfileInv, BenchmarkStarts PROVE ProfileInv'
<1>1. Foremost(Found) \subseteq ModelConfigs
  BY BuiltIsSound DEF Foremost
<1>2. bench' \in Benches /\ BenchInv(bench', scored)
  <2> HIDE DEF ProfileInv
  <2>1. scored \in [ModelConfigs -> SUBSET Tasks]
    BY DEF ProfileInv
  <2> QED
    BY <1>1, <2>1, NoBenchIsSound, UnmeasuredIsAResult DEF BenchmarkStarts, NoBench, Benches, BenchInv, Tried
<1>3. artifacts' \in [ModelConfigs -> [0..Trials -> TrialResults]] /\ ArtifactsInv(artifacts', scored)
  BY SmokedIsSound DEF BenchmarkStarts, Rebuild
<1> QED
  BY <1>2, <1>3, BuiltIsSound DEF BenchmarkStarts, Rebuild, environment, ProfileInv

LEMMA TrialStep == ASSUME ProfileInv, NEW c \in ModelConfigs, NEW e \in TrialResults, Trial(c, e) PROVE ProfileInv'
<1> USE ProfileAssumption DEF ProfileAssumption
<1>1. e.tasks \in SUBSET Tasks
  BY DEF TrialResults, Measurement
<1>2. /\ scored' \in [ModelConfigs -> SUBSET Tasks]
      /\ \A d \in ModelConfigs : scored[d] \subseteq scored'[d]
      /\ e.tasks \subseteq scored'[c]
  BY <1>1 DEF ProfileInv, Trial
<1>3. bench.trial \in 1..Trials /\ bench.best \in [ModelConfigs -> TrialResults]
  BY DEF ProfileInv, Benches
<1>4. Tried(profile.entry, scored')
  BY <1>2 DEF ProfileInv, Tried
<1>5. artifacts' \in [ModelConfigs -> [0..Trials -> TrialResults]] /\ ArtifactsInv(artifacts', scored')
  <2>1. artifacts \in [ModelConfigs -> [0..Trials -> TrialResults]] /\ ArtifactsInv(artifacts, scored)
    BY DEF ProfileInv
  <2>2. artifacts' = [artifacts EXCEPT ![c] = [artifacts[c] EXCEPT ![bench.trial] = e]]
    BY DEF Trial
  <2>3. artifacts' \in [ModelConfigs -> [0..Trials -> TrialResults]]
    BY <1>3, <2>1, <2>2
  <2>4. \A d \in ModelConfigs : \A t \in 0..Trials : artifacts'[d][t] = artifacts[d][t] \/ (d = c /\ artifacts'[d][t] = e)
    BY <1>3, <2>1, <2>2
  <2> QED
    BY <1>2, <2>1, <2>3, <2>4 DEF ArtifactsInv
<1>6. \E b \in {e, bench.best[c]}, n \in 1..Trials, rest \in SUBSET bench.todo :
         bench' = [bench EXCEPT !.trial = n, !.todo = rest, !.best = [bench.best EXCEPT ![c] = b]]
  <2>1. bench' = [bench EXCEPT
                    !.trial = IF bench.trial = Trials THEN 1 ELSE bench.trial + 1,
                    !.todo = IF bench.trial = Trials THEN bench.todo \ {c} ELSE bench.todo,
                    !.best = [bench.best EXCEPT ![c] = IF bench.trial = 1 \/ Better(e, bench.best[c])
                                                      THEN e ELSE bench.best[c]]]
    BY DEF Trial
  <2>2. (IF bench.trial = Trials THEN 1 ELSE bench.trial + 1) \in 1..Trials
    BY <1>3
  <2>3. (IF bench.trial = Trials THEN bench.todo \ {c} ELSE bench.todo) \in SUBSET bench.todo
    OBVIOUS
  <2>4. (IF bench.trial = 1 \/ Better(e, bench.best[c]) THEN e ELSE bench.best[c]) \in {e, bench.best[c]}
    OBVIOUS
  <2> QED
    BY <2>1, <2>2, <2>3, <2>4
<1>7. bench' \in Benches /\ BenchInv(bench', scored')
  <2>1. PICK b \in {e, bench.best[c]}, n \in 1..Trials, rest \in SUBSET bench.todo :
         bench' = [bench EXCEPT !.trial = n, !.todo = rest, !.best = [bench.best EXCEPT ![c] = b]]
    BY <1>6
  <2>2. bench \in Benches /\ BenchInv(bench, scored)
    BY DEF ProfileInv
  <2>3. b \in TrialResults /\ b.tasks \subseteq scored'[c]
    BY <1>2, <1>3, <2>2 DEF BenchInv, Tried
  <2>4. c \in bench.of
    BY <2>2 DEF Trial, Earliest, BenchInv
  <2>5. /\ bench'.best = [bench.best EXCEPT ![c] = b] /\ bench'.of = bench.of /\ bench'.todo = rest
        /\ bench'.trial = n /\ bench' \in Benches
    BY <1>3, <2>1, <2>2, <2>3 DEF Benches
  <2>6. Tried(bench'.best, scored')
    BY <1>2, <1>3, <2>2, <2>3, <2>5 DEF BenchInv, Tried
  <2> QED
    BY <1>3, <2>2, <2>4, <2>5, <2>6 DEF BenchInv
<1> QED
  BY <1>2, <1>4, <1>5, <1>7 DEF Trial, environment, ProfileInv

LEMMA BenchmarkEndStep == ASSUME ProfileInv, BenchmarkEnds PROVE ProfileInv'
<1>1. profile' \in Profiles /\ Confined(profile') /\ Tried(profile'.entry, scored)
  <2>1. bench \in Benches /\ BenchInv(bench, scored)
    BY DEF ProfileInv
  <2>2. profile' = [kind |-> "built", configs |-> bench.of, entry |-> bench.best]
    BY DEF BenchmarkEnds, Profile
  <2> QED
    BY <2>1, <2>2 DEF BenchInv, Benches, Profiles, Confined
<1> QED
  BY <1>1, NoBenchIsSound DEF BenchmarkEnds, environment, ProfileInv

LEMMA LoadStored ==
  ASSUME NEW c \in ModelConfigs, NEW e \in MostTasks(Stored(c))
  PROVE  e.measured /\ \E t \in 0..Trials : e = artifacts[c][t]
BY DEF MostTasks, Stored

\* A request restores the measurement of an artifact, or leaves the entry.
LEMMA ProfileLoadStep == ASSUME ProfileInv, Load PROVE ProfileInv'
<1>1. PICK entry \in [ModelConfigs -> TrialResults] : RestoredEntries(entry) /\ profile' = [profile EXCEPT !.entry = entry]
  BY DEF Load
<1>2. profile \in Profiles /\ Confined(profile) /\ Tried(profile.entry, scored)
  BY DEF ProfileInv
<1>3. Tried(entry, scored)
  BY <1>1, <1>2, LoadStored DEF RestoredEntries, ProfileInv, ArtifactsInv, Tried
<1>4. \A c \in ModelConfigs \ profile.configs : entry[c] = Unmeasured
  BY <1>1, <1>2 DEF RestoredEntries, Confined
<1>5. profile' \in Profiles /\ Confined(profile') /\ Tried(profile'.entry, scored)
  BY <1>1, <1>2, <1>3, <1>4 DEF Profiles, Confined
<1> QED
  BY <1>5 DEF Load, environment, evidence, ProfileInv

LEMMA ProfileInvNext == ProfileInv /\ [ProfileNext]_profileVars => ProfileInv'
<1> SUFFICES ASSUME ProfileInv, [ProfileNext]_profileVars PROVE ProfileInv'
  OBVIOUS
<1>1. CASE UNCHANGED profileVars
  BY <1>1 DEF profileVars, environment, evidence, ProfileInv
<1>2. CASE EnvironmentChanges
  BY <1>2, ProfileAssumption DEF EnvironmentChanges, evidence, ProfileInv, ProfileAssumption
<1>3. CASE BenchmarkDies \/ ProcessDies
  <2>1. UNCHANGED <<here, fits, index, artifacts, scored>> /\ bench' \in {bench, NoBench} /\ profile' \in {profile, TornProfile}
    BY <1>3 DEF BenchmarkDies, ProcessDies, environment
  <2>2. scored \in [ModelConfigs -> SUBSET Tasks]
    BY DEF ProfileInv
  <2> QED
    BY <2>1, <2>2, NoBenchIsSound, EmptyProfileIsSound DEF ProfileInv
<1> QED
  BY <1>1, <1>2, <1>3, RebuildStep, BenchmarkStartStep, TrialStep, BenchmarkEndStep, ProfileLoadStep DEF ProfileNext

LEMMA ProfileStaysTried == ProfileSpec => []ProfileInv
BY ProfileInvInit, ProfileInvNext, PTL DEF ProfileSpec

\* The profile, its index, the artifacts and the benchmark keep their form,
\* and the profile has entries of its own configurations only, whatever is
\* built, measured, torn and restored in whatever order.
THEOREM ProfileTypeCorrect == ProfileSpec => []ProfileTypeOK
BY ProfileStaysTried, ProfileInvIsTyped, PTL

-----------------------------------------------------------------------------
\* build_profile and smoke_test take no measurement away, and where nothing was
\* measured and the configurations stay they change nothing.
LEMMA RebuildKeeps ==
  ASSUME ProfileInv, Rebuild
  PROVE  /\ \A c \in Measured \cap profile'.configs : profile'.entry[c] = profile.entry[c]
         /\ profile.kind = "built" /\ profile'.configs = profile.configs => profile' = profile
<1>1. profile' = Built(profile) /\ profile \in Profiles /\ profile' \in Profiles
  BY BuiltIsSound DEF Rebuild, ProfileInv
<1>2. \A c \in Found : profile'.entry[c] = profile.entry[c]
  BY <1>1, BuiltIsSound
<1>3. ASSUME profile.kind = "built", profile'.configs = profile.configs PROVE profile' = profile
  <2>1. \A c \in ModelConfigs : profile'.entry[c] = profile.entry[c]
    BY <1>1, <1>2, <1>3, BuiltIsSound DEF Confined, ProfileInv
  <2>2. profile'.entry = profile.entry
    BY <1>1, <2>1 DEF Profiles
  <2>3. profile'.kind = "built"
    BY <1>1 DEF Built, Profile
  <2> QED
    BY <1>1, <1>3, <2>2, <2>3 DEF Profiles
<1> QED
  BY <1>1, <1>2, <1>3, BuiltIsSound

LEMMA ProfileActionStep == ProfileInv /\ ProfileNext => MeasurementStays /\ TornProfileRecovers
<1> SUFFICES ASSUME ProfileInv, ProfileNext PROVE MeasurementStays /\ TornProfileRecovers
  OBVIOUS
<1>1. ASSUME UNCHANGED profile PROVE MeasurementStays /\ TornProfileRecovers
  BY <1>1 DEF MeasurementStays, TornProfileRecovers
<1>2. CASE Build \/ Smoke \/ BenchmarkStarts
  BY <1>2, RebuildKeeps DEF Build, Smoke, BenchmarkStarts, MeasurementStays, TornProfileRecovers
<1>3. CASE BenchmarkEnds
  <2>1. profile'.configs = bench.of /\ bench.on /\ bench' = NoBench /\ NoBench.on = FALSE
    BY <1>3 DEF BenchmarkEnds, Profile, NoBench
  <2>2. bench' # bench
    BY <2>1
  <2> QED
    BY <2>1, <2>2 DEF MeasurementStays, TornProfileRecovers, evidence
<1>4. CASE Load
  <2>1. PICK entry \in [ModelConfigs -> TrialResults] : RestoredEntries(entry) /\ profile' = [profile EXCEPT !.entry = entry]
    BY <1>4 DEF Load
  <2>2. profile \in Profiles
    BY DEF ProfileInv
  <2>3. profile'.entry = entry /\ profile.configs \subseteq ModelConfigs
    BY <2>1, <2>2 DEF Profiles
  <2>4. ASSUME NEW c \in profile.configs, NEW t \in 1..Trials, artifacts[c][t].measured PROVE entry[c].measured
    <3>1. artifacts[c][t] \in Stored(c)
      BY <2>4, ProfileAssumption DEF Stored, ProfileAssumption
    <3> QED
      BY <2>1, <2>3, <3>1, LoadStored DEF RestoredEntries
  <2> QED
    BY <1>4, <2>3, <2>4 DEF Load, MeasurementStays, TornProfileRecovers
<1>5. CASE ProcessDies
  BY <1>5 DEF ProcessDies, TornProfile, Profile, MeasurementStays, TornProfileRecovers
<1> QED
  BY <1>1, <1>2, <1>3, <1>4, <1>5 DEF ProfileNext, EnvironmentChanges, Trial, BenchmarkDies, evidence

\* Whatever is discovered, tested, benchmarked, torn and restored in whatever
\* order, also during a benchmark: only the end of a benchmark takes a
\* measurement away, a request restores what a torn profile lost, and a
\* candidate for a task once passed a trial of it.
THEOREM ProfilesAreMeasured == ProfileSpec => ProfileIsMeasured
<1>1. ProfileInv' => CandidatesWereTried'
  BY DEF ProfileInv, Profiles, Tried, CandidatesWereTried, Candidates
<1>2. ProfileInv /\ [ProfileNext]_profileVars /\ ProfileInv'
        => [MeasurementStays /\ TornProfileRecovers /\ CandidatesWereTried']_profileVars
  BY <1>1, ProfileActionStep
<1> QED
  BY <1>2, ProfileStaysTried, PTL DEF ProfileSpec, ProfileIsMeasured

-----------------------------------------------------------------------------
(***************************************************************************)
(* ExternalContinuation.  What a worker continues and what a recovery      *)
(* names are answers that were given and are not applied, and a decision   *)
(* that is open has no answer.  Each operator of the worker, of a human    *)
(* and of the repair keeps this, and with it the applied answers.          *)
(***************************************************************************)

NamesAnAnswer(s, d) == d # 0 => s.answer[d] # "none" /\ s.continuation[d] # "APPLIED"

RunInv(s) ==
    /\ s \in Run
    /\ s.refinement = "WAITING_FOR_HUMAN" => s.open # {}
    /\ NamesAnAnswer(s, s.recovery) /\ NamesAnAnswer(s, s.active)
    /\ s.open \subseteq 1..s.asked
    /\ \A d \in Ids : s.answer[d] # "none" => d \in 1..s.asked /\ d \notin s.open
    /\ \A d \in Ids : s.continuation[d] # "none" => s.answer[d] # "none"

\* What a step may make of a run record.
Continues(s, t) ==
    /\ RunInv(t)
    /\ \A d \in Ids : s.continuation[d] = "APPLIED" => t.continuation[d] = "APPLIED"
    /\ \A d \in Ids : d \in t.failed \ s.failed => d \notin t.used

ContinuationInv == RunInv(answered) /\ asking \in {"idle", "local", "observable", "informativeness"}

LEMMA IdsAreNumbered == Ids = 1..MaxDecisions /\ MaxDecisions \in Nat /\ MaxLeft \in Nat
BY ContinuationAssumption DEF Ids, ContinuationAssumption

\* The parts of a run record.
LEMMA RunParts ==
  ASSUME NEW s \in Run
  PROVE  /\ s.status \in {"PLANNED_RESEARCH"} \cup Stop
         /\ s.refinement \in RefinementStatus /\ s.feasibility \in RefinementStatus
         /\ s.asked \in 0..MaxDecisions /\ s.open \in SUBSET Ids /\ s.atomic \in SUBSET Ids
         /\ s.answer \in [Ids -> {"none"} \cup AnswerKind]
         /\ s.continuation \in [Ids -> Continuation]
         /\ s.used \in SUBSET Ids /\ s.failed \in SUBSET Ids
         /\ s.recovery \in 0..MaxDecisions /\ s.active \in 0..MaxDecisions /\ s.left \in 0..MaxLeft
BY DEF Run

LEMMA SameRunContinues == ASSUME NEW s, RunInv(s) PROVE Continues(s, s)
BY DEF Continues

\* A status of the run and of the nodes, and the iterations left.
LEMMA StatusContinues ==
  ASSUME NEW s, RunInv(s), NEW refinement \in RefinementStatus \ {"WAITING_FOR_HUMAN"},
         NEW status \in {"PLANNED_RESEARCH"} \cup Stop, NEW left \in 0..MaxLeft
  PROVE  Continues(s, [s EXCEPT !.refinement = refinement, !.status = status, !.left = left])
<1> DEFINE t == [s EXCEPT !.refinement = refinement, !.status = status, !.left = left]
<1>1. t \in Run
  BY DEF RunInv, Run
<1>2. /\ t.refinement = refinement /\ t.open = s.open /\ t.recovery = s.recovery /\ t.active = s.active
      /\ t.asked = s.asked /\ t.answer = s.answer /\ t.continuation = s.continuation
      /\ t.failed = s.failed
  BY DEF RunInv, Run
<1> HIDE DEF t
<1>3. Continues(s, t)
  BY <1>1, <1>2 DEF Continues, RunInv, NamesAnAnswer
<1> QED
  BY <1>3 DEF t

LEMMA ContinuesFurther ==
  ASSUME NEW s, NEW t, NEW u, Continues(s, t), t.failed = s.failed, Continues(t, u)
  PROVE  Continues(s, u)
BY DEF Continues

\* _block, with or without an iteration less.
LEMMA BlockContinues ==
  ASSUME NEW s, RunInv(s), NEW status \in Stop \ {"WAITING_FOR_HUMAN"}
  PROVE  Continues(s, BlockRefinement(s, status)) /\ BlockRefinement(s, status).failed = s.failed
<1>1. s.left \in 0..MaxLeft /\ status \in RefinementStatus \ {"WAITING_FOR_HUMAN"}
  BY RunParts DEF RunInv, RefinementStatus
<1>2. BlockRefinement(s, status) = [s EXCEPT !.refinement = status, !.status = status, !.left = s.left]
  BY DEF BlockRefinement, RunInv, Run
<1>3. BlockRefinement(s, status).failed = s.failed
  BY DEF BlockRefinement, RunInv, Run
<1>4. Continues(s, [s EXCEPT !.refinement = status, !.status = status, !.left = s.left])
  BY <1>1, StatusContinues
<1> QED
  BY <1>2, <1>3, <1>4

\* _external_reasoning_required: a decision that no answer has.
LEMMA AskContinues ==
  ASSUME NEW s, RunInv(s), s.asked < MaxDecisions
  PROVE  Continues(s, Ask(s, TRUE)) /\ Continues(s, Ask(s, FALSE))
<1> DEFINE d == s.asked + 1
           t(atomic) == [s EXCEPT !.refinement = "WAITING_FOR_HUMAN", !.status = "WAITING_FOR_HUMAN",
                                  !.asked = d, !.open = s.open \cup {d}, !.atomic = atomic]
<1>1. d \in Ids /\ d \in 0..MaxDecisions /\ s.asked \in Nat
  BY IdsAreNumbered, RunParts DEF RunInv
<1>2. ASSUME NEW atomic \in SUBSET Ids PROVE Continues(s, t(atomic))
  <2>1. t(atomic) \in Run
    BY <1>1 DEF RunInv, Run, RefinementStatus, Stop
  <2>2. /\ t(atomic).open = s.open \cup {d} /\ t(atomic).recovery = s.recovery /\ t(atomic).active = s.active
        /\ t(atomic).asked = d /\ t(atomic).answer = s.answer /\ t(atomic).continuation = s.continuation
        /\ t(atomic).failed = s.failed
    BY DEF RunInv, Run
  <2>3. 1..s.asked \subseteq 1..d /\ d \in 1..d /\ d \notin 1..s.asked
    BY <1>1
  <2> HIDE DEF t, d
  <2> QED
    BY <2>1, <2>2, <2>3 DEF Continues, RunInv, NamesAnAnswer
<1>3. Ask(s, TRUE) = t(s.atomic \cup {d}) /\ Ask(s, FALSE) = t(s.atomic)
  BY DEF Ask, BlockRefinement, RunInv, Run
<1>4. s.atomic \in SUBSET Ids /\ s.atomic \cup {d} \in SUBSET Ids
  BY <1>1, RunParts DEF RunInv
<1> HIDE DEF t, d
<1> QED
  BY <1>2, <1>3, <1>4

\* An entry that is marked names the answer that is being continued.
LEMMA MarkContinues ==
  ASSUME NEW s, RunInv(s), NEW status \in Continuation \ {"none", "APPLIED"}
  PROVE  /\ Continues(s, Mark(s, status)) /\ Mark(s, status).failed = s.failed
         /\ Mark(s, status).active = s.active /\ Mark(s, status).asked = s.asked
<1>1. CASE s.active = 0
  BY <1>1, SameRunContinues DEF Mark
<1>2. CASE s.active # 0
  <2> DEFINE t == [s EXCEPT !.continuation = [s.continuation EXCEPT ![s.active] = status]]
  <2>1. s.active \in Ids
    BY <1>2, IdsAreNumbered, RunParts DEF RunInv
  <2>2. t \in Run
    BY DEF RunInv, Run
  <2>3. /\ t.refinement = s.refinement /\ t.open = s.open /\ t.recovery = s.recovery /\ t.active = s.active
        /\ t.asked = s.asked /\ t.answer = s.answer /\ t.failed = s.failed
        /\ t.continuation = [s.continuation EXCEPT ![s.active] = status]
    BY DEF RunInv, Run
  <2>4. /\ \A d \in Ids : t.continuation[d] = IF d = s.active THEN status ELSE s.continuation[d]
        /\ s.recovery # 0 => s.recovery \in Ids
    BY <2>1, <2>3, IdsAreNumbered, RunParts DEF RunInv
  <2>5. Mark(s, status) = t
    BY <1>2 DEF Mark
  <2> HIDE DEF t
  <2>6. RunInv(t)
    BY <1>2, <2>1, <2>2, <2>3, <2>4 DEF RunInv, NamesAnAnswer
  <2>7. Continues(s, t)
    BY <1>2, <2>3, <2>4, <2>6 DEF Continues, RunInv, NamesAnAnswer
  <2> QED
    BY <2>3, <2>5, <2>7
<1> QED
  BY <1>1, <1>2

\* A worker that is without its backend has lost its continuation, not the allowance of it.
LEMMA InfrastructureContinues == ASSUME NEW s, RunInv(s) PROVE Continues(s, InfrastructureFailure(s))
<1> DEFINE m == Mark(s, "BLOCKED_ENGINEERING")
           b == BlockRefinement(m, "BLOCKED_ENGINEERING_REQUIRED")
           t == [b EXCEPT !.failed = b.failed \cup ({s.active} \cap Ids), !.used = b.used \ {s.active},
                          !.request = TRUE, !.active = 0]
<1>1. Continues(s, m) /\ m.failed = s.failed /\ RunInv(m)
  BY MarkContinues DEF Continues, Continuation
<1> HIDE DEF m
<1>2. Continues(m, b) /\ b.failed = m.failed
  BY <1>1, BlockContinues DEF Stop
<1>3. Continues(s, b) /\ b.failed = s.failed /\ RunInv(b)
  BY <1>1, <1>2, ContinuesFurther DEF Continues
<1> HIDE DEF b
<1>4. t \in Run
  <2>1. b \in Run /\ 0 \in 0..MaxDecisions
    BY <1>3, IdsAreNumbered DEF RunInv
  <2>2. b.failed \cup ({s.active} \cap Ids) \in SUBSET Ids /\ b.used \ {s.active} \in SUBSET Ids
    BY <2>1, RunParts
  <2> QED
    BY <2>1, <2>2 DEF Run
<1>5. /\ t.refinement = b.refinement /\ t.open = b.open /\ t.recovery = b.recovery /\ t.active = 0
      /\ t.asked = b.asked /\ t.answer = b.answer /\ t.continuation = b.continuation
      /\ t.failed = b.failed \cup ({s.active} \cap Ids) /\ t.used = b.used \ {s.active}
  BY <1>3 DEF RunInv, Run
<1>6. InfrastructureFailure(s) = t
  BY DEF InfrastructureFailure, b, m
<1> HIDE DEF t
<1>7. Continues(s, t)
  BY <1>3, <1>4, <1>5 DEF Continues, RunInv, NamesAnAnswer
<1> QED
  BY <1>6, <1>7

LEMMA BudgetContinues == ASSUME NEW s, RunInv(s) PROVE Continues(s, BudgetExceeded(s))
<1>1. CASE s.active # 0
  <2> DEFINE m == Mark(s, "BLOCKED_ENGINEERING")
  <2>1. Continues(s, m) /\ m.failed = s.failed /\ RunInv(m)
    BY MarkContinues DEF Continues, Continuation
  <2>2. BudgetExceeded(s) = BlockRefinement(m, "BLOCKED_ENGINEERING_REQUIRED")
    BY <1>1 DEF BudgetExceeded
  <2> HIDE DEF m
  <2>3. Continues(m, BlockRefinement(m, "BLOCKED_ENGINEERING_REQUIRED"))
    BY <2>1, BlockContinues DEF Stop
  <2> QED
    BY <2>1, <2>2, <2>3, ContinuesFurther
<1>2. CASE s.active = 0
  <2> DEFINE b == BlockRefinement(s, "BLOCKED_BUDGET")
             t == [b EXCEPT !.recorded = b.recorded \cup {"refinement"}]
  <2>1. Continues(s, b) /\ RunInv(b)
    BY BlockContinues DEF Stop, Continues
  <2>2. BudgetExceeded(s) = t
    BY <1>2 DEF BudgetExceeded
  <2> HIDE DEF b
  <2>3. t \in Run
    BY <2>1 DEF RunInv, Run
  <2>4. /\ t.refinement = b.refinement /\ t.open = b.open /\ t.recovery = b.recovery /\ t.active = b.active
        /\ t.asked = b.asked /\ t.answer = b.answer /\ t.continuation = b.continuation
        /\ t.failed = b.failed /\ t.used = b.used
    BY <2>1 DEF RunInv, Run
  <2> HIDE DEF t
  <2>5. Continues(s, t)
    BY <2>1, <2>3, <2>4 DEF Continues, RunInv, NamesAnAnswer
  <2> QED
    BY <2>2, <2>5
<1> QED
  BY <1>1, <1>2

LEMMA FailuresContinue == ASSUME NEW s, RunInv(s), NEW t \in Failures(s) PROVE Continues(s, t)
<1>1. Continues(s, Exception(s))
  <2>1. CASE s.active # 0
    BY <2>1, BudgetContinues DEF BudgetExceeded, Exception
  <2>2. CASE s.active = 0
    BY <2>2, BlockContinues DEF Exception, Stop
  <2> QED
    BY <2>1, <2>2
<1>2. \A status \in {"BLOCKED_ENGINEERING_REQUIRED", "BLOCKED_MISSING_LLM", "FAILED"} :
         Continues(s, BlockRefinement(s, status))
  BY BlockContinues DEF Stop
<1>3. CASE s.asked < MaxDecisions /\ t = Ask(s, FALSE)
  BY <1>3, AskContinues
<1>4. CASE t \in {Exception(s), BlockRefinement(s, "BLOCKED_ENGINEERING_REQUIRED"),
                  BlockRefinement(s, "BLOCKED_MISSING_LLM"), BlockRefinement(s, "FAILED")}
  BY <1>1, <1>2, <1>4
<1> QED
  BY <1>3, <1>4 DEF Failures

\* What leaves the answers and the decisions alone.
LEMMA KeptContinues ==
  ASSUME NEW s, RunInv(s), NEW t \in Run, t.refinement \in {s.refinement} \cup (RefinementStatus \ {"WAITING_FOR_HUMAN"}),
         t.open = s.open, t.recovery = s.recovery, t.active \in {0, s.active}, t.asked = s.asked,
         t.answer = s.answer, t.continuation = s.continuation, t.failed = s.failed
  PROVE  Continues(s, t)
BY DEF Continues, RunInv, NamesAnAnswer

\* _complete_recovered_computational_refinement: nothing names the applied answer any more.
LEMMA AppliedContinues == ASSUME NEW s, RunInv(s) PROVE Continues(s, Applied(s))
<1>1. CASE s.active = 0
  <2> DEFINE t == [s EXCEPT !.refinement = "COMPLETED"]
  <2>1. Applied(s) = t
    BY <1>1 DEF Applied, Mark
  <2>2. t \in Run
    BY DEF RunInv, Run, RefinementStatus
  <2>3. /\ t.refinement = "COMPLETED" /\ t.open = s.open /\ t.recovery = s.recovery /\ t.active = s.active
        /\ t.asked = s.asked /\ t.answer = s.answer /\ t.continuation = s.continuation
        /\ t.failed = s.failed
    BY DEF RunInv, Run
  <2> HIDE DEF t
  <2>4. Continues(s, t)
    BY <2>2, <2>3, KeptContinues DEF RefinementStatus
  <2> QED
    BY <2>1, <2>4
<1>2. CASE s.active # 0
  <2> DEFINE t == [s EXCEPT !.continuation = [s.continuation EXCEPT ![s.active] = "APPLIED"],
                            !.refinement = "COMPLETED", !.active = 0, !.recovery = 0, !.request = FALSE]
  <2>1. Applied(s) = t
    BY <1>2 DEF Applied, Mark, RunInv, Run
  <2>2. s.active \in Ids /\ 0 \in 0..MaxDecisions
    BY <1>2, IdsAreNumbered, RunParts DEF RunInv
  <2>3. t \in Run
    BY <2>2 DEF RunInv, Run, RefinementStatus, Continuation
  <2>4. /\ t.refinement = "COMPLETED" /\ t.open = s.open /\ t.recovery = 0 /\ t.active = 0
        /\ t.asked = s.asked /\ t.answer = s.answer /\ t.failed = s.failed
        /\ t.continuation = [s.continuation EXCEPT ![s.active] = "APPLIED"]
    BY DEF RunInv, Run
  <2>5. \A d \in Ids : t.continuation[d] = IF d = s.active THEN "APPLIED" ELSE s.continuation[d]
    BY <2>2, <2>4, RunParts DEF RunInv
  <2> HIDE DEF t
  <2>6. Continues(s, t)
    BY <1>2, <2>3, <2>4, <2>5 DEF Continues, RunInv, NamesAnAnswer
  <2> QED
    BY <2>1, <2>6
<1> QED
  BY <1>1, <1>2

LEMMA JudgedContinue == ASSUME NEW s, RunInv(s), NEW t \in Judged(s) PROVE Continues(s, t)
<1>1. ASSUME s.asked < MaxDecisions PROVE Continues(s, SemanticRejected(s))
  <2> DEFINE m == Mark(s, "SEMANTIC_REJECTED")
  <2>1. Continues(s, m) /\ m.failed = s.failed /\ m.asked = s.asked /\ RunInv(m)
    BY MarkContinues DEF Continues, Continuation
  <2>2. SemanticRejected(s) = Ask(m, TRUE)
    BY DEF SemanticRejected
  <2> HIDE DEF m
  <2>3. Continues(m, Ask(m, TRUE))
    BY <1>1, <2>1, AskContinues
  <2> QED
    BY <2>1, <2>2, <2>3, ContinuesFurther
<1>2. CASE t = Applied(s)
  BY <1>2, AppliedContinues
<1>3. CASE s.asked < MaxDecisions /\ t \in {SemanticRejected(s), Ask(s, FALSE)}
  BY <1>1, <1>3, AskContinues
<1> QED
  BY <1>2, <1>3 DEF Judged

\* An invocation that was paid for, with an iteration or with the allowance.
LEMMA PaidContinues ==
  ASSUME NEW s, RunInv(s), NEW left \in 0..MaxLeft, NEW used \in SUBSET Ids
  PROVE  /\ Continues(s, [s EXCEPT !.left = left, !.used = used])
         /\ [s EXCEPT !.left = left, !.used = used].failed = s.failed
<1> DEFINE t == [s EXCEPT !.left = left, !.used = used]
<1>1. t \in Run
  BY DEF RunInv, Run
<1>2. /\ t.refinement = s.refinement /\ t.open = s.open /\ t.recovery = s.recovery /\ t.active = s.active
      /\ t.asked = s.asked /\ t.answer = s.answer /\ t.continuation = s.continuation /\ t.failed = s.failed
  BY DEF RunInv, Run
<1> HIDE DEF t
<1>3. Continues(s, t) /\ t.failed = s.failed
  BY <1>1, <1>2, KeptContinues
<1> QED
  BY <1>3 DEF t

-----------------------------------------------------------------------------
LEMMA CloseContinues ==
  ASSUME NEW s, RunInv(s), s.refinement # "WAITING_FOR_HUMAN", NEW d
  PROVE  Continues(s, CloseQuestion(s, d))
<1> DEFINE t(status) == [s EXCEPT !.open = s.open \ {d}, !.status = status]
<1>1. PICK status \in {"PLANNED_RESEARCH", s.status} : CloseQuestion(s, d) = t(status)
  <2>1. CloseQuestion(s, d) = t("PLANNED_RESEARCH") \/ CloseQuestion(s, d) = t(s.status)
    BY DEF CloseQuestion, PlannedOnceClosed, RunInv, Run
  <2> QED
    BY <2>1
<1>2. t(status) \in Run
  BY DEF RunInv, Run
<1>3. /\ t(status).refinement = s.refinement /\ t(status).open = s.open \ {d}
      /\ t(status).recovery = s.recovery /\ t(status).active = s.active
      /\ t(status).asked = s.asked /\ t(status).answer = s.answer
      /\ t(status).continuation = s.continuation /\ t(status).failed = s.failed
  BY DEF RunInv, Run
<1> HIDE DEF t
<1>4. Continues(s, t(status))
  BY <1>2, <1>3 DEF Continues, RunInv, NamesAnAnswer
<1> QED
  BY <1>1, <1>4

\* A human accepts an answer of the question: it is the one that the recovery names.
LEMMA SubmitContinues ==
  ASSUME RunInv(answered), NEW d \in Ids, NEW a \in AnswerKind, SubmitAnswer(d, a)
  PROVE  Continues(answered, answered')
<1>1. CASE d \in answered.atomic
  <2> DEFINE t(status) == [answered EXCEPT !.recovery = d, !.refinement = "PENDING",
                             !.answer = [answered.answer EXCEPT ![d] = a],
                             !.continuation = [answered.continuation EXCEPT ![d] = "PENDING"],
                             !.open = answered.open \ {d}, !.status = status]
  <2>1. PICK status \in {"PLANNED_RESEARCH", answered.status} : answered' = t(status)
    <3>1. answered' = t("PLANNED_RESEARCH") \/ answered' = t(answered.status)
      BY <1>1 DEF SubmitAnswer, CloseQuestion, PlannedOnceClosed, Install, RunInv, Run
    <3> QED
      BY <3>1
  <2>2. d \in 0..MaxDecisions /\ d # 0
    BY IdsAreNumbered
  <2>3. t(status) \in Run
    <3>1. a \in {"none"} \cup AnswerKind /\ "PENDING" \in Continuation
      BY DEF Continuation
    <3> QED
      BY <2>2, <3>1 DEF RunInv, Run, RefinementStatus
  <2>4. /\ t(status).refinement = "PENDING" /\ t(status).open = answered.open \ {d}
        /\ t(status).recovery = d /\ t(status).active = answered.active /\ t(status).asked = answered.asked
        /\ t(status).answer = [answered.answer EXCEPT ![d] = a]
        /\ t(status).continuation = [answered.continuation EXCEPT ![d] = "PENDING"]
        /\ t(status).failed = answered.failed
    BY DEF RunInv, Run
  <2>5. /\ \A e \in Ids : t(status).answer[e] = IF e = d THEN a ELSE answered.answer[e]
        /\ \A e \in Ids : t(status).continuation[e] = IF e = d THEN "PENDING" ELSE answered.continuation[e]
    BY <2>4, RunParts DEF RunInv
  <2>6. a # "none" /\ d \in answered.open /\ (answered.active # 0 => answered.active \in Ids)
    BY IdsAreNumbered, RunParts DEF AnswerKind, SubmitAnswer, RunInv
  <2>7. answered.answer[d] = "none" /\ answered.continuation[d] = "none" /\ d \in 1..answered.asked
    BY <2>6 DEF RunInv
  <2> HIDE DEF t
  <2>8. Continues(answered, t(status))
    BY <2>2, <2>3, <2>4, <2>5, <2>6, <2>7 DEF Continues, RunInv, NamesAnAnswer
  <2> QED
    BY <2>1, <2>8
<1>2. CASE d \notin answered.atomic
  <2> DEFINE t == [answered EXCEPT !.refinement = "COMPLETED"]
  <2>1. t \in Run
    BY DEF RunInv, Run, RefinementStatus
  <2>2. /\ t.refinement = "COMPLETED" /\ t.open = answered.open /\ t.recovery = answered.recovery
        /\ t.active = answered.active /\ t.asked = answered.asked /\ t.answer = answered.answer
        /\ t.continuation = answered.continuation /\ t.failed = answered.failed
    BY DEF RunInv, Run
  <2>3. answered' = CloseQuestion(t, d)
    BY <1>2 DEF SubmitAnswer
  <2> HIDE DEF t
  <2>4. Continues(answered, t)
    BY <2>1, <2>2, KeptContinues DEF RefinementStatus
  <2>5. Continues(t, CloseQuestion(t, d))
    BY <2>2, <2>4, CloseContinues DEF Continues
  <2> QED
    BY <2>2, <2>3, <2>4, <2>5, ContinuesFurther
<1> QED
  BY <1>1, <1>2

LEMMA DismissContinues ==
  ASSUME RunInv(answered), NEW d \in Ids, Dismiss(d)
  PROVE  Continues(answered, answered')
<1> DEFINE status == IF answered.refinement = "WAITING_FOR_HUMAN" THEN "PENDING" ELSE answered.refinement
           t == [answered EXCEPT !.refinement = status]
<1>1. status \in RefinementStatus \ {"WAITING_FOR_HUMAN"}
  BY RunParts DEF RunInv, RefinementStatus
<1>2. answered' = CloseQuestion(t, d)
  BY DEF Dismiss
<1> HIDE DEF status
<1>3. t \in Run
  BY <1>1 DEF RunInv, Run
<1>4. /\ t.refinement = status /\ t.open = answered.open /\ t.recovery = answered.recovery
      /\ t.active = answered.active /\ t.asked = answered.asked /\ t.answer = answered.answer
      /\ t.continuation = answered.continuation /\ t.failed = answered.failed
  BY DEF RunInv, Run
<1> HIDE DEF t
<1>5. Continues(answered, t)
  BY <1>1, <1>3, <1>4, KeptContinues
<1>6. Continues(t, CloseQuestion(t, d))
  BY <1>1, <1>4, <1>5, CloseContinues DEF Continues
<1> QED
  BY <1>2, <1>4, <1>5, <1>6, ContinuesFurther

LEMMA ExtendContinues == ASSUME RunInv(answered), ExtendIterations PROVE Continues(answered, answered')
<1> DEFINE t(refinement, feasibility, stop, status) ==
             [answered EXCEPT !.left = MaxLeft, !.refinement = refinement, !.feasibility = feasibility,
                              !.budgetStop = stop, !.status = status]
<1>1. PICK refinement \in {answered.refinement, "PENDING"}, feasibility \in {answered.feasibility, "PENDING"},
           stop \in BOOLEAN, status \in {answered.status, "PLANNED_RESEARCH"} :
        answered' = t(refinement, feasibility, stop, status)
  <2> DEFINE Reopened(name, status) ==
               IF name \in answered.recorded /\ status = "BLOCKED_BUDGET" THEN "PENDING" ELSE status
             refinement == Reopened("refinement", answered.refinement)
             feasibility == Reopened("feasibility", answered.feasibility)
             stop == answered.budgetStop /\ answered.feasibility = feasibility
             status == IF (answered.refinement # refinement \/ answered.feasibility # feasibility)
                             /\ answered.status = "BLOCKED_BUDGET"
                       THEN "PLANNED_RESEARCH" ELSE answered.status
  <2>1. answered' = t(refinement, feasibility, stop, status)
    BY DEF ExtendIterations
  <2>2. /\ refinement \in {answered.refinement, "PENDING"} /\ feasibility \in {answered.feasibility, "PENDING"}
        /\ status \in {answered.status, "PLANNED_RESEARCH"}
    OBVIOUS
  <2>3. stop \in BOOLEAN
    OBVIOUS
  <2> HIDE DEF t, refinement, feasibility, stop, status
  <2> QED
    BY <2>1, <2>2, <2>3
<1>2. MaxLeft \in 0..MaxLeft
  BY IdsAreNumbered
<1>3. t(refinement, feasibility, stop, status) \in Run
  BY <1>2 DEF RunInv, Run, RefinementStatus
<1>4. LET u == t(refinement, feasibility, stop, status) IN
        /\ u.refinement = refinement /\ u.open = answered.open /\ u.recovery = answered.recovery
        /\ u.active = answered.active /\ u.asked = answered.asked /\ u.answer = answered.answer
        /\ u.continuation = answered.continuation /\ u.failed = answered.failed
  BY DEF RunInv, Run
<1> HIDE DEF t
<1> QED
  BY <1>1, <1>3, <1>4, KeptContinues DEF RefinementStatus

\* A handling starts, and an answer that it continues is marked.
LEMMA StartContinues == ASSUME RunInv(answered), StartRefinement PROVE Continues(answered, answered')
<1>1. CASE answered.recovery = 0
  <2> DEFINE t == [answered EXCEPT !.refinement = "RUNNING"]
  <2>1. answered' = t
    BY <1>1 DEF StartRefinement
  <2>2. t \in Run
    BY DEF RunInv, Run, RefinementStatus
  <2>3. /\ t.refinement = "RUNNING" /\ t.open = answered.open /\ t.recovery = answered.recovery
        /\ t.active = answered.active /\ t.asked = answered.asked /\ t.answer = answered.answer
        /\ t.continuation = answered.continuation /\ t.failed = answered.failed
    BY DEF RunInv, Run
  <2> HIDE DEF t
  <2> QED
    BY <2>1, <2>2, <2>3, KeptContinues DEF RefinementStatus
<1>2. CASE answered.recovery # 0
  <2> DEFINE d == answered.recovery
             t == [answered EXCEPT !.refinement = "RUNNING",
                                   !.continuation = [answered.continuation EXCEPT ![d] = "STARTED"], !.active = d]
  <2>1. answered' = t
    BY <1>2 DEF StartRefinement
  <2>2. d \in Ids /\ d \in 0..MaxDecisions /\ d # 0
    BY <1>2, IdsAreNumbered, RunParts DEF RunInv
  <2>3. t \in Run
    BY <2>2 DEF RunInv, Run, RefinementStatus, Continuation
  <2>4. /\ t.refinement = "RUNNING" /\ t.open = answered.open /\ t.recovery = d
        /\ t.active = d /\ t.asked = answered.asked /\ t.answer = answered.answer
        /\ t.continuation = [answered.continuation EXCEPT ![d] = "STARTED"] /\ t.failed = answered.failed
    BY DEF RunInv, Run
  <2>5. \A e \in Ids : t.continuation[e] = IF e = d THEN "STARTED" ELSE answered.continuation[e]
    BY <2>2, <2>4, RunParts DEF RunInv
  <2>6. answered.answer[d] # "none" /\ answered.continuation[d] # "APPLIED"
    BY <2>2 DEF RunInv, NamesAnAnswer
  <2> HIDE DEF t, d
  <2>7. Continues(answered, t)
    BY <2>2, <2>3, <2>4, <2>5, <2>6 DEF Continues, RunInv, NamesAnAnswer
  <2> QED
    BY <2>1, <2>7
<1> QED
  BY <1>1, <1>2

\* An iteration that an invocation takes.
LEMMA IterationContinues ==
  ASSUME RunInv(answered), answered.left # 0
  PROVE  /\ Continues(answered, [answered EXCEPT !.left = answered.left - 1])
         /\ [answered EXCEPT !.left = answered.left - 1].failed = answered.failed
<1>1. answered.left - 1 \in 0..MaxLeft /\ answered.used \in SUBSET Ids
  BY IdsAreNumbered, RunParts DEF RunInv
<1>2. [answered EXCEPT !.left = answered.left - 1]
         = [answered EXCEPT !.left = answered.left - 1, !.used = answered.used]
  BY DEF RunInv, Run
<1>3. /\ Continues(answered, [answered EXCEPT !.left = answered.left - 1, !.used = answered.used])
      /\ [answered EXCEPT !.left = answered.left - 1, !.used = answered.used].failed = answered.failed
  BY <1>1, PaidContinues
<1> QED
  BY <1>2, <1>3

LEMMA ReselectContinues == ASSUME RunInv(answered), ReselectLocally PROVE Continues(answered, answered')
<1>1. CASE answered.left = 0
  BY <1>1, BudgetContinues DEF ReselectLocally, Stops
<1>2. CASE answered.left # 0
  <2> DEFINE t == [answered EXCEPT !.left = answered.left - 1]
  <2>1. answered' \in {InfrastructureFailure(answered)} \cup Failures(t) \cup Judged(t)
    BY <1>2 DEF ReselectLocally, Stops
  <2>2. Continues(answered, t) /\ t.failed = answered.failed /\ RunInv(t)
    BY <1>2, IterationContinues DEF Continues
  <2> HIDE DEF t
  <2> QED
    BY <2>1, <2>2, InfrastructureContinues, FailuresContinue, JudgedContinue, ContinuesFurther
<1> QED
  BY <1>1, <1>2

LEMMA NameContinues == ASSUME RunInv(answered), NameObservable PROVE Continues(answered, answered')
<1>1. CASE answered.left = 0
  BY <1>1, BudgetContinues DEF NameObservable, Stops
<1>2. CASE answered.left # 0
  <2> DEFINE t == [answered EXCEPT !.left = answered.left - 1]
  <2>1. answered' \in {InfrastructureFailure(answered)} \cup Failures(t) \/ answered' = t
    BY <1>2 DEF NameObservable, Stops
  <2>2. Continues(answered, t) /\ t.failed = answered.failed /\ RunInv(t)
    BY <1>2, IterationContinues DEF Continues
  <2> HIDE DEF t
  <2> QED
    BY <2>1, <2>2, InfrastructureContinues, FailuresContinue, ContinuesFurther
<1> QED
  BY <1>1, <1>2

\* An allowance belongs to the continuation of an answer.
LEMMA AskInformativenessContinues ==
  ASSUME RunInv(answered), AskInformativeness
  PROVE  Continues(answered, answered')
<1>1. CASE answered.left = 0 /\ ~ Allowed(answered)
  BY <1>1, BudgetContinues DEF AskInformativeness, Stops
<1>2. CASE ~ (answered.left = 0 /\ ~ Allowed(answered))
  <2> DEFINE t == IF answered.left > 0 THEN [answered EXCEPT !.left = answered.left - 1]
                  ELSE [answered EXCEPT !.used = answered.used \cup {answered.active}]
             u == [t EXCEPT !.left = answered.left]
  <2>1. answered' \in {InfrastructureFailure(u)} \cup Failures(t) \cup Judged(t)
    BY <1>2 DEF AskInformativeness, Stops
  <2>2. answered.left \in 0..MaxLeft /\ answered.used \in SUBSET Ids
    BY RunParts DEF RunInv
  <2>3. PICK left \in 0..MaxLeft, used \in SUBSET Ids : t = [answered EXCEPT !.left = left, !.used = used]
    <3>1. CASE answered.left > 0
      <4>1. answered.left - 1 \in 0..MaxLeft
        BY <2>2, <3>1, IdsAreNumbered
      <4>2. t = [answered EXCEPT !.left = answered.left - 1, !.used = answered.used]
        BY <3>1 DEF RunInv, Run
      <4> HIDE DEF t
      <4> QED
        BY <2>2, <4>1, <4>2
    <3>2. CASE ~ (answered.left > 0)
      <4>1. answered.active \in Ids
        BY <1>2, <2>2, <3>2, IdsAreNumbered, RunParts DEF Allowed, RunInv
      <4>2. answered.used \cup {answered.active} \in SUBSET Ids
        BY <2>2, <4>1
      <4>3. t = [answered EXCEPT !.left = answered.left, !.used = answered.used \cup {answered.active}]
        BY <3>2 DEF RunInv, Run
      <4> HIDE DEF t
      <4> QED
        BY <2>2, <4>2, <4>3
    <3> QED
      BY <3>1, <3>2
  <2>4. Continues(answered, t) /\ t.failed = answered.failed /\ RunInv(t)
    <3>1. /\ Continues(answered, [answered EXCEPT !.left = left, !.used = used])
          /\ [answered EXCEPT !.left = left, !.used = used].failed = answered.failed
      BY PaidContinues
    <3> HIDE DEF t
    <3> QED
      BY <2>3, <3>1 DEF Continues
  <2>5. Continues(answered, u) /\ u.failed = answered.failed /\ RunInv(u)
    <3>1. u = [answered EXCEPT !.left = answered.left, !.used = used]
      <4> HIDE DEF t
      <4> QED
        BY <2>3 DEF RunInv, Run
    <3>2. /\ Continues(answered, [answered EXCEPT !.left = answered.left, !.used = used])
          /\ [answered EXCEPT !.left = answered.left, !.used = used].failed = answered.failed
      BY <2>2, PaidContinues
    <3> HIDE DEF u
    <3> QED
      BY <3>1, <3>2 DEF Continues
  <2> HIDE DEF t, u
  <2> QED
    BY <2>1, <2>4, <2>5, InfrastructureContinues, FailuresContinue, JudgedContinue, ContinuesFurther
<1> QED
  BY <1>1, <1>2

\* The next node only shares the run record.
LEMMA FeasibilityContinues ==
  ASSUME RunInv(answered), FeasibilityCompletes \/ FeasibilityFails
  PROVE  Continues(answered, answered')
<1> DEFINE t(feasibility, status, left) ==
             [answered EXCEPT !.feasibility = feasibility, !.status = status, !.left = left]
           u(feasibility, status, stop, recorded_, request, active) ==
             [answered EXCEPT !.feasibility = feasibility, !.status = status, !.budgetStop = stop,
                              !.recorded = recorded_, !.request = request, !.active = active]
           Same(r) == /\ r \in Run /\ r.refinement = answered.refinement /\ r.open = answered.open
                      /\ r.recovery = answered.recovery /\ r.active \in {0, answered.active}
                      /\ r.asked = answered.asked /\ r.answer = answered.answer
                      /\ r.continuation = answered.continuation /\ r.failed = answered.failed
<1>1. answered.left \in 0..MaxLeft /\ 0 \in 0..MaxDecisions /\ answered.active \in 0..MaxDecisions
  BY IdsAreNumbered, RunParts DEF RunInv
<1>2. ASSUME NEW feasibility \in RefinementStatus, NEW status \in {"PLANNED_RESEARCH"} \cup Stop, NEW left \in 0..MaxLeft
      PROVE  Same(t(feasibility, status, left))
  BY DEF RunInv, Run
<1>3. ASSUME NEW status \in Stop, NEW stop \in BOOLEAN, NEW recorded_ \in SUBSET {"refinement", "feasibility"},
             NEW request \in BOOLEAN, NEW active \in {0, answered.active}
      PROVE  Same(u(status, status, stop, recorded_, request, active))
  <2>1. active \in 0..MaxDecisions /\ status \in RefinementStatus
    BY <1>1 DEF RefinementStatus
  <2> QED
    BY <2>1 DEF RunInv, Run
<1>4. /\ answered.recorded \in SUBSET {"refinement", "feasibility"} /\ answered.budgetStop \in BOOLEAN
      /\ answered.request \in BOOLEAN /\ answered.recorded \cup {"feasibility"} \in SUBSET {"refinement", "feasibility"}
      /\ answered.status \in {"PLANNED_RESEARCH"} \cup Stop
  BY DEF RunInv, Run
<1>5. CASE FeasibilityCompletes
  <2>1. answered.left - 1 \in 0..MaxLeft
    BY <1>1, <1>5, IdsAreNumbered DEF FeasibilityCompletes
  <2>2. answered' = t("COMPLETED", answered.status, answered.left - 1)
    BY <1>5 DEF FeasibilityCompletes, RunInv, Run
  <2>3. "COMPLETED" \in RefinementStatus
    BY DEF RefinementStatus
  <2> HIDE DEF t, Same
  <2>4. Same(t("COMPLETED", answered.status, answered.left - 1))
    BY <1>2, <1>4, <2>1, <2>3
  <2> QED
    BY <2>2, <2>4, KeptContinues DEF Same
<1>6. CASE FeasibilityFails
  <2> DEFINE b == "BLOCKED_ENGINEERING_REQUIRED"
  <2>1. \/ answered' = u(b, b, TRUE, answered.recorded, answered.request, answered.active)
        \/ answered' = u("BLOCKED_BUDGET", "BLOCKED_BUDGET", TRUE, answered.recorded \cup {"feasibility"},
                         answered.request, answered.active)
        \/ answered' = u(b, b, answered.budgetStop, answered.recorded, TRUE, 0)
        \/ answered' = u(b, b, answered.budgetStop, answered.recorded, answered.request, answered.active)
        \/ answered' = u("FAILED", "FAILED", answered.budgetStop, answered.recorded, answered.request, answered.active)
    <3> DEFINE StoppedAt(status) == [answered EXCEPT !.feasibility = status, !.status = status]
    <3>1. \/ answered' = [StoppedAt(b) EXCEPT !.budgetStop = TRUE]
          \/ answered' = [StoppedAt("BLOCKED_BUDGET") EXCEPT !.budgetStop = TRUE,
                                                          !.recorded = answered.recorded \cup {"feasibility"}]
          \/ answered' = [StoppedAt(b) EXCEPT !.request = TRUE, !.active = 0]
          \/ answered' = StoppedAt(b)
          \/ answered' = StoppedAt("FAILED")
      BY <1>6 DEF FeasibilityFails
    <3>2. [StoppedAt(b) EXCEPT !.budgetStop = TRUE]
             = u(b, b, TRUE, answered.recorded, answered.request, answered.active)
      BY DEF RunInv, Run
    <3>3. [StoppedAt("BLOCKED_BUDGET") EXCEPT !.budgetStop = TRUE, !.recorded = answered.recorded \cup {"feasibility"}]
             = u("BLOCKED_BUDGET", "BLOCKED_BUDGET", TRUE, answered.recorded \cup {"feasibility"},
                 answered.request, answered.active)
      BY DEF RunInv, Run
    <3>4. [StoppedAt(b) EXCEPT !.request = TRUE, !.active = 0]
             = u(b, b, answered.budgetStop, answered.recorded, TRUE, 0)
      BY DEF RunInv, Run
    <3>5. /\ StoppedAt(b) = u(b, b, answered.budgetStop, answered.recorded, answered.request, answered.active)
          /\ StoppedAt("FAILED") = u("FAILED", "FAILED", answered.budgetStop, answered.recorded,
                                   answered.request, answered.active)
      BY DEF RunInv, Run
    <3> HIDE DEF Blocked, u, b, Same, t
    <3> QED
      BY <3>1, <3>2, <3>3, <3>4, <3>5
  <2>2. b \in Stop /\ "BLOCKED_BUDGET" \in Stop /\ "FAILED" \in Stop
    BY DEF Stop
  <2> HIDE DEF u, b, Same
  <2>3. Same(answered')
    BY <1>3, <1>4, <2>1, <2>2
  <2> QED
    BY <2>3, KeptContinues DEF Same
<1> QED
  BY <1>5, <1>6

-----------------------------------------------------------------------------
(* repair-external-continuation. *)

\* What the repair of an answer may do to a run record.
Repairs(s, t) ==
    /\ Continues(s, t)
    /\ t.failed = s.failed /\ t.atomic = s.atomic /\ t.open = s.open /\ t.answer = s.answer

RepairedRun(s, d, state, recovery, refinement, status, used, active) ==
    [s EXCEPT !.recovery = recovery, !.refinement = refinement, !.status = status, !.used = used,
              !.active = active, !.continuation = [s.continuation EXCEPT ![d] = state]]

LEMMA RepairContinues ==
  ASSUME NEW s, RunInv(s), NEW d \in AnsweredDecisions(s), s.continuation[d] # "APPLIED",
         NEW state \in {"PENDING", "BLOCKED_ENGINEERING"}, NEW recovery \in {d, s.recovery},
         NEW refinement \in {"PENDING", "BLOCKED_ENGINEERING_REQUIRED"},
         NEW status \in {"PLANNED_RESEARCH", "BLOCKED_ENGINEERING_REQUIRED"},
         NEW used \in SUBSET Ids, NEW active \in {0, s.active}
  PROVE  Repairs(s, RepairedRun(s, d, state, recovery, refinement, status, used, active))
<1> DEFINE t == RepairedRun(s, d, state, recovery, refinement, status, used, active)
<1>1. d \in Ids /\ d # 0 /\ s.answer[d] # "none"
  BY IdsAreNumbered, RunParts DEF AnsweredDecisions, RunInv
<1>2. t \in Run
  <2>1. recovery \in 0..MaxDecisions /\ active \in 0..MaxDecisions
    BY <1>1, IdsAreNumbered, RunParts DEF RunInv
  <2>2. refinement \in RefinementStatus /\ status \in {"PLANNED_RESEARCH"} \cup Stop /\ state \in Continuation
    BY DEF RefinementStatus, Stop, Continuation
  <2> QED
    BY <2>1, <2>2 DEF RepairedRun, RunInv, Run
<1>3. /\ t.refinement = refinement /\ t.open = s.open /\ t.recovery = recovery /\ t.active = active
      /\ t.asked = s.asked /\ t.answer = s.answer /\ t.failed = s.failed /\ t.atomic = s.atomic
      /\ t.continuation = [s.continuation EXCEPT ![d] = state]
  BY DEF RepairedRun, RunInv, Run
<1>4. \A e \in Ids : t.continuation[e] = IF e = d THEN state ELSE s.continuation[e]
  BY <1>1, <1>3, RunParts DEF RunInv
<1>5. (recovery # 0 => recovery \in Ids) /\ (active # 0 => active \in Ids)
  BY <1>1, IdsAreNumbered, RunParts DEF RunInv
<1> HIDE DEF t
<1>6. RunInv(t)
  BY <1>1, <1>2, <1>3, <1>4, <1>5 DEF RunInv, NamesAnAnswer
<1>7. Repairs(s, t)
  BY <1>3, <1>4, <1>6 DEF Repairs, Continues
<1> QED
  BY <1>7 DEF t

LEMMA ReconcileOneRepairs ==
  ASSUME NEW s, RunInv(s), NEW d \in AnsweredDecisions(s), NEW available \in BOOLEAN
  PROVE  Repairs(s, ReconcileOne(s, d, available))
<1> DEFINE planned(used, active) == RepairedRun(s, d, "PENDING", d, "PENDING", "PLANNED_RESEARCH", used, active)
           blocked == RepairedRun(s, d, "BLOCKED_ENGINEERING", s.recovery, "BLOCKED_ENGINEERING_REQUIRED",
                                  "BLOCKED_ENGINEERING_REQUIRED", s.used \ {d}, 0)
<1>1. CASE s.continuation[d] = "APPLIED"
  BY <1>1, SameRunContinues DEF ReconcileOne, Repairs
<1>2. CASE s.continuation[d] # "APPLIED"
  <2>1. s.used \in SUBSET Ids /\ s.used \ {d} \in SUBSET Ids
    BY RunParts DEF RunInv
  <2>2. Reinstalled(s, d) = planned(s.used, s.active)
    BY DEF Reinstalled, Install, RepairedRun, RunInv, Run
  <2>3. Rechecked(s, d, TRUE) = planned(s.used \ {d}, 0)
    BY DEF Rechecked, Reinstalled, Install, RepairedRun, RunInv, Run
  <2>4. Rechecked(s, d, FALSE) = blocked
    BY DEF Rechecked, RepairedRun, RunInv, Run
  <2>5. ReconcileOne(s, d, available) \in {Reinstalled(s, d), Rechecked(s, d, TRUE), Rechecked(s, d, FALSE)}
    BY <1>2 DEF ReconcileOne
  <2>6. Repairs(s, planned(s.used, s.active))
    BY <1>2, <2>1, RepairContinues
  <2>7. Repairs(s, planned(s.used \ {d}, 0)) /\ Repairs(s, blocked)
    BY <1>2, <2>1, RepairContinues
  <2> HIDE DEF planned, blocked
  <2> QED
    BY <2>2, <2>3, <2>4, <2>5, <2>6, <2>7
<1> QED
  BY <1>1, <1>2

LEMMA RepairsFurther ==
  ASSUME NEW s, NEW t, NEW u, Repairs(s, t), Repairs(t, u)
  PROVE  Repairs(s, u) /\ AnsweredDecisions(t) = AnsweredDecisions(s)
<1>1. Continues(s, u)
  BY ContinuesFurther DEF Repairs
<1> QED
  BY <1>1 DEF Repairs, AnsweredDecisions

\* The answers are gone through in their order: the last is what is repaired after the others.
LastOf(T) == CHOOSE d \in T : \A e \in T : d >= e

LEMMA LastIsChosen ==
  ASSUME NEW T \in SUBSET Ids, T # {}
  PROVE  LastOf(T) \in T /\ \A e \in T : LastOf(T) >= e
<1>1. T \in SUBSET (0..MaxDecisions) /\ MaxDecisions \in Nat
  BY IdsAreNumbered
<1>2. PICK m \in T : \A k \in T : k <= m
  BY <1>1, GreatestNat
<1>3. \A k \in T : m >= k
  BY <1>1, <1>2
<1> QED
  BY <1>3 DEF LastOf

OneByOne(s, available, f, T) ==
  IF T = {} THEN s ELSE ReconcileOne(f[T \ {LastOf(T)}], LastOf(T), available)

LEMMA LeastDecision ==
  ASSUME NEW T \in SUBSET Nat, T # {}
  PROVE  \E m \in T : \A k \in T : m <= k
<1> DEFINE R == OpToRel(<, Nat)
<1>1. IsWellFoundedOn(R, Nat)
  BY NatLessThanWellFounded
<1>2. PICK x \in T : \A y \in T : ~ (<<y, x>> \in R)
  BY <1>1, WFMin
<1>3. \A y \in T : ~ (y < x)
  BY <1>2 DEF OpToRel
<1> QED
  BY <1>3

\* The fold of ReconcileAll exists: repairing the decisions up to n is a function.
LEMMA RepairsAreAFunction ==
  ASSUME NEW s, NEW D \in SUBSET Ids, NEW available \in BOOLEAN
  PROVE  \E f : f = [T \in SUBSET D |-> OneByOne(s, available, f, T)]
<1> DEFINE Below(n) == SUBSET {d \in D : d <= n}
           Good(n) == \E f : f = [T \in Below(n) |-> OneByOne(s, available, f, T)]
           Wrong == {n \in Nat : ~Good(n)}
<1>0. D \subseteq Nat
  BY IdsAreNumbered
<1>1. Good(0)
  <2>1. Below(0) = {{}}
    <3>1. \A d \in D : ~ (d <= 0)
      BY IdsAreNumbered
    <3>2. {d \in D : d <= 0} = {}
      BY <3>1
    <3> QED
      BY <3>2
  <2> DEFINE f == [T \in Below(0) |-> s]
  <2>2. \A T \in Below(0) : OneByOne(s, available, f, T) = s
    BY <2>1 DEF OneByOne
  <2>3. f = [T \in Below(0) |-> OneByOne(s, available, f, T)]
    BY <2>2
  <2> HIDE DEF f, Below
  <2> QED
    BY <2>3
<1>2. ASSUME NEW n \in Nat \ {0}, Good(n - 1) PROVE Good(n)
  <2>1. PICK f : f = [T \in Below(n - 1) |-> OneByOne(s, available, f, T)]
    BY <1>2
  <2> DEFINE g == [T \in Below(n) |-> IF n \in T THEN ReconcileOne(f[T \ {n}], n, available) ELSE f[T]]
  <2>2. ASSUME NEW T \in Below(n), n \notin T PROVE T \in Below(n - 1)
    BY <1>0, <2>2
  <2>3. ASSUME NEW T \in Below(n) PROVE T \ {n} \in Below(n - 1) /\ Below(n - 1) \subseteq Below(n)
    <3>1. \A d \in D : (d <= n - 1 => d <= n) /\ (d <= n /\ d # n => d <= n - 1)
      BY <1>0
    <3>2. \A d \in T : d \in D /\ d <= n
      BY <2>3
    <3>3. \A d \in T \ {n} : d \in D /\ d <= n - 1
      BY <3>1, <3>2
    <3> QED
      BY <3>1, <3>3
  <2>4. ASSUME NEW T \in Below(n - 1) PROVE g[T] = f[T] /\ n \notin T
    BY <1>0, <2>3, <2>4
  <2>5. ASSUME NEW T \in Below(n) PROVE g[T] = OneByOne(s, available, g, T)
    <3>1. CASE n \in T
      <4>1. LastOf(T) = n
        <5>1. T \in SUBSET Ids /\ T # {} /\ \A e \in T : e \in Nat /\ e <= n
          BY <1>0, <3>1
        <5>2. LastOf(T) >= n /\ LastOf(T) <= n /\ LastOf(T) \in Nat
          BY <3>1, <5>1, LastIsChosen
        <5> QED
          BY <5>2
      <4>2. g[T \ {n}] = f[T \ {n}]
        BY <2>3, <2>4
      <4>3. g[T] = ReconcileOne(f[T \ {n}], n, available)
        BY <3>1
      <4> HIDE DEF g, Below
      <4> QED
        BY <3>1, <4>1, <4>2, <4>3 DEF OneByOne
    <3>2. CASE n \notin T
      <4>1. T \in Below(n - 1)
        BY <2>2, <3>2
      <4>2. T # {} => T \ {LastOf(T)} \in Below(n - 1)
        BY <4>1
      <4>3. g[T] = f[T] /\ (T # {} => g[T \ {LastOf(T)}] = f[T \ {LastOf(T)}])
        BY <2>4, <4>1, <4>2
      <4>4. f[T] = OneByOne(s, available, f, T)
        BY <2>1, <4>1
      <4> HIDE DEF g, Below
      <4> QED
        BY <4>3, <4>4 DEF OneByOne
    <3> QED
      BY <3>1, <3>2
  <2>6. g = [T \in Below(n) |-> OneByOne(s, available, g, T)]
    BY <2>5
  <2> HIDE DEF g, Below
  <2> QED
    BY <2>6
<1>3. \A n \in Nat : Good(n)
  <2> HIDE DEF Good
  <2> SUFFICES ASSUME Wrong # {} PROVE FALSE
    OBVIOUS
  <2>1. PICK n \in Wrong : \A k \in Wrong : n <= k
    BY LeastDecision
  <2>2. n \in Nat \ {0}
    BY <1>1, <2>1
  <2>3. n - 1 \in Nat /\ ~ (n <= n - 1)
    BY <2>2
  <2>4. Good(n - 1)
    BY <2>1, <2>3
  <2> QED
    BY <1>2, <2>1, <2>2, <2>4
<1>4. Below(MaxDecisions) = SUBSET D /\ MaxDecisions \in Nat
  <2>1. MaxDecisions \in Nat /\ \A d \in D : d <= MaxDecisions
    BY IdsAreNumbered
  <2>2. {d \in D : d <= MaxDecisions} = D
    BY <2>1
  <2> QED
    BY <2>1, <2>2
<1> HIDE DEF Below
<1> QED
  BY <1>3, <1>4

LEMMA ReconcileAllFolds ==
  ASSUME NEW s, NEW D \in SUBSET Ids, NEW available \in BOOLEAN
  PROVE  \E f : /\ ReconcileAll(s, D, available) = f[D]
                /\ \A T \in SUBSET D : f[T] = OneByOne(s, available, f, T)
<1> DEFINE Fold(g) == [T \in SUBSET D |->
                         IF T = {} THEN s
                         ELSE LET x == CHOOSE d \in T : \A e \in T : d >= e
                              IN  ReconcileOne(g[T \ {x}], x, available)]
           f == CHOOSE g : g = Fold(g)
<1>1. ReconcileAll(s, D, available) = f[D]
  BY DEF ReconcileAll, MapThenFoldSet
<1>2. \A g : Fold(g) = [T \in SUBSET D |-> OneByOne(s, available, g, T)]
  BY DEF OneByOne, LastOf
<1> HIDE DEF Fold
<1>3. f = Fold(f)
  BY <1>2, RepairsAreAFunction
<1>4. \A T \in SUBSET D : f[T] = OneByOne(s, available, f, T)
  BY <1>2, <1>3
<1> QED
  BY <1>1, <1>4

\* However many answers it goes through, the command repairs and nothing else.
LEMMA ReconcileAllRepairs ==
  ASSUME NEW s, RunInv(s), NEW D \in SUBSET AnsweredDecisions(s), NEW available \in BOOLEAN
  PROVE  Repairs(s, ReconcileAll(s, D, available))
<1>1. D \in SUBSET Ids
  BY RunParts DEF AnsweredDecisions, RunInv
<1>2. PICK f : /\ ReconcileAll(s, D, available) = f[D]
               /\ \A T \in SUBSET D : f[T] = OneByOne(s, available, f, T)
  BY <1>1, ReconcileAllFolds
<1> DEFINE Below(n) == {d \in D : d <= n}
           Wrong == {n \in Nat : \E T \in SUBSET Below(n) : ~Repairs(s, f[T])}
<1>3. Wrong = {}
  <2> SUFFICES ASSUME Wrong # {} PROVE FALSE
    OBVIOUS
  <2>1. PICK n \in Wrong : \A k \in Wrong : n <= k
    BY LeastDecision
  <2>2. PICK T \in SUBSET Below(n) : ~Repairs(s, f[T])
    BY <2>1
  <2>3. T \in SUBSET D /\ T \in SUBSET Ids
    BY <1>1
  <2>4. Repairs(s, s)
    BY SameRunContinues DEF Repairs
  <2>5. T # {}
    BY <1>2, <2>2, <2>3, <2>4 DEF OneByOne
  <2> DEFINE m == LastOf(T)
  <2>6. m \in T /\ \A e \in T : m >= e
    BY <2>3, <2>5, LastIsChosen
  <2>7. m \in Nat \ {0} /\ m <= n /\ m \in AnsweredDecisions(s)
    <3> HIDE DEF m
    <3>1. m \in D /\ m <= n /\ m \in Ids
      BY <2>3, <2>6
    <3> QED
      BY <3>1, IdsAreNumbered
  <2>8. T \ {m} \in SUBSET Below(m - 1)
    <3> HIDE DEF m
    <3>1. \A e \in T : e \in Nat /\ e \in D
      BY <2>3, IdsAreNumbered
    <3>2. \A e \in T \ {m} : e <= m - 1
      BY <2>6, <2>7, <3>1
    <3> QED
      BY <3>1, <3>2
  <2>9. m - 1 \in Nat /\ ~ (n <= m - 1)
    <3> HIDE DEF m
    <3> QED
      BY <2>1, <2>7
  <2>10. Repairs(s, f[T \ {m}])
    <3> HIDE DEF m
    <3> QED
      BY <2>1, <2>8, <2>9
  <2>11. f[T] = ReconcileOne(f[T \ {m}], m, available)
    BY <1>2, <2>3, <2>5 DEF OneByOne
  <2> HIDE DEF m
  <2>12. RunInv(f[T \ {m}]) /\ m \in AnsweredDecisions(f[T \ {m}])
    BY <2>7, <2>10 DEF Repairs, Continues, AnsweredDecisions
  <2>13. Repairs(f[T \ {m}], f[T])
    BY <2>11, <2>12, ReconcileOneRepairs
  <2> QED
    BY <2>2, <2>10, <2>13, RepairsFurther
<1>4. D \in SUBSET Below(MaxDecisions) /\ MaxDecisions \in Nat
  BY <1>1, IdsAreNumbered
<1> QED
  BY <1>2, <1>3, <1>4

LEMMA ReconcileContinues == ASSUME RunInv(answered), Reconcile PROVE Continues(answered, answered')
<1>1. PICK D \in {AnsweredDecisions(answered)} \cup {{d} : d \in AnsweredDecisions(answered)}, available \in BOOLEAN :
        answered' = ReconcileAll(answered, D, available)
  BY DEF Reconcile
<1>2. D \in SUBSET AnsweredDecisions(answered)
  OBVIOUS
<1> QED
  BY <1>1, <1>2, ReconcileAllRepairs DEF Repairs

-----------------------------------------------------------------------------
LEMMA ContinuationInvInit == ContinuationInit => ContinuationInv
<1> SUFFICES ASSUME ContinuationInit PROVE ContinuationInv
  OBVIOUS
<1> DEFINE none == [d \in Ids |-> "none"]
<1>1. /\ 1 \in Ids /\ 1 \in 0..MaxDecisions /\ 0 \in 0..MaxDecisions
  BY ContinuationAssumption DEF ContinuationAssumption, Ids
<1>2. /\ none \in [Ids -> {"none"} \cup AnswerKind] /\ none \in [Ids -> Continuation]
      /\ \A d \in Ids : none[d] = "none"
  BY DEF Continuation
<1>3. PICK left \in 0..MaxLeft :
        answered = [status |-> "WAITING_FOR_HUMAN", refinement |-> "WAITING_FOR_HUMAN", feasibility |-> "PENDING",
              budgetStop |-> FALSE, recorded |-> {}, asked |-> 1, open |-> {1}, atomic |-> {1},
              answer |-> none, continuation |-> none,
              used |-> {}, failed |-> {}, recovery |-> 0, active |-> 0, request |-> FALSE, left |-> left]
  BY DEF ContinuationInit
<1> HIDE DEF none
<1>4. answered \in Run
  BY <1>1, <1>2, <1>3 DEF Run, RefinementStatus, Stop
<1>5. RunInv(answered)
  BY <1>2, <1>3, <1>4 DEF RunInv, NamesAnAnswer
<1> QED
  BY <1>5 DEF ContinuationInit, ContinuationInv

LEMMA ContinuationStep ==
  ASSUME ContinuationInv, ContinuationNext
  PROVE  Continues(answered, answered') /\ asking' \in {"idle", "local", "observable", "informativeness"}
<1>1. RunInv(answered)
  BY DEF ContinuationInv
<1>2. CASE Human
  BY <1>1, <1>2, ExtendContinues, SubmitContinues, DismissContinues
     DEF Human, ContinuationInv, ExtendIterations, SubmitAnswer, Dismiss
<1>3. CASE Worker
  <2>1. Continues(answered, answered')
    BY <1>1, <1>3, StartContinues, ReselectContinues, NameContinues, AskInformativenessContinues,
       FeasibilityContinues DEF Worker
  <2>2. asking' \in {asking, "idle", "local", "observable", "informativeness"}
    BY <1>3 DEF Worker, StartRefinement, ReselectLocally, NameObservable, AskInformativeness,
                FeasibilityCompletes, FeasibilityFails, Stops
  <2> QED
    BY <2>1, <2>2 DEF ContinuationInv
<1>4. CASE Reconcile
  BY <1>1, <1>4, ReconcileContinues DEF Reconcile, ContinuationInv
<1> QED
  BY <1>2, <1>3, <1>4 DEF ContinuationNext

LEMMA ContinuationInvNext == ContinuationInv /\ [ContinuationNext]_continuationVars => ContinuationInv'
<1> SUFFICES ASSUME ContinuationInv, [ContinuationNext]_continuationVars PROVE ContinuationInv'
  OBVIOUS
<1>1. CASE UNCHANGED continuationVars
  BY <1>1 DEF continuationVars, ContinuationInv, RunInv, NamesAnAnswer
<1>2. CASE ContinuationNext
  BY <1>2, ContinuationStep DEF Continues, ContinuationInv, RunInv, NamesAnAnswer
<1> QED
  BY <1>1, <1>2

LEMMA AnswersStayNamed == ContinuationSpec => []ContinuationInv
BY ContinuationInvInit, ContinuationInvNext, PTL DEF ContinuationSpec

\* However many questions are asked and answers given, every run record that
\* the humans, the worker and the repair leave has its form.
THEOREM ContinuationTypeCorrect == ContinuationSpec => []ContinuationTypeOK
<1>1. ContinuationInv => ContinuationTypeOK
  BY DEF ContinuationInv, RunInv, ContinuationTypeOK
<1> QED
  BY <1>1, AnswersStayNamed, PTL

\* However many answers were given, restored and dropped in between, the node
\* that waits for a human has an open decision.
THEOREM WaitingHasDecision == ContinuationSpec => []WaitingRefinementHasDecision
<1>1. ContinuationInv => WaitingRefinementHasDecision
  BY DEF ContinuationInv, RunInv, WaitingRefinementHasDecision
<1> QED
  BY <1>1, AnswersStayNamed, PTL

\* In every run record there can be, a second repair of an answer changes nothing.
LEMMA ReconcileTwiceIsOnce ==
  ASSUME NEW s \in Run, NEW d \in Ids, NEW available \in BOOLEAN
  PROVE  ReconcileOne(ReconcileOne(s, d, available), d, available) = ReconcileOne(s, d, available)
<1> DEFINE planned(used, active) == RepairedRun(s, d, "PENDING", d, "PENDING", "PLANNED_RESEARCH", used, active)
           blocked == RepairedRun(s, d, "BLOCKED_ENGINEERING", s.recovery, "BLOCKED_ENGINEERING_REQUIRED",
                                  "BLOCKED_ENGINEERING_REQUIRED", s.used \ {d}, 0)
<1>1. CASE s.continuation[d] = "APPLIED"
  BY <1>1 DEF ReconcileOne
<1>2. CASE s.continuation[d] # "APPLIED" /\ ~NeedsBackend(s, d)
  <2> DEFINE t == planned(s.used, s.active)
  <2>1. ReconcileOne(s, d, available) = t
    BY <1>2 DEF ReconcileOne, Reinstalled, Install, RepairedRun, Run
  <2>2. /\ t.refinement = "PENDING" /\ t.request = s.request /\ t.failed = s.failed
        /\ t.continuation[d] = "PENDING"
    BY RunParts DEF RepairedRun, Run
  <2>3. ~NeedsBackend(t, d)
    BY <1>2, <2>2 DEF NeedsBackend
  <2>4. Reinstalled(t, d) = t
    BY DEF Reinstalled, Install, RepairedRun, Run
  <2> HIDE DEF t
  <2> QED
    BY <2>1, <2>2, <2>3, <2>4 DEF ReconcileOne
<1>3. CASE s.continuation[d] # "APPLIED" /\ NeedsBackend(s, d) /\ available = TRUE
  <2> DEFINE t == planned(s.used \ {d}, 0)
  <2>1. ReconcileOne(s, d, TRUE) = t
    BY <1>3 DEF ReconcileOne, Rechecked, Reinstalled, Install, RepairedRun, Run
  <2>2. t.continuation[d] = "PENDING"
    BY RunParts DEF RepairedRun, Run
  <2>3. Reinstalled(t, d) = t
    BY DEF Reinstalled, Install, RepairedRun, Run
  <2>4. [t EXCEPT !.used = @ \ {d}, !.active = 0] = t
    <3>1. (s.used \ {d}) \ {d} = s.used \ {d}
      OBVIOUS
    <3> QED
      BY <3>1 DEF RepairedRun, Run
  <2>5. Rechecked(t, d, TRUE) = t
    BY <2>3, <2>4 DEF Rechecked
  <2> HIDE DEF t
  <2>6. ReconcileOne(t, d, TRUE) = t
    BY <2>2, <2>3, <2>5 DEF ReconcileOne
  <2> QED
    BY <1>3, <2>1, <2>6
<1>4. CASE s.continuation[d] # "APPLIED" /\ NeedsBackend(s, d) /\ available = FALSE
  <2> DEFINE t == blocked
  <2>1. ReconcileOne(s, d, FALSE) = t
    BY <1>4 DEF ReconcileOne, Rechecked, RepairedRun, Run
  <2>2. t.continuation[d] = "BLOCKED_ENGINEERING" /\ t.refinement = "BLOCKED_ENGINEERING_REQUIRED"
    BY RunParts DEF RepairedRun, Run
  <2>3. Rechecked(t, d, FALSE) = t
    BY DEF Rechecked, RepairedRun, Run
  <2> HIDE DEF t
  <2>4. ReconcileOne(t, d, FALSE) = t
    BY <2>2, <2>3 DEF ReconcileOne, NeedsBackend
  <2> QED
    BY <1>4, <2>1, <2>4
<1> QED
  BY <1>1, <1>2, <1>3, <1>4

\* Repairing an answer again does nothing, whatever became of the answer, of
\* its node and of the backend before the first repair.
THEOREM RepairIsIdempotent == ContinuationSpec => []ReconcileIsIdempotent
<1>1. ContinuationInv => ReconcileIsIdempotent
  BY ReconcileTwiceIsOnce, RunParts DEF ContinuationInv, RunInv, ReconcileIsIdempotent, AnsweredDecisions
<1> QED
  BY <1>1, AnswersStayNamed, PTL

\* Whatever a failure or a repair leaves of an answer can be taken up again.
THEOREM AnswersCanBeTakenUp == ContinuationSpec => []AnswersAreRecoverable
BY WaitingHasDecision, RepairIsIdempotent, PTL DEF AnswersAreRecoverable

\* However many answers a repair goes through and however often it is given: an
\* answer that was applied stays applied and no recovery names it, and an answer
\* whose handling a runtime failure stops keeps its allowance.
THEOREM AnswersStayFinal == ContinuationSpec => AnswersAreFinal
<1>1. ContinuationInv' => RecoveryIsUnapplied'
  BY DEF ContinuationInv, RunInv, NamesAnAnswer, RecoveryIsUnapplied
<1>2. ContinuationInv /\ ContinuationNext => AppliedIsFinal /\ InterruptedKeepsAllowance
  <2> SUFFICES ASSUME ContinuationInv, ContinuationNext PROVE AppliedIsFinal /\ InterruptedKeepsAllowance
    OBVIOUS
  <2>1. Continues(answered, answered')
    BY ContinuationStep
  <2> QED
    BY <2>1 DEF Continues, AppliedIsFinal, InterruptedKeepsAllowance
<1>3. ContinuationInv /\ [ContinuationNext]_continuationVars /\ ContinuationInv'
        => [AppliedIsFinal /\ InterruptedKeepsAllowance /\ RecoveryIsUnapplied']_continuationVars
  BY <1>1, <1>2
<1> QED
  BY <1>3, AnswersStayNamed, PTL DEF ContinuationSpec, AnswersAreFinal

-----------------------------------------------------------------------------
(***************************************************************************)
(* StructuredRepair.  A repair goes through eleven passes, and every pass  *)
(* leaves less to do: it closes decisions, queues nodes, drops results.    *)
(* What made a pass act is gone after it and does not come back, which is  *)
(* why a second repair finds nothing.                                      *)
(***************************************************************************)

\* Why a node asks, with what a regenerated skeleton adds to it.
CausesOf(n) ==
  PlanningCauses[n] \cup (IF n = QuestionRefinement THEN {"FIELD", "FRESH", "RESELECT"} ELSE {})
Question ==
  {d \in [id : 1..MaxOpen, node : Upstream, cause : UNION {CausesOf(n) : n \in Node}] :
     d.cause \in CausesOf(d.node)}

\* The run record of RunState, whose decisions are those of the planning nodes.
PlanningRun ==
  [status : RunStatus, node : [Node -> NodeStatus], lease : [Node -> Nat],
   open : SUBSET Question, blocked : SUBSET Node, selected : BOOLEAN,
   claims : ClaimVerdict, coverage : BOOLEAN, snapshot : SUBSET Upstream]

\* The work record of a repair.
RepairWork == [run : PlanningRun, plan : Plan, repaired : SUBSET Node]

\* The nodes of the planning chain and the decisions about them.
LEMMA PlanningNames ==
  /\ QuestionDiscovery \in Node /\ EvidenceDiscovery \in Node
  /\ QuestionRefinement \in Node /\ Feasibility \in Node
  /\ Upstream = {QuestionDiscovery, EvidenceDiscovery, QuestionRefinement, Feasibility}
  /\ Downstream \subseteq Node /\ Node = Upstream \cup Downstream /\ Upstream \cap Downstream = {}
  /\ ModelNodes = {QuestionDiscovery, QuestionRefinement, Feasibility}
  /\ QuestionDiscovery # EvidenceDiscovery /\ QuestionDiscovery # QuestionRefinement
  /\ QuestionDiscovery # Feasibility /\ EvidenceDiscovery # QuestionRefinement
  /\ EvidenceDiscovery # Feasibility /\ QuestionRefinement # Feasibility
BY PlanningAssumption, NodeAssumption
   DEF PlanningAssumption, NodeAssumption, Upstream, Downstream, ModelNodes, QuestionDiscovery, EvidenceDiscovery,
       QuestionRefinement, Feasibility, SkillDiscovery, ClaimAdjudication, ResearchReadiness

LEMMA PlanningCauseNames ==
  /\ CausesOf(QuestionDiscovery) = {"DECODING", "SEMANTIC", "OTHER"}
  /\ CausesOf(EvidenceDiscovery) = {"OTHER"}
  /\ CausesOf(QuestionRefinement) = {"DECODING", "SEMANTIC", "MEASUREMENT", "TYPED", "UNSUITABLE",
                                     "FIELD", "FRESH", "RESELECT"}
  /\ CausesOf(Feasibility) = {"DECODING", "FIT", "INCOMPLETE", "ROUTING"}
<1>1. /\ PlanningCauses[QuestionDiscovery] = {"DECODING", "SEMANTIC", "OTHER"}
      /\ PlanningCauses[EvidenceDiscovery] = {"OTHER"}
      /\ PlanningCauses[QuestionRefinement] = {"DECODING", "SEMANTIC", "MEASUREMENT", "TYPED", "UNSUITABLE"}
      /\ PlanningCauses[Feasibility] = {"DECODING", "FIT", "INCOMPLETE", "ROUTING"}
  BY PlanningNames DEF PlanningCauses
<1> QED
  BY <1>1, PlanningNames DEF CausesOf

\* A decision of a planning node blocks that node.
LEMMA QuestionParts ==
  ASSUME NEW d \in Question
  PROVE  /\ d.id \in 1..MaxOpen /\ d.node \in Upstream /\ d.node \in Node
         /\ d.cause \in CausesOf(d.node)
         /\ d.cause \notin {"SKILL", "ATOMIC"}
         /\ BlockedNodes(d) = {d.node}
<1>1. d.id \in 1..MaxOpen /\ d.node \in Upstream /\ d.cause \in CausesOf(d.node)
  BY DEF Question
<1>2. d.node \in Node
  BY <1>1, PlanningNames
<1>3. d.cause \notin {"SKILL", "ATOMIC"}
  BY <1>1, PlanningNames, PlanningCauseNames
<1> QED
  BY <1>1, <1>2, <1>3 DEF BlockedNodes

LEMMA QuestionMade ==
  ASSUME NEW i \in 1..MaxOpen, NEW n \in Upstream, NEW c \in CausesOf(n)
  PROVE  [id |-> i, node |-> n, cause |-> c] \in Question
BY PlanningNames DEF Question

-----------------------------------------------------------------------------
(* The parts of a run and of a work record after each small step. *)

LEMMA PlanningSetNode ==
  ASSUME NEW r \in PlanningRun, NEW n \in Node, NEW s \in NodeStatus
  PROVE  /\ SetNode(r, n, s) \in PlanningRun
         /\ \A m \in Node : SetNode(r, n, s).node[m] = IF m = n THEN s ELSE r.node[m]
         /\ SetNode(r, n, s).open = r.open
         /\ SetNode(r, n, s).status = r.status
         /\ SetNode(r, n, s).selected = r.selected
BY DEF SetNode, PlanningRun

LEMMA PlanningSetNodes ==
  ASSUME NEW r \in PlanningRun, NEW N, NEW s \in NodeStatus
  PROVE  /\ SetNodes(r, N, s) \in PlanningRun
         /\ \A m \in Node : SetNodes(r, N, s).node[m] = IF m \in N THEN s ELSE r.node[m]
         /\ SetNodes(r, N, s).open = r.open
         /\ SetNodes(r, N, s).status = r.status
         /\ SetNodes(r, N, s).selected = r.selected
BY DEF SetNodes, PlanningRun

LEMMA PlanningClose ==
  ASSUME NEW r \in PlanningRun, NEW O \in SUBSET r.open
  PROVE  LET t == [r EXCEPT !.open = O] IN
         /\ t \in PlanningRun /\ t.open = O
         /\ t.node = r.node /\ t.status = r.status /\ t.selected = r.selected
BY DEF PlanningRun

LEMMA PlanningStatus ==
  ASSUME NEW r \in PlanningRun, NEW s \in RunStatus
  PROVE  LET t == [r EXCEPT !.status = s] IN
         /\ t \in PlanningRun /\ t.status = s
         /\ t.node = r.node /\ t.open = r.open /\ t.selected = r.selected
BY DEF PlanningRun

LEMMA PlanningPlanned ==
  ASSUME NEW r \in PlanningRun
  PROVE  LET t == PlannedUnlessOpen(r) IN
         /\ t \in PlanningRun
         /\ t.status = (IF r.open = {} THEN "PLANNED_RESEARCH" ELSE r.status)
         /\ t.node = r.node /\ t.open = r.open /\ t.selected = r.selected
BY DEF PlannedUnlessOpen, PlanningRun, RunStatus

LEMMA PlanningSelected ==
  ASSUME NEW r \in PlanningRun, NEW b \in BOOLEAN
  PROVE  LET t == [r EXCEPT !.selected = b] IN
         /\ t \in PlanningRun /\ t.selected = b
         /\ t.node = r.node /\ t.open = r.open /\ t.status = r.status
BY DEF PlanningRun

LEMMA WorkParts ==
  ASSUME NEW w \in RepairWork
  PROVE  /\ w.run \in PlanningRun /\ w.plan \in Plan /\ w.repaired \in SUBSET Node
         /\ w.run.open \in SUBSET Question
         /\ w.run.node \in [Node -> NodeStatus] /\ w.run.status \in RunStatus
         /\ w.run.selected \in BOOLEAN
BY DEF RepairWork, PlanningRun

-----------------------------------------------------------------------------
(* The small steps of the passes. *)

LEMMA ResetParts ==
  ASSUME NEW w \in RepairWork, NEW n \in Node
  PROVE  LET t == Reset(w, n) IN
         /\ t \in RepairWork
         /\ \A m \in Node : t.run.node[m] = IF m = n THEN "PENDING" ELSE w.run.node[m]
         /\ t.run.open = w.run.open /\ t.run.status = w.run.status /\ t.run.selected = w.run.selected
         /\ t.plan = [w.plan EXCEPT !.output = @ \ {n}]
         /\ t.repaired = w.repaired \cup {n}
<1> DEFINE t == Reset(w, n)
           r == SetNode(w.run, n, "PENDING")
           p == [w.plan EXCEPT !.output = @ \ {n}]
<1>1. "PENDING" \in NodeStatus
  BY DEF NodeStatus
<1>2. /\ r \in PlanningRun /\ \A m \in Node : r.node[m] = IF m = n THEN "PENDING" ELSE w.run.node[m]
      /\ r.open = w.run.open /\ r.status = w.run.status /\ r.selected = w.run.selected
  BY <1>1, WorkParts, PlanningSetNode
<1>3. p \in Plan
  BY WorkParts DEF Plan
<1>4. t = [run |-> r, plan |-> p, repaired |-> w.repaired \cup {n}]
  <2>1. w = [run |-> w.run, plan |-> w.plan, repaired |-> w.repaired]
    BY DEF RepairWork
  <2> DEFINE R == w.repaired \cup {n}
             o == w.plan.output \ {n}
  <2>2. t = [w EXCEPT !.run = r, !.repaired = R, !.plan.output = o]
    BY DEF Reset
  <2>3. p = [w.plan EXCEPT !.output = o]
    OBVIOUS
  <2> HIDE DEF t, r, R, o, p
  <2>4. t = [run |-> r, plan |-> p, repaired |-> R]
    BY <2>1, <2>2, <2>3
  <2> QED
    BY <2>4 DEF R
<1> HIDE DEF t, r, p
<1>5. t.run = r /\ t.plan = p /\ t.repaired = w.repaired \cup {n}
  BY <1>4
<1>6. t \in RepairWork
  BY <1>2, <1>3, <1>4, WorkParts DEF RepairWork
<1>7. /\ \A m \in Node : t.run.node[m] = IF m = n THEN "PENDING" ELSE w.run.node[m]
      /\ t.run.open = w.run.open /\ t.run.status = w.run.status /\ t.run.selected = w.run.selected
  BY <1>2, <1>5
<1>8. t.plan = [w.plan EXCEPT !.output = @ \ {n}] /\ t.repaired = w.repaired \cup {n}
  BY <1>5 DEF p
<1> QED
  BY <1>6, <1>7, <1>8 DEF t

LEMMA ResetQueues ==
  ASSUME NEW w \in RepairWork, NEW n \in Node
  PROVE  Reset(w, n).run.node[n] = "PENDING"
BY ResetParts

LEMMA ClearParts ==
  ASSUME NEW w \in RepairWork
  PROVE  LET t == ClearOutputs(w, QuestionRefinement) IN
         /\ t \in RepairWork
         /\ t.run.node = w.run.node /\ t.run.open = w.run.open /\ t.run.status = w.run.status
         /\ t.run.selected = FALSE
         /\ t.plan = [w.plan EXCEPT !.stale = @ \ {"selection"}]
         /\ t.repaired = w.repaired
<1> DEFINE t == ClearOutputs(w, QuestionRefinement)
           r == [w.run EXCEPT !.selected = FALSE]
           p == [w.plan EXCEPT !.stale = @ \ {"selection"}]
<1>1. r \in PlanningRun /\ r.selected = FALSE /\ r.node = w.run.node /\ r.open = w.run.open
      /\ r.status = w.run.status
  BY WorkParts, PlanningSelected
<1>2. p \in Plan
  BY WorkParts DEF Plan
<1>3. t = [run |-> r, plan |-> p, repaired |-> w.repaired]
  BY DEF ClearOutputs, RepairWork
<1> HIDE DEF t, r, p
<1>4. t.run = r /\ t.plan = p /\ t.repaired = w.repaired
  BY <1>3
<1>5. t \in RepairWork
  BY <1>1, <1>2, <1>3, WorkParts DEF RepairWork
<1>6. /\ t.run.node = w.run.node /\ t.run.open = w.run.open /\ t.run.status = w.run.status
      /\ t.run.selected = FALSE
  BY <1>1, <1>4
<1>7. t.plan = [w.plan EXCEPT !.stale = @ \ {"selection"}] /\ t.repaired = w.repaired
  BY <1>4 DEF p
<1> QED
  BY <1>5, <1>6, <1>7 DEF t

LEMMA InvalidateParts ==
  ASSUME NEW w \in RepairWork, NEW O
  PROVE  LET t == Invalidate(w, O) IN
         /\ t \in RepairWork
         /\ t.run.open = w.run.open \ O
         /\ t.run.node = w.run.node /\ t.run.status = w.run.status /\ t.run.selected = w.run.selected
         /\ t.plan = w.plan
         /\ t.repaired = w.repaired
<1> DEFINE t == Invalidate(w, O)
           r == [w.run EXCEPT !.open = w.run.open \ O]
<1>0. w.run \in PlanningRun /\ w.run.open \ O \in SUBSET w.run.open
  BY WorkParts
<1>1. r \in PlanningRun /\ r.open = w.run.open \ O /\ r.node = w.run.node /\ r.status = w.run.status
      /\ r.selected = w.run.selected
  <2> HIDE DEF r
  <2>1. LET q == [w.run EXCEPT !.open = w.run.open \ O] IN
        /\ q \in PlanningRun /\ q.open = w.run.open \ O
        /\ q.node = w.run.node /\ q.status = w.run.status /\ q.selected = w.run.selected
    BY <1>0, PlanningClose
  <2> QED
    BY <2>1 DEF r
<1>2. t = [run |-> r, plan |-> w.plan, repaired |-> w.repaired]
  BY DEF Invalidate, RepairWork
<1> HIDE DEF t, r
<1>3. t.run = r /\ t.plan = w.plan /\ t.repaired = w.repaired
  BY <1>2
<1>4. t \in RepairWork
  BY <1>1, <1>2, WorkParts DEF RepairWork
<1>5. /\ t.run.open = w.run.open \ O
      /\ t.run.node = w.run.node /\ t.run.status = w.run.status /\ t.run.selected = w.run.selected
  BY <1>1, <1>3
<1> QED
  BY <1>3, <1>4, <1>5 DEF t

\* Nodes that were advanced when the node they depend on is queued again.
Advanced(w, n) == {m \in Dependents[n] : w.run.node[m] \notin {"PENDING", "LEASED"}}

LEMMA MarkParts ==
  ASSUME NEW w \in RepairWork, NEW n \in Node
  PROVE  LET t == MarkDependents(w, n) IN
         /\ t \in RepairWork
         /\ \A m \in Node : t.run.node[m] = IF m \in Advanced(w, n) THEN "PENDING" ELSE w.run.node[m]
         /\ IF Advanced(w, n) # {} /\ w.run.status = "WAITING_FOR_HUMAN"
            THEN t.run.open = {d \in w.run.open : d.node \notin Advanced(w, n)}
            ELSE t.run.open = w.run.open
         /\ \/ t.run.status = w.run.status
            \/ t.run.open = {} /\ t.run.status = "PLANNED_RESEARCH"
         /\ t.run.selected = w.run.selected
         /\ t.plan = [w.plan EXCEPT !.output = @ \ Advanced(w, n)]
         /\ t.repaired = w.repaired
<1> DEFINE t == MarkDependents(w, n)
           N == Advanced(w, n)
           s == SetNodes(w.run, N, "PENDING")
           O == {d \in w.run.open : BlockedNodes(d) \cap N = {}}
           u == [s EXCEPT !.open = O]
           c == N # {} /\ w.run.status = "WAITING_FOR_HUMAN"
           r == IF c THEN PlannedUnlessOpen(u) ELSE s
           p == [w.plan EXCEPT !.output = @ \ N]
<1>1. "PENDING" \in NodeStatus
  BY DEF NodeStatus
<1>a. t = [w EXCEPT !.run = IF c THEN PlannedUnlessOpen([s EXCEPT !.open = {d \in @ : BlockedNodes(d) \cap N = {}}])
                            ELSE s,
                    !.plan.output = @ \ N]
  BY DEF MarkDependents, Advanced
<1> HIDE DEF N, t
<1>2. /\ s \in PlanningRun /\ \A m \in Node : s.node[m] = IF m \in N THEN "PENDING" ELSE w.run.node[m]
      /\ s.open = w.run.open /\ s.status = w.run.status /\ s.selected = w.run.selected
  BY <1>1, WorkParts, PlanningSetNodes
<1>3. O = {d \in w.run.open : d.node \notin N}
  <2>1. \A d \in w.run.open : BlockedNodes(d) = {d.node}
    BY WorkParts, QuestionParts
  <2> QED
    BY <2>1
<1>4. p \in Plan
  BY WorkParts DEF Plan
<1>5. t = [run |-> r, plan |-> p, repaired |-> w.repaired]
  <2>1. u = [s EXCEPT !.open = {d \in @ : BlockedNodes(d) \cap N = {}}]
    BY <1>2
  <2>2. t = [w EXCEPT !.run = r, !.plan.output = @ \ N]
    BY <1>a, <2>1
  <2>3. w = [run |-> w.run, plan |-> w.plan, repaired |-> w.repaired]
    BY DEF RepairWork
  <2> HIDE DEF r
  <2> QED
    BY <2>2, <2>3
<1> HIDE DEF s
<1>6. u \in PlanningRun /\ u.open = O /\ u.node = s.node /\ u.status = s.status /\ u.selected = s.selected
  BY <1>2, PlanningClose
<1> HIDE DEF u
<1>7. LET v == PlannedUnlessOpen(u) IN
        /\ v \in PlanningRun /\ v.status = (IF u.open = {} THEN "PLANNED_RESEARCH" ELSE u.status)
        /\ v.node = u.node /\ v.open = u.open /\ v.selected = u.selected
  BY <1>6, PlanningPlanned
<1> HIDE DEF p, O
<1>8. /\ r \in PlanningRun /\ r.node = s.node /\ r.selected = s.selected
      /\ r.open = (IF c THEN O ELSE w.run.open)
      /\ r.status = w.run.status \/ (r.open = {} /\ r.status = "PLANNED_RESEARCH")
  BY <1>2, <1>6, <1>7
<1> HIDE DEF r
<1>9. t.run = r /\ t.plan = p /\ t.repaired = w.repaired
  BY <1>5
<1>10. t \in RepairWork
  BY <1>4, <1>5, <1>8, WorkParts DEF RepairWork
<1>11. IF N # {} /\ w.run.status = "WAITING_FOR_HUMAN"
       THEN t.run.open = {d \in w.run.open : d.node \notin N}
       ELSE t.run.open = w.run.open
  BY <1>3, <1>8, <1>9
<1>12. \A m \in Node : t.run.node[m] = IF m \in N THEN "PENDING" ELSE w.run.node[m]
  BY <1>2, <1>8, <1>9
<1>13. \/ t.run.status = w.run.status
       \/ t.run.open = {} /\ t.run.status = "PLANNED_RESEARCH"
  BY <1>8, <1>9
<1>14. t.plan = [w.plan EXCEPT !.output = @ \ N]
  BY <1>9 DEF p
<1>15. t.run.selected = w.run.selected /\ t.repaired = w.repaired
  BY <1>2, <1>8, <1>9
<1> QED
  BY <1>10, <1>11, <1>12, <1>13, <1>14, <1>15 DEF t, N

-----------------------------------------------------------------------------
(* Every pass leaves less to do. *)

NoMore(t, w) ==
  /\ t.run.open \subseteq w.run.open
  /\ \A n \in Node : t.run.node[n] \in {w.run.node[n], "PENDING"}
  /\ t.run.selected => w.run.selected
  /\ t.plan.candidate => w.plan.candidate
  /\ t.plan.skeleton => w.plan.skeleton
  /\ t.plan.routes => w.plan.routes
  /\ t.plan.stale \subseteq w.plan.stale
  /\ t.plan.output \subseteq w.plan.output

LEMMA NoMoreItself == \A w : NoMore(w, w)
BY DEF NoMore

LEMMA NoMoreTransitive ==
  ASSUME NEW u, NEW t, NEW w, NoMore(u, t), NoMore(t, w)
  PROVE  NoMore(u, w)
<1>1. \A n \in Node : u.run.node[n] \in {w.run.node[n], "PENDING"}
  BY DEF NoMore
<1> QED
  BY <1>1 DEF NoMore

\* A plan of which an output or a stale mark was removed.
LEMMA PlanLess ==
  ASSUME NEW p \in Plan, NEW N
  PROVE  /\ [p EXCEPT !.output = p.output \ N] \in Plan
         /\ [p EXCEPT !.stale = p.stale \ N] \in Plan
BY DEF Plan

LEMMA ResetLess ==
  ASSUME NEW w \in RepairWork, NEW n \in Node
  PROVE  Reset(w, n) \in RepairWork /\ NoMore(Reset(w, n), w)
<1> DEFINE t == Reset(w, n)
<1>1. /\ t \in RepairWork
      /\ \A m \in Node : t.run.node[m] = IF m = n THEN "PENDING" ELSE w.run.node[m]
      /\ t.run.open = w.run.open /\ t.run.selected = w.run.selected
      /\ t.plan = [w.plan EXCEPT !.output = @ \ {n}]
  BY ResetParts
<1> HIDE DEF t
<1>2. /\ t.plan.candidate = w.plan.candidate /\ t.plan.skeleton = w.plan.skeleton
      /\ t.plan.routes = w.plan.routes /\ t.plan.stale = w.plan.stale
      /\ t.plan.output = w.plan.output \ {n}
  BY <1>1, WorkParts DEF Plan
<1>3. NoMore(t, w)
  BY <1>1, <1>2 DEF NoMore
<1> QED
  BY <1>1, <1>3 DEF t

LEMMA ClearLess ==
  ASSUME NEW w \in RepairWork
  PROVE  /\ ClearOutputs(w, QuestionRefinement) \in RepairWork
         /\ NoMore(ClearOutputs(w, QuestionRefinement), w)
<1> DEFINE t == ClearOutputs(w, QuestionRefinement)
<1>1. /\ t \in RepairWork
      /\ t.run.node = w.run.node /\ t.run.open = w.run.open /\ t.run.selected = FALSE
      /\ t.plan = [w.plan EXCEPT !.stale = @ \ {"selection"}]
  BY ClearParts
<1> HIDE DEF t
<1>2. /\ t.plan.candidate = w.plan.candidate /\ t.plan.skeleton = w.plan.skeleton
      /\ t.plan.routes = w.plan.routes /\ t.plan.stale = w.plan.stale \ {"selection"}
      /\ t.plan.output = w.plan.output
  BY <1>1, WorkParts DEF Plan
<1>3. NoMore(t, w)
  BY <1>1, <1>2 DEF NoMore
<1> QED
  BY <1>1, <1>3 DEF t

LEMMA InvalidateLess ==
  ASSUME NEW w \in RepairWork, NEW O
  PROVE  Invalidate(w, O) \in RepairWork /\ NoMore(Invalidate(w, O), w)
<1> DEFINE t == Invalidate(w, O)
<1>1. /\ t \in RepairWork
      /\ t.run.open = w.run.open \ O
      /\ t.run.node = w.run.node /\ t.run.selected = w.run.selected
      /\ t.plan = w.plan
  BY InvalidateParts
<1> HIDE DEF t
<1>2. NoMore(t, w)
  BY <1>1 DEF NoMore
<1> QED
  BY <1>1, <1>2 DEF t

LEMMA MarkLess ==
  ASSUME NEW w \in RepairWork, NEW n \in Node
  PROVE  MarkDependents(w, n) \in RepairWork /\ NoMore(MarkDependents(w, n), w)
<1> DEFINE t == MarkDependents(w, n)
           N == Advanced(w, n)
<1>1. /\ t \in RepairWork
      /\ \A m \in Node : t.run.node[m] = IF m \in N THEN "PENDING" ELSE w.run.node[m]
      /\ t.run.selected = w.run.selected
      /\ t.plan = [w.plan EXCEPT !.output = @ \ N]
  BY MarkParts
<1>2. t.run.open \subseteq w.run.open
  BY MarkParts
<1> HIDE DEF t, N
<1>3. /\ t.plan.candidate = w.plan.candidate /\ t.plan.skeleton = w.plan.skeleton
      /\ t.plan.routes = w.plan.routes /\ t.plan.stale = w.plan.stale
      /\ t.plan.output = w.plan.output \ N
  BY <1>1, WorkParts DEF Plan
<1>4. NoMore(t, w)
  BY <1>1, <1>2, <1>3 DEF NoMore
<1> QED
  BY <1>1, <1>4 DEF t

LEMMA RetryLess ==
  ASSUME NEW w \in RepairWork, NEW n \in Node, NEW causes
  PROVE  /\ Retry(w, n, causes) \in RepairWork /\ NoMore(Retry(w, n, causes), w)
         /\ RetryWithDependents(w, n, causes) \in RepairWork
         /\ NoMore(RetryWithDependents(w, n, causes), w)
<1> DEFINE D == Asked(w, n, causes)
           t == Reset(w, n)
           u == MarkDependents(t, n)
<1>1. t \in RepairWork /\ NoMore(t, w)
  BY ResetLess
<1>2. Retry(w, n, causes) = IF D = {} THEN w ELSE Invalidate(t, D)
  BY DEF Retry
<1>3. RetryWithDependents(w, n, causes) = IF D = {} THEN w ELSE Invalidate(u, D)
  BY DEF RetryWithDependents
<1> HIDE DEF t, D
<1>4. u \in RepairWork /\ NoMore(u, t)
  BY <1>1, MarkLess
<1> HIDE DEF u
<1>5. Invalidate(t, D) \in RepairWork /\ NoMore(Invalidate(t, D), t)
  BY <1>1, InvalidateLess
<1>6. Invalidate(u, D) \in RepairWork /\ NoMore(Invalidate(u, D), u)
  BY <1>4, InvalidateLess
<1>7. NoMore(Invalidate(t, D), w)
  BY <1>1, <1>5, NoMoreTransitive
<1>8. NoMore(Invalidate(u, D), w)
  <2>1. NoMore(u, w)
    BY <1>1, <1>4, NoMoreTransitive
  <2> QED
    BY <1>6, <2>1, NoMoreTransitive
<1> QED
  BY <1>2, <1>3, <1>5, <1>6, <1>7, <1>8, NoMoreItself

-----------------------------------------------------------------------------
(* What makes a pass act, and that it stays away once it is gone.          *)

SkeletonKept(w) ==
  ~ (w.plan.skeleton /\ "skeleton" \in w.plan.stale /\ w.run.node[QuestionRefinement] = "COMPLETED")
CandidateKept(w) ==
  ~ (w.plan.candidate /\ "candidate" \in w.plan.stale /\ w.run.node[QuestionDiscovery] = "COMPLETED")
RoutesKept(w) ==
  ~ (w.plan.routes /\ "routes" \in w.plan.stale /\ w.run.node[Feasibility] = "COMPLETED")
SelectionKept(w) == ~ (w.run.selected /\ "selection" \in w.plan.stale)
Unasked(w, n, causes) == Asked(w, n, causes) = {}
CandidateSuits(w) == Unasked(w, QuestionRefinement, {"UNSUITABLE"}) \/ ~ w.plan.candidate
NothingDecoding(w) == {d \in w.run.open : d.cause = "DECODING"} = {}
NothingMalformed(w) == {n \in w.plan.output : w.run.node[n] = "FAILED"} = {}

RefinementCauses == {"FIELD", "MEASUREMENT", "FRESH", "RESELECT", "TYPED"}
FeasibilityCauses(preserved) == {"ROUTING", "INCOMPLETE"} \cup (IF preserved THEN {"FIT"} ELSE {})

Quiet(w, preserved) ==
  /\ SkeletonKept(w)
  /\ CandidateKept(w)
  /\ Unasked(w, QuestionRefinement, RefinementCauses)
  /\ Unasked(w, QuestionDiscovery, {"SEMANTIC"})
  /\ RoutesKept(w)
  /\ Unasked(w, Feasibility, FeasibilityCauses(preserved))
  /\ Unasked(w, QuestionRefinement, {"SEMANTIC", "MEASUREMENT"})
  /\ CandidateSuits(w)
  /\ NothingDecoding(w)
  /\ NothingMalformed(w)
  /\ SelectionKept(w)

LEMMA QuietLess ==
  ASSUME NEW t \in RepairWork, NEW w \in RepairWork, NoMore(t, w)
  PROVE  /\ SkeletonKept(w) => SkeletonKept(t)
         /\ CandidateKept(w) => CandidateKept(t)
         /\ RoutesKept(w) => RoutesKept(t)
         /\ SelectionKept(w) => SelectionKept(t)
         /\ \A n, causes : Unasked(w, n, causes) => Unasked(t, n, causes)
         /\ CandidateSuits(w) => CandidateSuits(t)
         /\ NothingDecoding(w) => NothingDecoding(t)
         /\ NothingMalformed(w) => NothingMalformed(t)
<1>1. \A n \in Node : t.run.node[n] # "PENDING" => t.run.node[n] = w.run.node[n]
  BY DEF NoMore
<1>2. SkeletonKept(w) => SkeletonKept(t)
  BY <1>1, PlanningNames DEF NoMore, SkeletonKept
<1>3. CandidateKept(w) => CandidateKept(t)
  BY <1>1, PlanningNames DEF NoMore, CandidateKept
<1>4. RoutesKept(w) => RoutesKept(t)
  BY <1>1, PlanningNames DEF NoMore, RoutesKept
<1>5. SelectionKept(w) => SelectionKept(t)
  BY DEF NoMore, SelectionKept
<1>6. ASSUME NEW n, NEW causes, Unasked(w, n, causes)
      PROVE  Unasked(t, n, causes)
  BY <1>6 DEF NoMore, Unasked, Asked
<1>7. CandidateSuits(w) => CandidateSuits(t)
  BY <1>6 DEF NoMore, CandidateSuits
<1>8. NothingDecoding(w) => NothingDecoding(t)
  BY DEF NoMore, NothingDecoding
<1>9. ASSUME NothingMalformed(w), NEW n \in t.plan.output, t.run.node[n] = "FAILED"
      PROVE  FALSE
  <2>1. n \in w.plan.output /\ n \in Node
    BY WorkParts DEF NoMore, Plan
  <2>2. w.run.node[n] = "FAILED"
    BY <1>1, <1>9, <2>1
  <2> QED
    BY <1>9, <2>1, <2>2 DEF NothingMalformed
<1>10. NothingMalformed(w) => NothingMalformed(t)
  BY <1>9 DEF NothingMalformed
<1> QED
  BY <1>2, <1>3, <1>4, <1>5, <1>6, <1>7, <1>8, <1>10

-----------------------------------------------------------------------------
(* The passes, one by one. *)

LEMMA RetireSkeletonLess ==
  ASSUME NEW w \in RepairWork, NEW recovery \in {"none", "current", "fresh"}
  PROVE  LET t == RetireSkeleton(w, recovery) IN
         t \in RepairWork /\ NoMore(t, w) /\ SkeletonKept(t)
<1> DEFINE p == [w.plan EXCEPT !.skeleton = FALSE, !.stale = w.plan.stale \ {"skeleton"},
                               !.recovery = IF recovery = "none" THEN w.plan.recovery ELSE recovery,
                               !.fresh = IF recovery = "fresh" THEN 0 ELSE w.plan.fresh]
           v == [run |-> w.run, plan |-> p, repaired |-> w.repaired]
           a == ClearOutputs(v, QuestionRefinement)
           b == Reset(a, QuestionRefinement)
           c == MarkDependents(b, QuestionRefinement)
<1>1. /\ p \in Plan /\ p.skeleton = FALSE /\ p.candidate = w.plan.candidate /\ p.routes = w.plan.routes
      /\ p.stale \subseteq w.plan.stale /\ p.output = w.plan.output
  <2> DEFINE x == w.plan.stale \ {"skeleton"}
             y == IF recovery = "none" THEN w.plan.recovery ELSE recovery
             z == IF recovery = "fresh" THEN 0 ELSE w.plan.fresh
  <2>1. w.plan \in Plan
    BY WorkParts
  <2>2. x \in SUBSET PlanningResults /\ y \in {"none", "current", "fresh"} /\ z \in 0..1
    BY <2>1 DEF Plan
  <2>3. p = [w.plan EXCEPT !.skeleton = FALSE, !.stale = x, !.recovery = y, !.fresh = z]
    OBVIOUS
  <2>4. x \subseteq w.plan.stale
    OBVIOUS
  <2> HIDE DEF x, y, z, p
  <2>5. /\ p.skeleton = FALSE /\ p.candidate = w.plan.candidate /\ p.routes = w.plan.routes
        /\ p.stale = x /\ p.output = w.plan.output
    BY <2>1, <2>3 DEF Plan
  <2>6. p \in Plan
    BY <2>1, <2>2, <2>3 DEF Plan
  <2> QED
    BY <2>4, <2>5, <2>6
<1>2. v = [w EXCEPT !.plan = p]
  BY DEF RepairWork
<1>3. RetireSkeleton(w, recovery) = IF SkeletonKept(w) THEN w ELSE c
  BY <1>2 DEF RetireSkeleton, SkeletonKept
<1> HIDE DEF p
<1>4. v \in RepairWork /\ NoMore(v, w)
  BY <1>1, WorkParts DEF RepairWork, NoMore
<1>5. v.plan.skeleton = FALSE
  BY <1>1
<1> HIDE DEF v
<1>6. a \in RepairWork /\ NoMore(a, v)
  BY <1>4, ClearLess
<1> HIDE DEF a
<1>7. b \in RepairWork /\ NoMore(b, a)
  BY <1>6, ResetLess, PlanningNames
<1> HIDE DEF b
<1>8. c \in RepairWork /\ NoMore(c, b)
  BY <1>7, MarkLess, PlanningNames
<1> HIDE DEF c
<1>9. NoMore(b, v)
  BY <1>6, <1>7, NoMoreTransitive
<1>10. NoMore(c, v)
  BY <1>8, <1>9, NoMoreTransitive
<1>11. NoMore(c, w)
  BY <1>4, <1>10, NoMoreTransitive
<1>12. SkeletonKept(c)
  BY <1>5, <1>10 DEF NoMore, SkeletonKept
<1> QED
  BY <1>3, <1>8, <1>11, <1>12, NoMoreItself

LEMMA RetireCandidateLess ==
  ASSUME NEW w \in RepairWork
  PROVE  LET t == RetireCandidate(w) IN
         t \in RepairWork /\ NoMore(t, w) /\ CandidateKept(t)
<1> DEFINE p == WithoutCandidate(w.plan)
           v == [run |-> w.run, plan |-> p, repaired |-> w.repaired]
           b == Reset(v, QuestionDiscovery)
           c == MarkDependents(b, QuestionDiscovery)
<1>1. /\ p \in Plan /\ p.candidate = FALSE /\ p.skeleton = w.plan.skeleton /\ p.routes = w.plan.routes
      /\ p.stale \subseteq w.plan.stale /\ p.output = w.plan.output
  BY WorkParts DEF Plan, WithoutCandidate
<1>2. v = [w EXCEPT !.plan = p]
  BY DEF RepairWork
<1>3. RetireCandidate(w) = IF CandidateKept(w) THEN w ELSE c
  BY <1>2 DEF RetireCandidate, CandidateKept
<1> HIDE DEF p
<1>4. v \in RepairWork /\ NoMore(v, w)
  BY <1>1, WorkParts DEF RepairWork, NoMore
<1>5. v.plan.candidate = FALSE
  BY <1>1
<1> HIDE DEF v
<1>6. b \in RepairWork /\ NoMore(b, v)
  BY <1>4, ResetLess, PlanningNames
<1> HIDE DEF b
<1>7. c \in RepairWork /\ NoMore(c, b)
  BY <1>6, MarkLess, PlanningNames
<1> HIDE DEF c
<1>8. NoMore(c, v)
  BY <1>6, <1>7, NoMoreTransitive
<1>9. NoMore(c, w)
  BY <1>4, <1>8, NoMoreTransitive
<1>10. CandidateKept(c)
  BY <1>5, <1>8 DEF NoMore, CandidateKept
<1> QED
  BY <1>3, <1>7, <1>9, <1>10, NoMoreItself

\* What a retried node was asked about is not asked any more.
LEMMA RetryUnasked ==
  ASSUME NEW w \in RepairWork, NEW n \in Node, NEW causes
  PROVE  /\ Unasked(Retry(w, n, causes), n, causes)
         /\ Unasked(RetryWithDependents(w, n, causes), n, causes)
<1> DEFINE D == Asked(w, n, causes)
           t == Reset(w, n)
           u == MarkDependents(t, n)
<1>1. t \in RepairWork /\ NoMore(t, w)
  BY ResetLess
<1>2. Retry(w, n, causes) = IF D = {} THEN w ELSE Invalidate(t, D)
  BY DEF Retry
<1>3. RetryWithDependents(w, n, causes) = IF D = {} THEN w ELSE Invalidate(u, D)
  BY DEF RetryWithDependents
<1> HIDE DEF t
<1>4. u \in RepairWork /\ NoMore(u, t)
  BY <1>1, MarkLess
<1>5. NoMore(u, w)
  BY <1>1, <1>4, NoMoreTransitive
<1> HIDE DEF u
<1>6. ASSUME NEW x \in RepairWork, NoMore(x, w)
      PROVE  Unasked(Invalidate(x, D), n, causes)
  <2>1. Invalidate(x, D).run.open = x.run.open \ D
    BY InvalidateParts
  <2> QED
    BY <1>6, <2>1 DEF NoMore, Unasked, Asked
<1>7. Unasked(Invalidate(t, D), n, causes) /\ Unasked(Invalidate(u, D), n, causes)
  BY <1>1, <1>4, <1>5, <1>6
<1> QED
  BY <1>2, <1>3, <1>7 DEF Unasked

LEMMA RefinementLess ==
  ASSUME NEW w \in RepairWork
  PROVE  LET t == RefinementDecisions(w) IN
         t \in RepairWork /\ NoMore(t, w) /\ Unasked(t, QuestionRefinement, RefinementCauses)
<1> DEFINE restart == Asked(w, QuestionRefinement, {"FIELD"}) # {}
           again == Asked(w, QuestionRefinement, {"FRESH"}) # {}
           reselect == Asked(w, QuestionRefinement, {"RESELECT"}) # {}
           t == RetryWithDependents(w, QuestionRefinement, {"FIELD", "MEASUREMENT"})
           u == Retry(t, QuestionRefinement, {"FRESH", "RESELECT", "TYPED"})
           p == [u.plan EXCEPT !.recovery = IF again \/ reselect THEN "current" ELSE IF restart THEN "fresh" ELSE @,
                               !.fresh = IF restart \/ again THEN 0 ELSE @]
           v == [run |-> u.run, plan |-> p, repaired |-> u.repaired]
<1>1. /\ t \in RepairWork /\ NoMore(t, w)
      /\ Unasked(t, QuestionRefinement, {"FIELD", "MEASUREMENT"})
  BY PlanningNames, RetryLess, RetryUnasked
<1>2. RefinementDecisions(w) = [u EXCEPT !.plan = p]
  BY DEF RefinementDecisions
<1> HIDE DEF t
<1>3. /\ u \in RepairWork /\ NoMore(u, t)
      /\ Unasked(u, QuestionRefinement, {"FRESH", "RESELECT", "TYPED"})
  BY <1>1, PlanningNames, RetryLess, RetryUnasked
<1> HIDE DEF u, restart, again, reselect
<1>4. v = RefinementDecisions(w)
  BY <1>2, <1>3 DEF RepairWork
<1>5. /\ p \in Plan /\ p.skeleton = u.plan.skeleton /\ p.candidate = u.plan.candidate /\ p.routes = u.plan.routes
      /\ p.stale = u.plan.stale /\ p.output = u.plan.output
  <2> DEFINE y == IF again \/ reselect THEN "current" ELSE IF restart THEN "fresh" ELSE u.plan.recovery
             z == IF restart \/ again THEN 0 ELSE u.plan.fresh
  <2>1. u.plan \in Plan
    BY <1>3, WorkParts
  <2>2. y \in {"none", "current", "fresh"} /\ z \in 0..1
    BY <2>1 DEF Plan
  <2>3. p = [u.plan EXCEPT !.recovery = y, !.fresh = z]
    OBVIOUS
  <2> HIDE DEF y, z, p
  <2>4. /\ p.skeleton = u.plan.skeleton /\ p.candidate = u.plan.candidate /\ p.routes = u.plan.routes
        /\ p.stale = u.plan.stale /\ p.output = u.plan.output
    BY <2>1, <2>3 DEF Plan
  <2>5. p \in Plan
    BY <2>1, <2>2, <2>3 DEF Plan
  <2> QED
    BY <2>4, <2>5
<1> HIDE DEF p
<1>6. v \in RepairWork /\ NoMore(v, u)
  BY <1>3, <1>5, WorkParts DEF RepairWork, NoMore
<1> HIDE DEF v
<1>7. NoMore(v, t)
  BY <1>3, <1>6, NoMoreTransitive
<1>8. NoMore(v, w)
  BY <1>1, <1>7, NoMoreTransitive
<1>9. Unasked(v, QuestionRefinement, {"FIELD", "MEASUREMENT"})
  BY <1>1, <1>6, <1>7, QuietLess
<1>10. Unasked(v, QuestionRefinement, {"FRESH", "RESELECT", "TYPED"})
  BY <1>3, <1>6, QuietLess
<1>11. Unasked(v, QuestionRefinement, RefinementCauses)
  BY <1>9, <1>10 DEF Unasked, Asked, RefinementCauses
<1> QED
  BY <1>4, <1>6, <1>8, <1>11

LEMMA DiscoveryLess ==
  ASSUME NEW w \in RepairWork
  PROVE  LET t == DiscoveryDecisions(w) IN
         t \in RepairWork /\ NoMore(t, w) /\ Unasked(t, QuestionDiscovery, {"SEMANTIC"})
BY PlanningNames, RetryLess, RetryUnasked DEF DiscoveryDecisions

LEMMA RetireRoutesLess ==
  ASSUME NEW w \in RepairWork
  PROVE  LET t == RetireRoutes(w) IN t \in RepairWork /\ NoMore(t, w) /\ RoutesKept(t)
<1> DEFINE b == Reset(w, Feasibility)
           c == MarkDependents(b, Feasibility)
<1>1. RetireRoutes(w) = IF RoutesKept(w) THEN w ELSE c
  BY DEF RetireRoutes, RoutesKept
<1>2. b \in RepairWork /\ NoMore(b, w) /\ b.run.node[Feasibility] = "PENDING"
  BY ResetLess, ResetParts, PlanningNames
<1> HIDE DEF b
<1>3. c \in RepairWork /\ NoMore(c, b)
  BY <1>2, MarkLess, PlanningNames
<1> HIDE DEF c
<1>4. NoMore(c, w)
  BY <1>2, <1>3, NoMoreTransitive
<1>5. RoutesKept(c)
  BY <1>2, <1>3, PlanningNames DEF NoMore, RoutesKept
<1> QED
  BY <1>1, <1>3, <1>4, <1>5, NoMoreItself

LEMMA FeasibilityLess ==
  ASSUME NEW w \in RepairWork, NEW preserved \in BOOLEAN
  PROVE  LET t == FeasibilityDecisions(w, preserved) IN
         t \in RepairWork /\ NoMore(t, w) /\ Unasked(t, Feasibility, FeasibilityCauses(preserved))
<1> DEFINE C == {"INCOMPLETE"} \cup (IF preserved THEN {"FIT"} ELSE {})
           a == RetryWithDependents(w, Feasibility, {"ROUTING"})
           t == Retry(a, Feasibility, C)
<1>1. FeasibilityDecisions(w, preserved) = t
  BY DEF FeasibilityDecisions
<1>2. FeasibilityCauses(preserved) = {"ROUTING"} \cup C
  BY DEF FeasibilityCauses
<1> HIDE DEF C
<1>3. a \in RepairWork /\ NoMore(a, w) /\ Unasked(a, Feasibility, {"ROUTING"})
  BY PlanningNames, RetryLess, RetryUnasked
<1> HIDE DEF a
<1>4. t \in RepairWork /\ NoMore(t, a) /\ Unasked(t, Feasibility, C)
  BY <1>3, PlanningNames, RetryLess, RetryUnasked
<1> HIDE DEF t
<1>5. NoMore(t, w)
  BY <1>3, <1>4, NoMoreTransitive
<1>6. Unasked(t, Feasibility, {"ROUTING"})
  BY <1>3, <1>4, QuietLess
<1>7. Unasked(t, Feasibility, FeasibilityCauses(preserved))
  BY <1>2, <1>4, <1>6 DEF Unasked, Asked
<1> QED
  BY <1>1, <1>4, <1>5, <1>7

LEMMA SemanticLess ==
  ASSUME NEW w \in RepairWork
  PROVE  LET t == SemanticDecisions(w) IN
         t \in RepairWork /\ NoMore(t, w) /\ Unasked(t, QuestionRefinement, {"SEMANTIC", "MEASUREMENT"})
<1> DEFINE C == {"SEMANTIC", "MEASUREMENT"}
           a == Retry(w, QuestionRefinement, C)
           t == ClearOutputs(a, QuestionRefinement)
<1>1. SemanticDecisions(w) = IF Unasked(w, QuestionRefinement, C) THEN w ELSE t
  BY DEF SemanticDecisions, Unasked
<1> HIDE DEF C
<1>2. a \in RepairWork /\ NoMore(a, w) /\ Unasked(a, QuestionRefinement, C)
  BY PlanningNames, RetryLess, RetryUnasked
<1> HIDE DEF a
<1>3. t \in RepairWork /\ NoMore(t, a)
  BY <1>2, ClearLess
<1> HIDE DEF t
<1>4. NoMore(t, w)
  BY <1>2, <1>3, NoMoreTransitive
<1>5. Unasked(t, QuestionRefinement, C)
  BY <1>2, <1>3, QuietLess
<1> QED
  BY <1>1, <1>3, <1>4, <1>5, NoMoreItself DEF C

LEMMA UnsuitableLess ==
  ASSUME NEW w \in RepairWork
  PROVE  LET t == UnsuitableCandidate(w) IN t \in RepairWork /\ NoMore(t, w) /\ CandidateSuits(t)
<1> DEFINE p == WithoutCandidate(w.plan)
           v == [run |-> w.run, plan |-> p, repaired |-> w.repaired]
           a == Reset(v, QuestionDiscovery)
           b == Reset(a, QuestionRefinement)
           c == ClearOutputs(b, QuestionRefinement)
           t == Invalidate(c, {d \in w.run.open : d.node = QuestionRefinement})
<1>1. /\ p \in Plan /\ p.candidate = FALSE /\ p.skeleton = w.plan.skeleton /\ p.routes = w.plan.routes
      /\ p.stale \subseteq w.plan.stale /\ p.output = w.plan.output
  BY WorkParts DEF Plan, WithoutCandidate
<1>2. v = [w EXCEPT !.plan = p]
  BY DEF RepairWork
<1>3. UnsuitableCandidate(w) = IF CandidateSuits(w) THEN w ELSE t
  BY <1>2 DEF UnsuitableCandidate, CandidateSuits, Unasked
<1> HIDE DEF p
<1>4. v \in RepairWork /\ NoMore(v, w)
  BY <1>1, WorkParts DEF RepairWork, NoMore
<1>5. v.plan.candidate = FALSE
  BY <1>1
<1> HIDE DEF v
<1>6. a \in RepairWork /\ NoMore(a, v)
  BY <1>4, ResetLess, PlanningNames
<1> HIDE DEF a
<1>7. b \in RepairWork /\ NoMore(b, a)
  BY <1>6, ResetLess, PlanningNames
<1> HIDE DEF b
<1>8. c \in RepairWork /\ NoMore(c, b)
  BY <1>7, ClearLess
<1> HIDE DEF c
<1>9. t \in RepairWork /\ NoMore(t, c)
  BY <1>8, InvalidateLess
<1> HIDE DEF t
<1>10. NoMore(t, v)
  <2>1. NoMore(t, b)
    BY <1>8, <1>9, NoMoreTransitive
  <2>2. NoMore(t, a)
    BY <1>7, <2>1, NoMoreTransitive
  <2> QED
    BY <1>6, <2>2, NoMoreTransitive
<1>11. NoMore(t, w)
  BY <1>4, <1>10, NoMoreTransitive
<1>12. CandidateSuits(t)
  BY <1>5, <1>10 DEF NoMore, CandidateSuits
<1> QED
  BY <1>3, <1>9, <1>11, <1>12, NoMoreItself

\* A work record whose nodes of N were queued again.
LEMMA Requeued ==
  ASSUME NEW w \in RepairWork, NEW N \in SUBSET Node, NEW p \in Plan
  PROVE  LET t == [run |-> SetNodes(w.run, N, "PENDING"), plan |-> p, repaired |-> w.repaired \cup N] IN
         /\ t \in RepairWork
         /\ \A m \in Node : t.run.node[m] = IF m \in N THEN "PENDING" ELSE w.run.node[m]
         /\ t.run.open = w.run.open /\ t.run.status = w.run.status /\ t.run.selected = w.run.selected
         /\ N = {} => t.run = w.run
<1> DEFINE r == SetNodes(w.run, N, "PENDING")
<1>1. "PENDING" \in NodeStatus
  BY DEF NodeStatus
<1>2. /\ r \in PlanningRun /\ \A m \in Node : r.node[m] = IF m \in N THEN "PENDING" ELSE w.run.node[m]
      /\ r.open = w.run.open /\ r.status = w.run.status /\ r.selected = w.run.selected
  BY <1>1, WorkParts, PlanningSetNodes
<1>3. N = {} => r = w.run
  BY WorkParts DEF SetNodes, PlanningRun
<1> DEFINE R == w.repaired \cup N
           t == [run |-> r, plan |-> p, repaired |-> R]
<1>4. R \in SUBSET Node
  BY WorkParts
<1> HIDE DEF r, R
<1>5. t \in RepairWork
  BY <1>2, <1>4 DEF RepairWork
<1>6. t.run = r
  OBVIOUS
<1> HIDE DEF t
<1>7. /\ \A m \in Node : t.run.node[m] = IF m \in N THEN "PENDING" ELSE w.run.node[m]
      /\ t.run.open = w.run.open /\ t.run.status = w.run.status /\ t.run.selected = w.run.selected
      /\ N = {} => t.run = w.run
  BY <1>2, <1>3, <1>6
<1> QED
  BY <1>5, <1>7 DEF t, r, R

LEMMA DecodingLess ==
  ASSUME NEW w \in RepairWork
  PROVE  LET t == DecodingDecisions(w)
             D == {d \in w.run.open : d.cause = "DECODING"}
             N == {n \in {d.node : d \in D} : w.run.node[n] = "WAITING_FOR_HUMAN"}
         IN /\ t \in RepairWork /\ NoMore(t, w) /\ NothingDecoding(t)
            /\ \A m \in Node : t.run.node[m] = IF m \in N THEN "PENDING" ELSE w.run.node[m]
            /\ t.run.open = w.run.open \ D /\ t.run.status = w.run.status
            /\ t.plan = w.plan /\ t.repaired = w.repaired \cup N
            /\ D = {} => t = w
<1> DEFINE D == {d \in w.run.open : d.cause = "DECODING"}
           N == {n \in {d.node : d \in D} : w.run.node[n] = "WAITING_FOR_HUMAN"}
           v == [run |-> SetNodes(w.run, N, "PENDING"), plan |-> w.plan, repaired |-> w.repaired \cup N]
           t == Invalidate(v, D)
<1>1. DecodingDecisions(w) = t
  <2> DEFINE r == SetNodes(w.run, N, "PENDING")
             R == w.repaired \cup N
  <2>1. DecodingDecisions(w) = Invalidate([w EXCEPT !.run = r, !.repaired = R], D)
    BY DEF DecodingDecisions
  <2>2. w = [run |-> w.run, plan |-> w.plan, repaired |-> w.repaired]
    BY DEF RepairWork
  <2> HIDE DEF r, R, D
  <2> DEFINE a == w.run
             p == w.plan
             b == w.repaired
  <2>3. w = [run |-> a, plan |-> p, repaired |-> b]
    BY <2>2
  <2> HIDE DEF a, p, b
  <2> DEFINE x == [w EXCEPT !.run = r]
  <2>4. x = [run |-> r, plan |-> p, repaired |-> b]
    BY <2>3
  <2>5. [w EXCEPT !.run = r, !.repaired = R] = [x EXCEPT !.repaired = R]
    OBVIOUS
  <2> HIDE DEF x
  <2>6. [x EXCEPT !.repaired = R] = [run |-> r, plan |-> p, repaired |-> R]
    BY <2>4
  <2> QED
    BY <2>1, <2>5, <2>6 DEF r, R, p
<1>2. N \in SUBSET Node /\ (D = {} => N = {})
  BY WorkParts, QuestionParts
<1> HIDE DEF N
<1>3. /\ v \in RepairWork
      /\ \A m \in Node : v.run.node[m] = IF m \in N THEN "PENDING" ELSE w.run.node[m]
      /\ v.run.open = w.run.open /\ v.run.status = w.run.status /\ v.run.selected = w.run.selected
      /\ N = {} => v.run = w.run
  BY <1>2, Requeued, WorkParts
<1>4. v.plan = w.plan /\ v.repaired = w.repaired \cup N
  OBVIOUS
<1>5. D = {} => t = w
  <2> SUFFICES ASSUME D = {} PROVE t = w
    OBVIOUS
  <2>1. v.run = w.run /\ v.repaired = w.repaired
    BY <1>2, <1>3, <1>4
  <2>2. v = w
    BY <2>1, <1>4 DEF RepairWork
  <2>3. Invalidate(w, {}) = w
    BY DEF Invalidate, RepairWork, PlanningRun
  <2> HIDE DEF v, D
  <2> QED
    BY <2>2, <2>3
<1> HIDE DEF v
<1>6. /\ t \in RepairWork
      /\ t.run.open = v.run.open \ D
      /\ t.run.node = v.run.node /\ t.run.status = v.run.status /\ t.run.selected = v.run.selected
      /\ t.plan = v.plan /\ t.repaired = v.repaired
  BY <1>3, InvalidateParts
<1> HIDE DEF t
<1>7. \A m \in Node : t.run.node[m] = IF m \in N THEN "PENDING" ELSE w.run.node[m]
  BY <1>3, <1>6
<1>8. /\ t.run.open = w.run.open \ D /\ t.run.status = w.run.status /\ t.run.selected = w.run.selected
      /\ t.plan = w.plan /\ t.repaired = w.repaired \cup N
  BY <1>3, <1>4, <1>6
<1>9. NoMore(t, w)
  BY <1>7, <1>8 DEF NoMore
<1>10. NothingDecoding(t)
  BY <1>8 DEF NothingDecoding
<1> QED
  BY <1>1, <1>5, <1>6, <1>7, <1>8, <1>9, <1>10 DEF N

LEMMA MalformedLess ==
  ASSUME NEW w \in RepairWork
  PROVE  LET t == MalformedOutputs(w)
             N == {n \in w.plan.output : w.run.node[n] = "FAILED"}
         IN /\ t \in RepairWork /\ NoMore(t, w) /\ NothingMalformed(t)
            /\ \A m \in Node : t.run.node[m] = IF m \in N THEN "PENDING" ELSE w.run.node[m]
            /\ t.run.open = w.run.open /\ t.run.status = w.run.status
            /\ t.plan.candidate = w.plan.candidate /\ t.repaired = w.repaired \cup N
            /\ N = {} => t = w
<1> DEFINE N == {n \in w.plan.output : w.run.node[n] = "FAILED"}
           p == [w.plan EXCEPT !.output = w.plan.output \ N]
           t == [run |-> SetNodes(w.run, N, "PENDING"), plan |-> p, repaired |-> w.repaired \cup N]
<1>1. MalformedOutputs(w) = t
  <2> DEFINE r == SetNodes(w.run, N, "PENDING")
             R == w.repaired \cup N
             o == w.plan.output \ N
  <2>1. MalformedOutputs(w) = [w EXCEPT !.run = r, !.repaired = R, !.plan.output = o]
    BY DEF MalformedOutputs
  <2>2. p = [w.plan EXCEPT !.output = o]
    OBVIOUS
  <2>3. w = [run |-> w.run, plan |-> w.plan, repaired |-> w.repaired]
    BY DEF RepairWork
  <2> HIDE DEF r, R, o, p
  <2> DEFINE x == MalformedOutputs(w)
  <2> HIDE DEF x
  <2>4. x = [w EXCEPT !.run = r, !.repaired = R, !.plan.output = o]
    BY <2>1 DEF x
  <2>5. x = [run |-> r, plan |-> p, repaired |-> R]
    BY <2>2, <2>3, <2>4
  <2> QED
    BY <2>5 DEF x, r, R
<1>2. N \in SUBSET Node
  BY WorkParts DEF Plan
<1> HIDE DEF N
<1>3. /\ p \in Plan /\ p.candidate = w.plan.candidate /\ p.skeleton = w.plan.skeleton
      /\ p.routes = w.plan.routes /\ p.stale = w.plan.stale /\ p.output = w.plan.output \ N
      /\ N = {} => p = w.plan
  BY WorkParts DEF Plan
<1> HIDE DEF p
<1>4. /\ t \in RepairWork
      /\ \A m \in Node : t.run.node[m] = IF m \in N THEN "PENDING" ELSE w.run.node[m]
      /\ t.run.open = w.run.open /\ t.run.status = w.run.status /\ t.run.selected = w.run.selected
      /\ N = {} => t.run = w.run
  BY <1>2, <1>3, Requeued
<1>5. t.plan = p /\ t.repaired = w.repaired \cup N
  OBVIOUS
<1>6. N = {} => t = w
  BY <1>3, <1>4, <1>5 DEF RepairWork
<1> HIDE DEF t
<1>7. NoMore(t, w)
  BY <1>3, <1>4, <1>5 DEF NoMore
<1>8. NothingMalformed(t)
  <2> SUFFICES ASSUME NEW n \in t.plan.output, t.run.node[n] = "FAILED"
               PROVE  FALSE
    BY DEF NothingMalformed
  <2>1. n \in w.plan.output \ N /\ n \in Node
    BY <1>3, <1>5, WorkParts DEF Plan
  <2> QED
    BY <1>4, <2>1 DEF N
<1> QED
  BY <1>1, <1>3, <1>4, <1>5, <1>6, <1>7, <1>8 DEF N

LEMMA RevalidateLess ==
  ASSUME NEW w \in RepairWork
  PROVE  LET t == RevalidateSelection(w) IN t \in RepairWork /\ NoMore(t, w) /\ SelectionKept(t)
<1> DEFINE a == Reset(w, QuestionRefinement)
           b == ClearOutputs(a, QuestionRefinement)
           c == MarkDependents(b, QuestionRefinement)
<1>1. RevalidateSelection(w) = IF SelectionKept(w) THEN w ELSE c
  BY DEF RevalidateSelection, SelectionKept
<1>2. a \in RepairWork /\ NoMore(a, w)
  BY ResetLess, PlanningNames
<1> HIDE DEF a
<1>3. b \in RepairWork /\ NoMore(b, a) /\ b.run.selected = FALSE
  BY <1>2, ClearLess, ClearParts
<1> HIDE DEF b
<1>4. c \in RepairWork /\ NoMore(c, b)
  BY <1>3, MarkLess, PlanningNames
<1> HIDE DEF c
<1>5. NoMore(c, a)
  BY <1>3, <1>4, NoMoreTransitive
<1>6. NoMore(c, w)
  BY <1>2, <1>5, NoMoreTransitive
<1>7. SelectionKept(c)
  BY <1>3, <1>4 DEF NoMore, SelectionKept
<1> QED
  BY <1>1, <1>4, <1>6, <1>7, NoMoreItself

LEMMA ReplanLess ==
  ASSUME NEW w \in RepairWork
  PROVE  LET t == Replan(w) IN
         /\ t \in RepairWork /\ NoMore(t, w)
         /\ t.run.node = w.run.node /\ t.run.open = w.run.open
         /\ t.plan = w.plan /\ t.repaired = w.repaired
         /\ t.run.status = IF w.repaired # {} /\ w.run.status \in {"FAILED", "WAITING_FOR_HUMAN"}
                           THEN "PLANNED_RESEARCH" ELSE w.run.status
<1> DEFINE r == [w.run EXCEPT !.status = "PLANNED_RESEARCH"]
           v == [run |-> r, plan |-> w.plan, repaired |-> w.repaired]
           c == w.repaired # {} /\ w.run.status \in {"FAILED", "WAITING_FOR_HUMAN"}
<1>1. "PLANNED_RESEARCH" \in RunStatus
  BY DEF RunStatus
<1>2. /\ r \in PlanningRun /\ r.status = "PLANNED_RESEARCH"
      /\ r.node = w.run.node /\ r.open = w.run.open /\ r.selected = w.run.selected
  BY <1>1, WorkParts, PlanningStatus
<1>3. v = [w EXCEPT !.run.status = "PLANNED_RESEARCH"]
  BY DEF RepairWork
<1>4. Replan(w) = IF c THEN v ELSE w
  BY <1>3 DEF Replan
<1> HIDE DEF r
<1>5. v \in RepairWork /\ NoMore(v, w)
  BY <1>2, WorkParts DEF RepairWork, NoMore
<1> QED
  BY <1>2, <1>4, <1>5, NoMoreItself

-----------------------------------------------------------------------------
(* The repair, all passes together. *)

\* What any number of passes leaves, each adding to the parts that are quiet.
LEMMA RepairQuiets ==
  ASSUME NEW r \in PlanningRun, NEW p \in Plan,
         NEW recovery \in {"none", "current", "fresh"}, NEW preserved \in BOOLEAN
  PROVE  LET t == RepairStructuredGeneration(r, p, recovery, preserved) IN
         t \in RepairWork /\ Quiet(t, preserved)
<1> DEFINE w0 == [run |-> r, plan |-> p, repaired |-> {}]
           w1 == RetireSkeleton(w0, recovery)
           w2 == RetireCandidate(w1)
           w3 == RefinementDecisions(w2)
           w4 == DiscoveryDecisions(w3)
           w5 == RetireRoutes(w4)
           w6 == FeasibilityDecisions(w5, preserved)
           w7 == SemanticDecisions(w6)
           w8 == UnsuitableCandidate(w7)
           w9 == DecodingDecisions(w8)
           w10 == MalformedOutputs(w9)
           w11 == RevalidateSelection(w10)
           t == Replan(w11)
<1>0. RepairStructuredGeneration(r, p, recovery, preserved) = t
  BY DEF RepairStructuredGeneration
<1>a. w0 \in RepairWork
  BY DEF RepairWork
<1> HIDE DEF w0
<1>1. w1 \in RepairWork /\ SkeletonKept(w1)
  BY <1>a, RetireSkeletonLess
<1> HIDE DEF w1
<1>2. w2 \in RepairWork /\ NoMore(w2, w1) /\ CandidateKept(w2)
  BY <1>1, RetireCandidateLess
<1> HIDE DEF w2
<1>3. w3 \in RepairWork /\ NoMore(w3, w2) /\ Unasked(w3, QuestionRefinement, RefinementCauses)
  BY <1>2, RefinementLess
<1> HIDE DEF w3
<1>4. w4 \in RepairWork /\ NoMore(w4, w3) /\ Unasked(w4, QuestionDiscovery, {"SEMANTIC"})
  BY <1>3, DiscoveryLess
<1> HIDE DEF w4
<1>5. w5 \in RepairWork /\ NoMore(w5, w4) /\ RoutesKept(w5)
  BY <1>4, RetireRoutesLess
<1> HIDE DEF w5
<1>6. w6 \in RepairWork /\ NoMore(w6, w5) /\ Unasked(w6, Feasibility, FeasibilityCauses(preserved))
  BY <1>5, FeasibilityLess
<1> HIDE DEF w6
<1>7. w7 \in RepairWork /\ NoMore(w7, w6) /\ Unasked(w7, QuestionRefinement, {"SEMANTIC", "MEASUREMENT"})
  BY <1>6, SemanticLess
<1> HIDE DEF w7
<1>8. w8 \in RepairWork /\ NoMore(w8, w7) /\ CandidateSuits(w8)
  BY <1>7, UnsuitableLess
<1> HIDE DEF w8
<1>9. w9 \in RepairWork /\ NoMore(w9, w8) /\ NothingDecoding(w9)
  BY <1>8, DecodingLess
<1> HIDE DEF w9
<1>10. w10 \in RepairWork /\ NoMore(w10, w9) /\ NothingMalformed(w10)
  BY <1>9, MalformedLess
<1> HIDE DEF w10
<1>11. w11 \in RepairWork /\ NoMore(w11, w10) /\ SelectionKept(w11)
  BY <1>10, RevalidateLess
<1> HIDE DEF w11
<1>12. t \in RepairWork /\ NoMore(t, w11)
  BY <1>11, ReplanLess
<1> HIDE DEF t
<1>13. NoMore(t, w10)
  BY <1>11, <1>12, NoMoreTransitive
<1>14. NoMore(t, w9)
  BY <1>10, <1>13, NoMoreTransitive
<1>15. NoMore(t, w8)
  BY <1>9, <1>14, NoMoreTransitive
<1>16. NoMore(t, w7)
  BY <1>8, <1>15, NoMoreTransitive
<1>17. NoMore(t, w6)
  BY <1>7, <1>16, NoMoreTransitive
<1>18. NoMore(t, w5)
  BY <1>6, <1>17, NoMoreTransitive
<1>19. NoMore(t, w4)
  BY <1>5, <1>18, NoMoreTransitive
<1>20. NoMore(t, w3)
  BY <1>4, <1>19, NoMoreTransitive
<1>21. NoMore(t, w2)
  BY <1>3, <1>20, NoMoreTransitive
<1>22. NoMore(t, w1)
  BY <1>2, <1>21, NoMoreTransitive
<1>23. SkeletonKept(t) /\ CandidateKept(t)
  BY <1>1, <1>2, <1>12, <1>21, <1>22, QuietLess
<1>24. Unasked(t, QuestionRefinement, RefinementCauses)
  BY <1>3, <1>12, <1>20, QuietLess
<1>25. Unasked(t, QuestionDiscovery, {"SEMANTIC"})
  BY <1>4, <1>12, <1>19, QuietLess
<1>26. RoutesKept(t)
  BY <1>5, <1>12, <1>18, QuietLess
<1>27. Unasked(t, Feasibility, FeasibilityCauses(preserved))
  BY <1>6, <1>12, <1>17, QuietLess
<1>28. Unasked(t, QuestionRefinement, {"SEMANTIC", "MEASUREMENT"})
  BY <1>7, <1>12, <1>16, QuietLess
<1>29. CandidateSuits(t) /\ NothingDecoding(t)
  BY <1>8, <1>9, <1>12, <1>14, <1>15, QuietLess
<1>30. NothingMalformed(t) /\ SelectionKept(t)
  BY <1>10, <1>11, <1>12, <1>13, QuietLess
<1>31. Quiet(t, preserved)
  BY <1>23, <1>24, <1>25, <1>26, <1>27, <1>28, <1>29, <1>30 DEF Quiet
<1> QED
  BY <1>0, <1>12, <1>31

\* A node that is not asked is not retried.
LEMMA RetryNothing ==
  ASSUME NEW w, NEW n, NEW causes, Unasked(w, n, causes)
  PROVE  Retry(w, n, causes) = w /\ RetryWithDependents(w, n, causes) = w
BY DEF Unasked, Retry, RetryWithDependents

\* And neither are fewer causes of it.
LEMMA UnaskedFewer ==
  ASSUME NEW w, NEW n, NEW causes, NEW fewer \in SUBSET causes, Unasked(w, n, causes)
  PROVE  Unasked(w, n, fewer)
BY DEF Unasked, Asked

LEMMA RefinementNothing ==
  ASSUME NEW w \in RepairWork, Unasked(w, QuestionRefinement, RefinementCauses)
  PROVE  RefinementDecisions(w) = w
<1>1. /\ Unasked(w, QuestionRefinement, {"FIELD"}) /\ Unasked(w, QuestionRefinement, {"FRESH"})
      /\ Unasked(w, QuestionRefinement, {"RESELECT"}) /\ Unasked(w, QuestionRefinement, {"FIELD", "MEASUREMENT"})
      /\ Unasked(w, QuestionRefinement, {"FRESH", "RESELECT", "TYPED"})
  BY DEF Unasked, Asked, RefinementCauses
<1> DEFINE q == [w.plan EXCEPT !.recovery = @, !.fresh = @]
<1>2. /\ RetryWithDependents(w, QuestionRefinement, {"FIELD", "MEASUREMENT"}) = w
      /\ Retry(w, QuestionRefinement, {"FRESH", "RESELECT", "TYPED"}) = w
  BY <1>1, RetryNothing
<1>3. /\ Asked(w, QuestionRefinement, {"FIELD"}) = {} /\ Asked(w, QuestionRefinement, {"FRESH"}) = {}
      /\ Asked(w, QuestionRefinement, {"RESELECT"}) = {}
  BY <1>1 DEF Unasked
<1>4. RefinementDecisions(w) = [w EXCEPT !.plan = q]
  BY <1>2, <1>3 DEF RefinementDecisions
<1>5. q = w.plan
  <2>1. w.plan \in Plan
    BY WorkParts
  <2> QED
    BY <2>1 DEF Plan
<1> HIDE DEF q
<1>6. [w EXCEPT !.plan = w.plan] = w
  BY DEF RepairWork
<1> QED
  BY <1>4, <1>5, <1>6

\* A repair of what is quiet changes nothing.
LEMMA RepairOfQuiet ==
  ASSUME NEW w \in RepairWork, w.repaired = {},
         NEW recovery \in {"none", "current", "fresh"}, NEW preserved \in BOOLEAN, Quiet(w, preserved)
  PROVE  RepairStructuredGeneration(w.run, w.plan, recovery, preserved) = w
<1>1. [run |-> w.run, plan |-> w.plan, repaired |-> {}] = w
  BY DEF RepairWork
<1>2. RetireSkeleton(w, recovery) = w
  BY DEF Quiet, SkeletonKept, RetireSkeleton
<1>3. RetireCandidate(w) = w
  BY DEF Quiet, CandidateKept, RetireCandidate
<1>4. RefinementDecisions(w) = w
  BY RefinementNothing DEF Quiet
<1>5. DiscoveryDecisions(w) = w
  BY RetryNothing DEF Quiet, DiscoveryDecisions
<1>6. RetireRoutes(w) = w
  BY DEF Quiet, RoutesKept, RetireRoutes
<1>7. FeasibilityDecisions(w, preserved) = w
  <2> DEFINE C == {"INCOMPLETE"} \cup (IF preserved THEN {"FIT"} ELSE {})
  <2>1. Unasked(w, Feasibility, {"ROUTING"} \cup C)
    <3>1. FeasibilityCauses(preserved) = {"ROUTING"} \cup C
      BY DEF FeasibilityCauses
    <3> QED
      BY <3>1 DEF Quiet
  <2>2. FeasibilityDecisions(w, preserved) = Retry(RetryWithDependents(w, Feasibility, {"ROUTING"}), Feasibility, C)
    BY DEF FeasibilityDecisions
  <2> HIDE DEF C
  <2>3. Unasked(w, Feasibility, {"ROUTING"}) /\ Unasked(w, Feasibility, C)
    BY <2>1, UnaskedFewer
  <2> QED
    BY <2>2, <2>3, RetryNothing
<1>8. SemanticDecisions(w) = w
  BY DEF Quiet, Unasked, SemanticDecisions
<1>9. UnsuitableCandidate(w) = w
  BY DEF Quiet, CandidateSuits, Unasked, UnsuitableCandidate
<1>10. DecodingDecisions(w) = w
  BY DecodingLess DEF Quiet, NothingDecoding
<1>11. MalformedOutputs(w) = w
  BY MalformedLess DEF Quiet, NothingMalformed
<1>12. RevalidateSelection(w) = w
  BY DEF Quiet, SelectionKept, RevalidateSelection
<1>13. Replan(w) = w
  BY DEF Replan
<1> QED
  BY <1>1, <1>2, <1>3, <1>4, <1>5, <1>6, <1>7, <1>8, <1>9, <1>10, <1>11, <1>12, <1>13
     DEF RepairStructuredGeneration

LEMMA RepairTwice ==
  ASSUME NEW r \in PlanningRun, NEW p \in Plan,
         NEW recovery \in {"none", "current", "fresh"}, NEW preserved \in BOOLEAN
  PROVE  LET once == RepairStructuredGeneration(r, p, recovery, preserved)
             twice == RepairStructuredGeneration(once.run, once.plan, recovery, preserved)
         IN twice.repaired = {} /\ twice.run = once.run
<1> DEFINE once == RepairStructuredGeneration(r, p, recovery, preserved)
           v == [run |-> once.run, plan |-> once.plan, repaired |-> {}]
           twice == RepairStructuredGeneration(once.run, once.plan, recovery, preserved)
<1>1. once \in RepairWork /\ Quiet(once, preserved)
  BY RepairQuiets
<1>a. twice = RepairStructuredGeneration(v.run, v.plan, recovery, preserved)
  OBVIOUS
<1> HIDE DEF once
<1>2. v \in RepairWork /\ NoMore(v, once) /\ v.repaired = {} /\ v.run = once.run
  BY <1>1, WorkParts DEF RepairWork, NoMore
<1> HIDE DEF v
<1>3. Quiet(v, preserved)
  BY <1>1, <1>2, QuietLess DEF Quiet
<1> HIDE DEF twice
<1>4. twice = v
  BY <1>a, <1>2, <1>3, RepairOfQuiet
<1>5. twice.repaired = {} /\ twice.run = once.run
  BY <1>2, <1>4
<1> QED
  BY <1>5 DEF twice, once

-----------------------------------------------------------------------------
(* What depends on the planning nodes. *)

\* The direct dependents, and theirs.
LEMMA PlanningClosed ==
  ASSUME NEW n \in Node, NEW k \in Node, n \in Deps[k] \/ Deps[k] \cap Dependents[n] # {}
  PROVE  k \in Dependents[n]
<1> SUFFICES ASSUME NEW S \in SUBSET Node,
                    \A j \in Node : n \in Deps[j] \/ Deps[j] \cap S # {} => j \in S
             PROVE  k \in S
  BY DEF Dependents
<1>1. Dependents[n] \subseteq S
  BY DEF Dependents
<1> QED
  BY <1>1

\* And no other: a set that holds them holds them all.
LEMMA PlanningLeast ==
  ASSUME NEW n \in Node, NEW S \in SUBSET Node,
         \A j \in Node : n \in Deps[j] \/ Deps[j] \cap S # {} => j \in S
  PROVE  Dependents[n] \subseteq S
BY DEF Dependents

LEMMA PlanningDependents ==
  /\ Dependents[Feasibility] = Downstream
  /\ Dependents[QuestionRefinement] = {Feasibility} \cup Downstream
  /\ Dependents[EvidenceDiscovery] = {QuestionRefinement, Feasibility} \cup Downstream
  /\ Dependents[QuestionDiscovery] = {EvidenceDiscovery, QuestionRefinement, Feasibility} \cup Downstream
<1> DEFINE S1 == Downstream
           S2 == {Feasibility} \cup Downstream
           S3 == {QuestionRefinement, Feasibility} \cup Downstream
           S4 == {EvidenceDiscovery, QuestionRefinement, Feasibility} \cup Downstream
<1>1. /\ Deps[QuestionDiscovery] = {} /\ Deps[EvidenceDiscovery] = {QuestionDiscovery}
      /\ Deps[QuestionRefinement] = {EvidenceDiscovery} /\ Deps[Feasibility] = {QuestionRefinement}
      /\ Downstream \subseteq Dependents[Feasibility]
  BY PlanningAssumption DEF PlanningAssumption
<1>a. /\ QuestionDiscovery \in Node /\ EvidenceDiscovery \in Node
      /\ QuestionRefinement \in Node /\ Feasibility \in Node
      /\ Downstream \subseteq Node
      /\ Node = {QuestionDiscovery, EvidenceDiscovery, QuestionRefinement, Feasibility} \cup Downstream
      /\ {QuestionDiscovery, EvidenceDiscovery, QuestionRefinement, Feasibility} \cap Downstream = {}
      /\ QuestionDiscovery # EvidenceDiscovery /\ QuestionDiscovery # QuestionRefinement
      /\ QuestionDiscovery # Feasibility /\ EvidenceDiscovery # QuestionRefinement
      /\ EvidenceDiscovery # Feasibility /\ QuestionRefinement # Feasibility
  BY PlanningNames
<1>2. Dependents[Feasibility] \subseteq S1
  <2>1. \A j \in Node : Feasibility \in Deps[j] \/ Deps[j] \cap S1 # {} => j \in S1
    BY <1>1, <1>a
  <2> QED
    BY <1>a, <2>1, PlanningLeast
<1>3. Dependents[QuestionRefinement] \subseteq S2
  <2>1. \A j \in Node : QuestionRefinement \in Deps[j] \/ Deps[j] \cap S2 # {} => j \in S2
    BY <1>1, <1>a
  <2> QED
    BY <1>a, <2>1, PlanningLeast
<1>4. Dependents[EvidenceDiscovery] \subseteq S3
  <2>1. \A j \in Node : EvidenceDiscovery \in Deps[j] \/ Deps[j] \cap S3 # {} => j \in S3
    BY <1>1, <1>a
  <2> QED
    BY <1>a, <2>1, PlanningLeast
<1>5. Dependents[QuestionDiscovery] \subseteq S4
  <2>1. \A j \in Node : QuestionDiscovery \in Deps[j] \/ Deps[j] \cap S4 # {} => j \in S4
    BY <1>1, <1>a
  <2> QED
    BY <1>a, <2>1, PlanningLeast
\* What depends on a dependent depends on the node.
<1>6. ASSUME NEW n \in Node, NEW k \in Dependents[n], k \in Node
      PROVE  Dependents[k] \subseteq Dependents[n]
  <2>1. Dependents[n] \in SUBSET Node
    BY DEF Dependents
  <2>2. \A j \in Node : k \in Deps[j] \/ Deps[j] \cap Dependents[n] # {} => j \in Dependents[n]
    BY <1>6, PlanningClosed
  <2> QED
    BY <1>6, <2>1, <2>2, PlanningLeast
<1>7. /\ Feasibility \in Dependents[QuestionRefinement]
      /\ QuestionRefinement \in Dependents[EvidenceDiscovery]
      /\ EvidenceDiscovery \in Dependents[QuestionDiscovery]
  BY <1>1, <1>a, PlanningClosed
<1>8. S2 \subseteq Dependents[QuestionRefinement]
  BY <1>1, <1>a, <1>6, <1>7
<1>9. S3 \subseteq Dependents[EvidenceDiscovery]
  BY <1>a, <1>6, <1>7, <1>8
<1>10. S4 \subseteq Dependents[QuestionDiscovery]
  BY <1>a, <1>6, <1>7, <1>9
<1> QED
  BY <1>1, <1>2, <1>3, <1>4, <1>5, <1>8, <1>9, <1>10

\* A node behind the planning nodes waits for the feasibility, itself or through
\* another of them.
LEMMA PlanningBehind ==
  ASSUME NEW n \in Downstream
  PROVE  Feasibility \in Deps[n] \/ Deps[n] \cap Downstream # {}
<1> SUFFICES ASSUME ~ (Feasibility \in Deps[n] \/ Deps[n] \cap Downstream # {})
             PROVE  FALSE
  OBVIOUS
<1> DEFINE S == Downstream \ {n}
<1>1. \A j \in Node : Feasibility \in Deps[j] \/ Deps[j] \cap S # {} => j \in Downstream
  BY PlanningClosed, PlanningDependents, PlanningNames
<1>2. \A j \in Node : Feasibility \in Deps[j] \/ Deps[j] \cap S # {} => j \in S
  BY <1>1
<1>3. Dependents[Feasibility] \subseteq S
  BY <1>2, PlanningLeast, PlanningNames
<1> QED
  BY <1>3, PlanningDependents

-----------------------------------------------------------------------------
(* The operators of RunState on the runs of the planning chain. *)

LEMMA PlanningComplete ==
  ASSUME NEW r \in PlanningRun, NEW n \in Node
  PROVE  LET t == CompleteNode(r, n) IN
         /\ t \in PlanningRun
         /\ \A m \in Node : t.node[m] = IF m = n THEN "COMPLETED" ELSE r.node[m]
         /\ t.open = r.open /\ t.selected = r.selected
         /\ \/ t.status = r.status
            \/ /\ t.status \in {"RESEARCH_COMPLETE", "PARTIAL_RESEARCH"}
               /\ \A m \in Node : t.node[m] = "COMPLETED"
<1> DEFINE u == SetNode(r, n, "COMPLETED")
           s == IF u.coverage THEN "RESEARCH_COMPLETE" ELSE "PARTIAL_RESEARCH"
           v == [u EXCEPT !.status = IF r.coverage THEN "RESEARCH_COMPLETE" ELSE "PARTIAL_RESEARCH"]
           t == CompleteNode(r, n)
<1>1. "COMPLETED" \in NodeStatus /\ "RESEARCH_COMPLETE" \in RunStatus /\ "PARTIAL_RESEARCH" \in RunStatus
  BY DEF NodeStatus, RunStatus
<1>2. /\ u \in PlanningRun
      /\ \A m \in Node : u.node[m] = IF m = n THEN "COMPLETED" ELSE r.node[m]
      /\ u.open = r.open /\ u.status = r.status /\ u.selected = r.selected
  BY <1>1, PlanningSetNode
<1>3. t = IF ~ AllCompleted(u) THEN u ELSE v
  BY DEF CompleteNode
<1> HIDE DEF u, t
<1>4. /\ v \in PlanningRun
      /\ v.status \in {"RESEARCH_COMPLETE", "PARTIAL_RESEARCH"}
      /\ v.node = u.node /\ v.open = u.open /\ v.selected = u.selected
  BY <1>1, <1>2, PlanningStatus
<1> HIDE DEF v
<1>5. CASE ~ AllCompleted(u)
  BY <1>2, <1>3, <1>5 DEF t
<1>6. CASE AllCompleted(u)
  <2>1. t = v
    BY <1>3, <1>6
  <2>2. \A m \in Node : u.node[m] = "COMPLETED"
    BY <1>6 DEF AllCompleted
  <2> QED
    BY <1>2, <1>4, <2>1, <2>2 DEF t
<1> QED
  BY <1>5, <1>6

LEMMA PlanningBlock ==
  ASSUME NEW r \in PlanningRun, NEW n \in Node, NEW s \in StopStatus
  PROVE  LET t == BlockNode(r, n, s) IN
         /\ t \in PlanningRun
         /\ \A m \in Node : t.node[m] = IF m = n THEN s ELSE r.node[m]
         /\ t.open = r.open /\ t.selected = r.selected /\ t.status = s
<1> DEFINE u == SetNode(r, n, s)
<1>1. s \in NodeStatus /\ s \in RunStatus
  BY DEF NodeStatus, RunStatus
<1>2. /\ u \in PlanningRun
      /\ \A m \in Node : u.node[m] = IF m = n THEN s ELSE r.node[m]
      /\ u.open = r.open /\ u.status = r.status /\ u.selected = r.selected
  BY <1>1, PlanningSetNode
<1> HIDE DEF u
<1>3. LET t == [u EXCEPT !.status = s] IN
      /\ t \in PlanningRun /\ t.status = s
      /\ t.node = u.node /\ t.open = u.open /\ t.selected = u.selected
  BY <1>1, <1>2, PlanningStatus
<1> QED
  BY <1>2, <1>3 DEF BlockNode, u

\* A new decision about the node, and no other.
LEMMA PlanningRequest ==
  ASSUME NEW r \in PlanningRun, NEW n \in Upstream, NEW c \in CausesOf(n), FreeIds(r) # {}
  PROVE  LET t == RequestDecision(r, n, c) IN
         /\ t \in PlanningRun
         /\ \A m \in Node : t.node[m] = IF m = n THEN "WAITING_FOR_HUMAN" ELSE r.node[m]
         /\ \E d \in Question : d.node = n /\ t.open = r.open \cup {d}
         /\ t.selected = r.selected /\ t.status = "WAITING_FOR_HUMAN"
<1> DEFINE i == CHOOSE i \in FreeIds(r) : TRUE
           d == [id |-> i, node |-> n, cause |-> c]
           u == BlockNode(r, n, "WAITING_FOR_HUMAN")
           t == RequestDecision(r, n, c)
<1>1. i \in 1..MaxOpen
  BY DEF FreeIds
<1>2. d \in Question /\ d.node = n
  BY <1>1, QuestionMade
<1>3. n \in Node /\ "WAITING_FOR_HUMAN" \in StopStatus
  BY PlanningNames DEF StopStatus
<1>4. /\ u \in PlanningRun
      /\ \A m \in Node : u.node[m] = IF m = n THEN "WAITING_FOR_HUMAN" ELSE r.node[m]
      /\ u.open = r.open /\ u.selected = r.selected /\ u.status = "WAITING_FOR_HUMAN"
  BY <1>3, PlanningBlock
<1>5. t = [u EXCEPT !.open = @ \cup {d}]
  BY DEF RequestDecision
<1> HIDE DEF i, d, u, t
<1>6. /\ t.open = r.open \cup {d} /\ t.node = u.node /\ t.selected = u.selected /\ t.status = u.status
  BY <1>4, <1>5 DEF PlanningRun
<1>7. t \in PlanningRun
  BY <1>2, <1>4, <1>5 DEF PlanningRun
<1> QED
  BY <1>2, <1>4, <1>6, <1>7 DEF t

LEMMA PlanningResolve ==
  ASSUME NEW r \in PlanningRun, NEW d \in r.open
  PROVE  LET t == Resolve(r, d) IN
         /\ t \in PlanningRun
         /\ t.node = r.node /\ t.open = r.open \ {d} /\ t.selected = r.selected
         /\ t.status = IF t.open = {} THEN "PLANNED_RESEARCH" ELSE r.status
<1> DEFINE u == [r EXCEPT !.open = r.open \ {d}]
<1>1. r.open \ {d} \in SUBSET r.open
  OBVIOUS
<1>2. /\ u \in PlanningRun /\ u.open = r.open \ {d}
      /\ u.node = r.node /\ u.status = r.status /\ u.selected = r.selected
  BY <1>1, PlanningClose
<1>3. Resolve(r, d) = PlannedUnlessOpen(u)
  BY DEF Resolve
<1> HIDE DEF u
<1> QED
  BY <1>2, <1>3, PlanningPlanned

LEMMA PlanningSubmit ==
  ASSUME NEW r \in PlanningRun, NEW d \in r.open
  PROVE  LET t == SubmitDecision(r, d) IN
         /\ t \in PlanningRun
         /\ \A m \in Node : t.node[m] = IF m = d.node /\ r.node[m] = "WAITING_FOR_HUMAN" THEN "PENDING" ELSE r.node[m]
         /\ t.open = r.open \ {d} /\ t.selected = r.selected
         /\ t.status = IF t.open = {} THEN "PLANNED_RESEARCH" ELSE r.status
<1> DEFINE N == {n \in BlockedNodes(d) : r.node[n] = "WAITING_FOR_HUMAN"}
           u == SetNodes(r, N, "PENDING")
<1>1. BlockedNodes(d) = {d.node} /\ "PENDING" \in NodeStatus
  BY QuestionParts DEF PlanningRun, NodeStatus
<1>2. /\ u \in PlanningRun
      /\ \A m \in Node : u.node[m] = IF m \in N THEN "PENDING" ELSE r.node[m]
      /\ u.open = r.open /\ u.status = r.status /\ u.selected = r.selected
  BY <1>1, PlanningSetNodes
<1>3. SubmitDecision(r, d) = Resolve(u, d)
  BY DEF SubmitDecision
<1>4. \A m : m \in N <=> m = d.node /\ r.node[m] = "WAITING_FOR_HUMAN"
  BY <1>1
<1> HIDE DEF u, N
<1> QED
  BY <1>2, <1>3, <1>4, PlanningResolve

\* An answer to a planning node completes it.
LEMMA PlanningAnswer ==
  ASSUME NEW r \in PlanningRun, NEW d \in r.open, d.node \in ModelNodes
  PROVE  LET t == AnswerDecision(r, d) IN
         /\ t \in PlanningRun
         /\ \A m \in Node : t.node[m] = IF m = d.node THEN "COMPLETED" ELSE r.node[m]
         /\ t.open = r.open \ {d}
         /\ t.open = {} => t.status = "PLANNED_RESEARCH"
         /\ \/ t.status \in {r.status, "PLANNED_RESEARCH"}
            \/ \A m \in Node : t.node[m] = "COMPLETED"
<1> DEFINE u == CompleteNode(r, d.node)
           b == u.selected \/ d.node = QuestionRefinement
           v == [u EXCEPT !.selected = b]
<1>1. d.node \in Node /\ d.cause # "ATOMIC"
  BY QuestionParts DEF PlanningRun
<1>2. AnswerDecision(r, d) = Resolve(v, d)
  BY <1>1 DEF AnswerDecision, ApplyHumanResponse
<1>3. /\ u \in PlanningRun
      /\ \A m \in Node : u.node[m] = IF m = d.node THEN "COMPLETED" ELSE r.node[m]
      /\ u.open = r.open /\ u.selected = r.selected
      /\ u.status = r.status \/ \A m \in Node : u.node[m] = "COMPLETED"
  BY <1>1, PlanningComplete
<1>4. b \in BOOLEAN
  BY <1>3 DEF PlanningRun
<1> HIDE DEF u, b
<1>5. v \in PlanningRun /\ v.node = u.node /\ v.open = u.open /\ v.status = u.status
  BY <1>3, <1>4, PlanningSelected
<1> HIDE DEF v
<1>6. LET t == Resolve(v, d) IN
      /\ t \in PlanningRun
      /\ t.node = v.node /\ t.open = v.open \ {d} /\ t.selected = v.selected
      /\ t.status = IF t.open = {} THEN "PLANNED_RESEARCH" ELSE v.status
  BY <1>3, <1>5, PlanningResolve
<1> QED
  BY <1>2, <1>3, <1>5, <1>6

LEMMA PlanningStaleRouting ==
  ASSUME NEW r \in PlanningRun
  PROVE  LET t == InvalidateStaleRouting(r)
             O == StaleRoutingDecisions(r) IN
         /\ t \in PlanningRun
         /\ \A m \in Node : t.node[m] = IF m \in {d.node : d \in O} THEN "PENDING" ELSE r.node[m]
         /\ t.open = r.open \ O
         /\ \/ t.status = r.status /\ (t.open # {} \/ t = r)
            \/ t.open = {} /\ t.status = "PLANNED_RESEARCH"
<1> DEFINE O == StaleRoutingDecisions(r)
           u == SetNodes(r, {d.node : d \in O}, "PENDING")
           v == [u EXCEPT !.open = u.open \ O]
<1>1. "PENDING" \in NodeStatus
  BY DEF NodeStatus
<1>2. InvalidateStaleRouting(r) = IF O = {} THEN r ELSE PlannedUnlessOpen(v)
  BY DEF InvalidateStaleRouting
<1> HIDE DEF O
<1>3. /\ u \in PlanningRun
      /\ \A m \in Node : u.node[m] = IF m \in {d.node : d \in O} THEN "PENDING" ELSE r.node[m]
      /\ u.open = r.open /\ u.status = r.status
  BY <1>1, PlanningSetNodes
<1>4. u.open \ O \in SUBSET u.open
  OBVIOUS
<1> HIDE DEF u
<1>5. /\ v \in PlanningRun /\ v.open = u.open \ O
      /\ v.node = u.node /\ v.status = u.status
  BY <1>3, <1>4, PlanningClose
<1> HIDE DEF v
<1>6. LET t == PlannedUnlessOpen(v) IN
      /\ t \in PlanningRun
      /\ t.status = (IF v.open = {} THEN "PLANNED_RESEARCH" ELSE v.status)
      /\ t.node = v.node /\ t.open = v.open
  BY <1>5, PlanningPlanned
<1>7. CASE O = {}
  BY <1>2, <1>7 DEF O
<1>8. CASE O # {}
  BY <1>2, <1>3, <1>5, <1>6, <1>8 DEF O
<1> QED
  BY <1>7, <1>8

\* The nodes that a repair of the evidence queues again.
Reopened(r, withQuestion) ==
  EarliestNodes(withQuestion) \cup
    {n \in Dependents[EvidenceDiscovery] : r.node[n] \notin {"PENDING", "LEASED"}}

LEMMA PlanningEvidence ==
  ASSUME NEW r \in PlanningRun, NEW withQuestion \in BOOLEAN
  PROVE  LET t == RepairEvidence(r, withQuestion)
             N == Reopened(r, withQuestion) IN
         /\ t \in PlanningRun
         /\ \A m \in Node : t.node[m] = IF m \in N THEN "PENDING" ELSE r.node[m]
         /\ t.open = {d \in r.open : d.node \notin N}
         /\ t.status = IF t.open = {} THEN "PLANNED_RESEARCH" ELSE r.status
<1> DEFINE N == Reopened(r, withQuestion)
           u == SetNodes(r, N, "PENDING")
           O == {d \in u.open : BlockedNodes(d) \cap N = {}}
           b == u.selected /\ QuestionRefinement \notin Node
           x == [u EXCEPT !.open = O]
           v == [u EXCEPT !.open = O, !.selected = b]
<1>1. "PENDING" \in NodeStatus
  BY DEF NodeStatus
<1>2. RepairEvidence(r, withQuestion) = PlannedUnlessOpen(v)
  BY DEF RepairEvidence, Reopened
<1> HIDE DEF N
<1>3. /\ u \in PlanningRun
      /\ \A m \in Node : u.node[m] = IF m \in N THEN "PENDING" ELSE r.node[m]
      /\ u.open = r.open /\ u.status = r.status
  BY <1>1, PlanningSetNodes
<1>4. O = {d \in r.open : d.node \notin N}
  <2>1. \A d \in r.open : BlockedNodes(d) = {d.node}
    BY QuestionParts DEF PlanningRun
  <2> QED
    BY <1>3, <2>1
<1>5. O \in SUBSET u.open /\ b \in BOOLEAN
  OBVIOUS
<1>6. v = [x EXCEPT !.selected = b]
  OBVIOUS
<1> HIDE DEF u, O, b
<1>7. /\ x \in PlanningRun /\ x.open = O
      /\ x.node = u.node /\ x.status = u.status
  BY <1>3, <1>5, PlanningClose
<1> HIDE DEF x, v
<1>8. v \in PlanningRun /\ v.open = O /\ v.node = u.node /\ v.status = u.status
  <2> DEFINE y == [x EXCEPT !.selected = b]
  <2>1. y \in PlanningRun /\ y.node = x.node /\ y.open = x.open /\ y.status = x.status
    BY <1>5, <1>7, PlanningSelected
  <2> HIDE DEF y
  <2> QED
    BY <1>6, <1>7, <2>1 DEF y
<1>9. LET t == PlannedUnlessOpen(v) IN
      /\ t \in PlanningRun
      /\ t.status = (IF v.open = {} THEN "PLANNED_RESEARCH" ELSE v.status)
      /\ t.node = v.node /\ t.open = v.open
  BY <1>8, PlanningPlanned
<1> QED
  BY <1>2, <1>3, <1>4, <1>8, <1>9 DEF N

\* A repair of the coverage puts no node to wait and closes no decision.
LEMMA PlanningCoverage ==
  ASSUME NEW r \in PlanningRun
  PROVE  LET t == RepairCoverage(r) IN
         /\ t \in PlanningRun
         /\ \A m \in Node : t.node[m] \in {r.node[m], "COMPLETED", "PENDING"}
         /\ t.open = r.open
<1> DEFINE S == r.snapshot \cup {n \in Upstream : r.node[n] = "COMPLETED"}
           c == CoverageSufficient(r)
           u == [r EXCEPT !.snapshot = S, !.coverage = c]
           v == SetNodes(u, S, "COMPLETED")
           x == SetNodes(v, Downstream, "PENDING")
           y == [x EXCEPT !.status = "PARTIAL_RESEARCH"]
<1>1. /\ "PENDING" \in NodeStatus /\ "COMPLETED" \in NodeStatus /\ "PARTIAL_RESEARCH" \in RunStatus
      /\ S \in SUBSET Upstream /\ c \in BOOLEAN
  BY DEF NodeStatus, RunStatus, PlanningRun, CoverageSufficient
<1>2. RepairCoverage(r) = IF u.coverage THEN u ELSE y
  BY DEF RepairCoverage
<1> HIDE DEF S, c
<1>3. u \in PlanningRun /\ u.node = r.node /\ u.open = r.open
  BY <1>1 DEF PlanningRun
<1> HIDE DEF u
<1>4. /\ v \in PlanningRun /\ v.open = u.open
      /\ \A m \in Node : v.node[m] = IF m \in S THEN "COMPLETED" ELSE u.node[m]
  BY <1>1, <1>3, PlanningSetNodes
<1> HIDE DEF v
<1>5. /\ x \in PlanningRun /\ x.open = v.open
      /\ \A m \in Node : x.node[m] = IF m \in Downstream THEN "PENDING" ELSE v.node[m]
  BY <1>1, <1>4, PlanningSetNodes
<1> HIDE DEF x
<1>6. y \in PlanningRun /\ y.open = x.open /\ y.node = x.node
  BY <1>1, <1>5, PlanningStatus
<1> HIDE DEF y
<1> QED
  BY <1>2, <1>3, <1>4, <1>5, <1>6

-----------------------------------------------------------------------------
(* Types. *)

PlanningTypeOK == run \in PlanningRun /\ planning \in Plan

\* The repair on the run and the plan.
RepairedWork(r, p, w) ==
  \E recovery \in {"none", "current", "fresh"}, preserved \in BOOLEAN :
    w = RepairStructuredGeneration(r, p, recovery, preserved)

LEMMA RepairedTypes ==
  ASSUME NEW r \in PlanningRun, NEW p \in Plan, NEW w, RepairedWork(r, p, w)
  PROVE  w \in RepairWork /\ w.run \in PlanningRun /\ [w.plan EXCEPT !.answered = @ \ w.repaired] \in Plan
<1>1. w \in RepairWork
  BY RepairQuiets DEF RepairedWork
<1>2. w.run \in PlanningRun /\ w.plan \in Plan
  BY <1>1, WorkParts
<1> QED
  BY <1>1, <1>2 DEF Plan

\* Every repair step runs the repair and saves its run.
LEMMA RepairStepsRepair ==
  /\ RepairStructured <=>
       \E w : /\ RepairedWork(run, planning, w)
              /\ run' = w.run /\ planning' = [w.plan EXCEPT !.answered = @ \ w.repaired]
  /\ RepairRouting <=>
       \E w : /\ RepairedWork(InvalidateStaleRouting(run), planning, w)
              /\ run' = w.run /\ planning' = [w.plan EXCEPT !.answered = @ \ w.repaired]
BY DEF RepairStructured, RepairRouting, RepairedWork, Recovered

LEMMA PlanningStart == RepairInit => PlanningTypeOK
<1> SUFFICES ASSUME RepairInit PROVE PlanningTypeOK
  OBVIOUS
<1>1. run \in PlanningRun
  BY DEF RepairInit, CreateRunState, PlanningRun, RunStatus, NodeStatus, ClaimVerdict
<1>2. 0 \in 0..1 /\ 0 \in 0..MaxFresh /\ 0 \in 0..MaxUpgrades
  BY RepairAssumption DEF RepairAssumption
<1>3. planning \in Plan
  BY <1>2 DEF RepairInit, Plan
<1> QED
  BY <1>1, <1>3 DEF PlanningTypeOK

\* What a handler that hands over leaves.
LEMMA HandsOverParts ==
  ASSUME PlanningTypeOK, NEW n \in Upstream, NEW c \in CausesOf(n), NEW p,
         HandsOver(n, c, p) \/ HandsOverExhausted(n, c, p)
  PROVE  /\ run' \in PlanningRun /\ planning' = p
         /\ \A m \in Node : run'.node[m] = IF m = n THEN "WAITING_FOR_HUMAN" ELSE run.node[m]
         /\ \E d \in Question : d.node = n /\ run'.open = run.open \cup {d}
         /\ run'.status = "WAITING_FOR_HUMAN"
<1> DEFINE b == run.selected /\ n # QuestionRefinement
           r == [run EXCEPT !.selected = b]
<1>1. run \in PlanningRun
  BY DEF PlanningTypeOK
<1>2. r \in PlanningRun /\ r.node = run.node /\ r.open = run.open
  <2>1. b \in BOOLEAN
    OBVIOUS
  <2> HIDE DEF b
  <2> QED
    BY <1>1, <2>1, PlanningSelected
<1>3. CASE HandsOver(n, c, p)
  BY <1>1, <1>3, PlanningRequest DEF HandsOver
<1>4. CASE HandsOverExhausted(n, c, p)
  <2>1. run' = RequestDecision(r, n, c) /\ FreeIds(run) # {} /\ planning' = p
    BY <1>4 DEF HandsOverExhausted
  <2> HIDE DEF r
  <2>2. FreeIds(r) # {}
    BY <1>2, <2>1 DEF FreeIds
  <2> QED
    BY <1>2, <2>1, <2>2, PlanningRequest
<1> QED
  BY <1>3, <1>4

LEMMA RefinedParts ==
  ASSUME PlanningTypeOK, NEW p \in Plan, NEW skeleton \in BOOLEAN, Refined(p, skeleton)
  PROVE  /\ run' \in PlanningRun /\ planning' \in Plan /\ planning'.candidate = p.candidate
         /\ \A m \in Node : run'.node[m] = IF m = QuestionRefinement THEN "COMPLETED" ELSE run.node[m]
         /\ run'.open = run.open
         /\ \/ run'.status = run.status
            \/ /\ run'.status \in {"RESEARCH_COMPLETE", "PARTIAL_RESEARCH"}
               /\ \A m \in Node : run'.node[m] = "COMPLETED"
<1> DEFINE u == CompleteNode(run, QuestionRefinement)
           v == [u EXCEPT !.selected = TRUE]
<1>1. /\ u \in PlanningRun
      /\ \A m \in Node : u.node[m] = IF m = QuestionRefinement THEN "COMPLETED" ELSE run.node[m]
      /\ u.open = run.open /\ u.selected = run.selected
      /\ \/ u.status = run.status
         \/ /\ u.status \in {"RESEARCH_COMPLETE", "PARTIAL_RESEARCH"}
            /\ \A m \in Node : u.node[m] = "COMPLETED"
  BY PlanningComplete, PlanningNames DEF PlanningTypeOK
<1>2. run' = v
  BY DEF Refined
<1> HIDE DEF u
<1>3. v \in PlanningRun /\ v.node = u.node /\ v.open = u.open /\ v.status = u.status
  BY <1>1, PlanningSelected
<1> HIDE DEF v
<1>4. planning' \in Plan /\ planning'.candidate = p.candidate
  <2> DEFINE k == skeleton \/ p.skeleton
             a == p.answered \ {QuestionRefinement}
             s == p.stale \ ({"selection"} \cup IF skeleton THEN {"skeleton"} ELSE {})
  <2>1. planning' = [p EXCEPT !.skeleton = k, !.answered = a, !.stale = s]
    BY DEF Refined
  <2>2. k \in BOOLEAN /\ a \in SUBSET Node /\ s \in SUBSET PlanningResults
    BY DEF Plan
  <2> HIDE DEF k, a, s
  <2> QED
    BY <2>1, <2>2 DEF Plan
<1> QED
  BY <1>1, <1>2, <1>3, <1>4

LEMMA RegeneratedPlan ==
  ASSUME NEW p \in Plan, p.done < MaxFresh
  PROVE  LET q == [p EXCEPT !.fresh = 1, !.done = @ + 1] IN
         /\ q \in Plan /\ q.candidate = p.candidate
         /\ LET s == [q EXCEPT !.skeleton = TRUE, !.stale = @ \cup {"skeleton"}] IN
            s \in Plan /\ s.candidate = p.candidate
<1> DEFINE e == p.done + 1
           q == [p EXCEPT !.fresh = 1, !.done = e]
<1>1. e \in 0..MaxFresh /\ 1 \in 0..1
  BY RepairAssumption DEF Plan, RepairAssumption
<1> HIDE DEF e
<1>2. q \in Plan /\ q.candidate = p.candidate
  BY <1>1 DEF Plan
<1> HIDE DEF q
<1> DEFINE x == q.stale \cup {"skeleton"}
           s == [q EXCEPT !.skeleton = TRUE, !.stale = x]
<1>3. x \in SUBSET PlanningResults
  BY <1>2 DEF Plan, PlanningResults
<1> HIDE DEF x
<1>4. s \in Plan /\ s.candidate = q.candidate
  BY <1>2, <1>3 DEF Plan
<1> QED
  BY <1>2, <1>4 DEF q, e, x

-----------------------------------------------------------------------------
(***************************************************************************)
(* What a step does to the nodes and to the decisions: the steps of the    *)
(* next-state relation are of eight kinds.                                 *)
(***************************************************************************)
NodeBecomes(n, s) ==
  \A m \in Node : run'.node[m] = IF m = n THEN s ELSE run.node[m]

Asks(n) ==
  /\ n \in Upstream /\ Ready(n) /\ (n = QuestionRefinement => planning.candidate)
  /\ NodeBecomes(n, "WAITING_FOR_HUMAN")
  /\ \E d \in Question : d.node = n /\ run'.open = run.open \cup {d}
  /\ run'.status = "WAITING_FOR_HUMAN"
  /\ planning'.candidate = planning.candidate

Completes(n) ==
  /\ n \in Node /\ Ready(n) /\ (n = QuestionRefinement => planning.candidate)
  /\ NodeBecomes(n, "COMPLETED")
  /\ run'.open = run.open
  /\ \/ run'.status = run.status
     \/ /\ run'.status \in {"RESEARCH_COMPLETE", "PARTIAL_RESEARCH"}
        /\ \A m \in Node : run'.node[m] = "COMPLETED"
  /\ n # QuestionDiscovery => planning'.candidate = planning.candidate

StopsAt(n, s) ==
  /\ n \in Node /\ Ready(n)
  /\ s = "FAILED" \/ (s = "BLOCKED_OTHER" /\ n = QuestionRefinement)
  /\ NodeBecomes(n, s)
  /\ run'.open = run.open /\ run'.status = s
  /\ planning'.candidate = planning.candidate

Answers(d) ==
  /\ d \in run.open /\ d.node \in ModelNodes
  /\ NodeBecomes(d.node, "COMPLETED")
  /\ run'.open = run.open \ {d}
  /\ run'.open = {} => run'.status = "PLANNED_RESEARCH"
  /\ \/ run'.status \in {run.status, "PLANNED_RESEARCH"}
     \/ \A m \in Node : run'.node[m] = "COMPLETED"
  /\ d.node # QuestionDiscovery => planning'.candidate = planning.candidate

Submits(d) ==
  /\ d \in run.open
  /\ \A m \in Node : run'.node[m] = IF m = d.node /\ run.node[m] = "WAITING_FOR_HUMAN" THEN "PENDING"
                                    ELSE run.node[m]
  /\ run'.open = run.open \ {d}
  /\ run'.status = IF run'.open = {} THEN "PLANNED_RESEARCH" ELSE run.status
  /\ planning'.candidate = planning.candidate

Reopens(withQuestion) ==
  LET N == Reopened(run, withQuestion) IN
  /\ withQuestion \in BOOLEAN
  /\ \A m \in Node : run'.node[m] = IF m \in N THEN "PENDING" ELSE run.node[m]
  /\ run'.open = {d \in run.open : d.node \notin N}
  /\ run'.status = IF run'.open = {} THEN "PLANNED_RESEARCH" ELSE run.status
  /\ planning'.candidate => planning.candidate
  /\ withQuestion => ~ planning'.candidate
  /\ ~ withQuestion => planning'.candidate = planning.candidate

Restores ==
  /\ "repair-research-completion-coverage" \in Commands
  /\ \A m \in Node : run'.node[m] \in {run.node[m], "COMPLETED", "PENDING"}
  /\ run'.open = run.open

RepairsTo(w) ==
  /\ \E r \in {run, InvalidateStaleRouting(run)} : RepairedWork(r, planning, w)
  /\ run' = w.run /\ planning'.candidate = w.plan.candidate

StepKind ==
  \/ \E n \in Node : Asks(n) \/ Completes(n) \/ StopsAt(n, "FAILED") \/ StopsAt(n, "BLOCKED_OTHER")
  \/ \E d \in run.open : Answers(d) \/ Submits(d)
  \/ \E withQuestion \in BOOLEAN : Reopens(withQuestion)
  \/ Restores
  \/ \E w : RepairsTo(w)
  \/ run' = run /\ planning'.candidate = planning.candidate

LEMMA AskingSteps ==
  ASSUME PlanningTypeOK, NEW n \in Upstream, NEW c \in CausesOf(n), NEW p \in Plan,
         p.candidate = planning.candidate, n = QuestionRefinement => planning.candidate, Ready(n),
         HandsOver(n, c, p) \/ HandsOverExhausted(n, c, p)
  PROVE  PlanningTypeOK' /\ Asks(n)
<1>1. /\ run' \in PlanningRun /\ planning' = p
      /\ \A m \in Node : run'.node[m] = IF m = n THEN "WAITING_FOR_HUMAN" ELSE run.node[m]
      /\ \E d \in Question : d.node = n /\ run'.open = run.open \cup {d}
      /\ run'.status = "WAITING_FOR_HUMAN"
  BY HandsOverParts
<1>2. PlanningTypeOK'
  BY <1>1 DEF PlanningTypeOK
<1> QED
  BY <1>1, <1>2 DEF Asks, NodeBecomes

LEMMA CompletingSteps ==
  ASSUME PlanningTypeOK, NEW n \in Node, Ready(n), run' = CompleteNode(run, n), planning' \in Plan,
         n = QuestionRefinement => planning.candidate,
         n # QuestionDiscovery => planning'.candidate = planning.candidate
  PROVE  PlanningTypeOK' /\ Completes(n)
BY PlanningComplete DEF PlanningTypeOK, Completes, NodeBecomes

LEMMA RefinedSteps ==
  ASSUME PlanningTypeOK, NEW p \in Plan, p.candidate = planning.candidate, NEW skeleton \in BOOLEAN,
         Refined(p, skeleton), Ready(QuestionRefinement), planning.candidate
  PROVE  PlanningTypeOK' /\ Completes(QuestionRefinement)
BY RefinedParts, PlanningNames DEF PlanningTypeOK, Completes, NodeBecomes

LEMMA StoppingSteps ==
  ASSUME PlanningTypeOK, NEW n \in Node, Ready(n), NEW s \in {"FAILED", "BLOCKED_OTHER"},
         s = "BLOCKED_OTHER" => n = QuestionRefinement,
         run' = BlockNode(run, n, s), planning' \in Plan, planning'.candidate = planning.candidate
  PROVE  PlanningTypeOK' /\ StopsAt(n, s)
<1>1. s \in StopStatus
  BY DEF StopStatus
<1> QED
  BY <1>1, PlanningBlock DEF PlanningTypeOK, StopsAt, NodeBecomes

\* The plans that the handlers and the human leave.
LEMMA PlanSteps ==
  ASSUME NEW p \in Plan
  PROVE  /\ \A n \in Node, S \in SUBSET PlanningResults :
              [p EXCEPT !.candidate = TRUE, !.stale = @ \ S, !.done = 0, !.answered = @ \ {n}] \in Plan
         /\ \A n \in Node, S \in SUBSET PlanningResults :
              [p EXCEPT !.routes = TRUE, !.stale = @ \ S, !.answered = @ \ {n}] \in Plan
         /\ \A N \in SUBSET Node :
              [p EXCEPT !.output = N] \in Plan /\ [p EXCEPT !.output = N].candidate = p.candidate
<1>1. 0 \in 0..MaxFresh
  BY RepairAssumption DEF RepairAssumption
<1>2. ASSUME NEW n \in Node, NEW S \in SUBSET PlanningResults
      PROVE  [p EXCEPT !.candidate = TRUE, !.stale = @ \ S, !.done = 0, !.answered = @ \ {n}] \in Plan
  BY <1>1 DEF Plan
<1>3. ASSUME NEW n \in Node, NEW S \in SUBSET PlanningResults
      PROVE  [p EXCEPT !.routes = TRUE, !.stale = @ \ S, !.answered = @ \ {n}] \in Plan
  BY DEF Plan
<1>4. ASSUME NEW N \in SUBSET Node
      PROVE  [p EXCEPT !.output = N] \in Plan /\ [p EXCEPT !.output = N].candidate = p.candidate
  BY DEF Plan
<1> QED
  BY <1>2, <1>3, <1>4

LEMMA HandlerKinds ==
  ASSUME PlanningTypeOK,
         \/ Discover \/ Collect \/ Refine \/ RefineNothing \/ Recover \/ Regenerate \/ RegenerateNoMore
         \/ Analyze \/ Downstreams \/ \E n \in Node : Fails(n)
  PROVE  PlanningTypeOK' /\ StepKind
<1>0. planning \in Plan
  BY DEF PlanningTypeOK
<1>a. /\ QuestionDiscovery \in Upstream /\ EvidenceDiscovery \in Upstream
      /\ QuestionRefinement \in Upstream /\ Feasibility \in Upstream
      /\ QuestionDiscovery \in Node /\ EvidenceDiscovery \in Node
      /\ QuestionRefinement \in Node /\ Feasibility \in Node
      /\ QuestionDiscovery # QuestionRefinement /\ EvidenceDiscovery # QuestionRefinement
      /\ Feasibility # QuestionRefinement
      /\ EvidenceDiscovery # QuestionDiscovery /\ Feasibility # QuestionDiscovery
  BY PlanningNames
<1>b. \A n \in Node : PlanningCauses[n] \subseteq CausesOf(n)
  BY DEF CausesOf
<1>c. \A n \in Upstream : \A c \in CausesOf(n) : \A p \in Plan :
        /\ p.candidate = planning.candidate /\ (n = QuestionRefinement => planning.candidate) /\ Ready(n)
        /\ HandsOver(n, c, p) \/ HandsOverExhausted(n, c, p)
        => PlanningTypeOK' /\ Asks(n)
  BY AskingSteps
<1>1. CASE Discover
  <2>1. Ready(QuestionDiscovery)
    BY <1>1 DEF Discover
  <2>2. CASE /\ run' = CompleteNode(run, QuestionDiscovery)
             /\ planning' = [planning EXCEPT !.candidate = TRUE, !.stale = @ \ {"candidate"}, !.done = 0,
                                !.answered = @ \ {QuestionDiscovery}]
    <3>1. {"candidate"} \in SUBSET PlanningResults
      BY DEF PlanningResults
    <3>2. planning' \in Plan
      BY <1>0, <1>a, <2>2, <3>1, PlanSteps
    <3>3. PlanningTypeOK' /\ Completes(QuestionDiscovery)
      BY <1>a, <2>1, <2>2, <3>2, CompletingSteps
    <3> QED
      BY <1>a, <3>3 DEF StepKind
  <2>3. CASE \E cause \in PlanningCauses[QuestionDiscovery] : HandsOver(QuestionDiscovery, cause, planning)
    <3>1. PlanningTypeOK' /\ Asks(QuestionDiscovery)
      BY <1>0, <1>a, <1>b, <1>c, <2>1, <2>3
    <3> QED
      BY <1>a, <3>1 DEF StepKind
  <2> QED
    BY <1>1, <2>2, <2>3 DEF Discover
<1>2. CASE Collect
  <2>1. Ready(EvidenceDiscovery)
    BY <1>2 DEF Collect
  <2>2. CASE run' = CompleteNode(run, EvidenceDiscovery) /\ UNCHANGED planning
    <3>1. PlanningTypeOK' /\ Completes(EvidenceDiscovery)
      BY <1>0, <1>a, <2>1, <2>2, CompletingSteps
    <3> QED
      BY <1>a, <3>1 DEF StepKind
  <2>3. CASE HandsOver(EvidenceDiscovery, "OTHER", planning)
    <3>1. PlanningTypeOK' /\ Asks(EvidenceDiscovery)
      BY <1>0, <1>a, <1>c, <2>1, <2>3, PlanningCauseNames
    <3> QED
      BY <1>a, <3>1 DEF StepKind
  <2> QED
    BY <1>2, <2>2, <2>3 DEF Collect
<1>3. CASE Refine
  <2>1. Ready(QuestionRefinement) /\ planning.candidate
    BY <1>3 DEF Refine
  <2>2. CASE \E skeleton \in BOOLEAN : Refined(planning, skeleton)
    <3>1. PlanningTypeOK' /\ Completes(QuestionRefinement)
      BY <1>0, <2>1, <2>2, RefinedSteps
    <3> QED
      BY <1>a, <3>1 DEF StepKind
  <2>3. CASE \/ HandsOver(QuestionRefinement, "UNSUITABLE", planning)
             \/ \E cause \in PlanningCauses[QuestionRefinement] \ {"UNSUITABLE"} :
                  HandsOverExhausted(QuestionRefinement, cause, planning)
    <3>1. PlanningTypeOK' /\ Asks(QuestionRefinement)
      <4>1. "UNSUITABLE" \in CausesOf(QuestionRefinement)
        BY PlanningCauseNames
      <4> QED
        BY <1>0, <1>a, <1>b, <1>c, <2>1, <2>3, <4>1
    <3> QED
      BY <1>a, <3>1 DEF StepKind
  <2> QED
    BY <1>3, <2>2, <2>3 DEF Refine
<1>4. CASE RefineNothing
  <2>1. PlanningTypeOK' /\ StopsAt(QuestionRefinement, "BLOCKED_OTHER")
    <3>1. Ready(QuestionRefinement) /\ run' = BlockNode(run, QuestionRefinement, "BLOCKED_OTHER") /\ planning' = planning
      BY <1>4 DEF RefineNothing
    <3> QED
      BY <1>0, <1>a, <3>1, StoppingSteps
  <2> QED
    BY <1>a, <2>1 DEF StepKind
<1>5. CASE Recover
  <2>1. Ready(QuestionRefinement) /\ planning.candidate
    BY <1>5 DEF Recover
  <2>2. CASE Refined(planning, TRUE)
    <3>1. PlanningTypeOK' /\ Completes(QuestionRefinement)
      BY <1>0, <2>1, <2>2, RefinedSteps
    <3> QED
      BY <1>a, <3>1 DEF StepKind
  <2>3. CASE HandsOverExhausted(QuestionRefinement, "DECODING", planning)
    <3>1. PlanningTypeOK' /\ Asks(QuestionRefinement)
      BY <1>0, <1>a, <1>c, <2>1, <2>3, PlanningCauseNames
    <3> QED
      BY <1>a, <3>1 DEF StepKind
  <2> QED
    BY <1>5, <2>2, <2>3 DEF Recover
<1>6. CASE Regenerate
  <2> DEFINE p == [planning EXCEPT !.fresh = 1, !.done = @ + 1]
             s == [p EXCEPT !.skeleton = TRUE, !.stale = @ \cup {"skeleton"}]
  <2>1. Ready(QuestionRefinement) /\ planning.candidate /\ planning.done < MaxFresh
    BY <1>6 DEF Regenerate
  <2>2. p \in Plan /\ p.candidate = planning.candidate /\ s \in Plan /\ s.candidate = planning.candidate
    BY <1>0, <2>1, RegeneratedPlan
  <2>3. \/ Refined(p, TRUE)
        \/ \E cause \in {"FRESH", "RESELECT"} : HandsOver(QuestionRefinement, cause, p)
        \/ HandsOver(QuestionRefinement, "FIELD", s)
    BY <1>6 DEF Regenerate
  <2> HIDE DEF p, s
  <2>4. CASE Refined(p, TRUE)
    <3>1. PlanningTypeOK' /\ Completes(QuestionRefinement)
      BY <2>1, <2>2, <2>4, RefinedSteps
    <3> QED
      BY <1>a, <3>1 DEF StepKind
  <2>5. CASE \/ \E cause \in {"FRESH", "RESELECT"} : HandsOver(QuestionRefinement, cause, p)
             \/ HandsOver(QuestionRefinement, "FIELD", s)
    <3>1. PlanningTypeOK' /\ Asks(QuestionRefinement)
      <4>1. {"FRESH", "RESELECT", "FIELD"} \subseteq CausesOf(QuestionRefinement)
        BY PlanningCauseNames
      <4> QED
        BY <1>a, <1>c, <2>1, <2>2, <2>5, <4>1
    <3> QED
      BY <1>a, <3>1 DEF StepKind
  <2> QED
    BY <2>3, <2>4, <2>5
<1>7. CASE RegenerateNoMore
  <2>1. Ready(QuestionRefinement) /\ planning.candidate /\ HandsOver(QuestionRefinement, "RESELECT", planning)
    BY <1>7 DEF RegenerateNoMore
  <2>2. PlanningTypeOK' /\ Asks(QuestionRefinement)
    BY <1>0, <1>a, <1>c, <2>1, PlanningCauseNames
  <2> QED
    BY <1>a, <2>2 DEF StepKind
<1>8. CASE Analyze
  <2>1. Ready(Feasibility)
    BY <1>8 DEF Analyze
  <2>2. CASE /\ run' = CompleteNode(run, Feasibility)
             /\ planning' = [planning EXCEPT !.routes = TRUE, !.stale = @ \ {"routes"}, !.answered = @ \ {Feasibility}]
    <3>1. {"routes"} \in SUBSET PlanningResults
      BY DEF PlanningResults
    <3>2. planning' \in Plan
      BY <1>0, <1>a, <2>2, <3>1, PlanSteps
    <3>3. planning'.candidate = planning.candidate
      BY <1>0, <2>2 DEF Plan
    <3>4. PlanningTypeOK' /\ Completes(Feasibility)
      BY <1>a, <2>1, <2>2, <3>2, <3>3, CompletingSteps
    <3> QED
      BY <1>a, <3>4 DEF StepKind
  <2>3. CASE \E cause \in PlanningCauses[Feasibility] : HandsOver(Feasibility, cause, planning)
    <3>1. PlanningTypeOK' /\ Asks(Feasibility)
      BY <1>0, <1>a, <1>b, <1>c, <2>1, <2>3
    <3> QED
      BY <1>a, <3>1 DEF StepKind
  <2> QED
    BY <1>8, <2>2, <2>3 DEF Analyze
<1>9. CASE Downstreams
  <2>1. PICK n \in Downstream : Ready(n) /\ run' = CompleteNode(run, n) /\ UNCHANGED planning
    BY <1>9 DEF Downstreams
  <2>2. n \in Node /\ planning' = planning /\ n # QuestionRefinement
    BY <2>1, PlanningNames
  <2>3. PlanningTypeOK' /\ Completes(n)
    BY <1>0, <2>1, <2>2, CompletingSteps
  <2> QED
    BY <2>2, <2>3 DEF StepKind
<1>10. CASE \E n \in Node : Fails(n)
  <2>1. PICK n \in Node : Fails(n)
    BY <1>10
  <2>2. \E N \in SUBSET Node : planning' = [planning EXCEPT !.output = N]
    <3>1. PICK malformed \in BOOLEAN :
            planning' = [planning EXCEPT !.output = IF malformed /\ n \in ModelNodes THEN @ \cup {n} ELSE @ \ {n}]
      BY <2>1 DEF Fails
    <3> DEFINE N == IF malformed /\ n \in ModelNodes THEN planning.output \cup {n} ELSE planning.output \ {n}
    <3>2. planning' = [planning EXCEPT !.output = N]
      BY <3>1
    <3>3. N \in SUBSET Node
      BY <1>0 DEF Plan
    <3> HIDE DEF N
    <3> QED
      BY <3>2, <3>3
  <2>3. planning' \in Plan /\ planning'.candidate = planning.candidate
    BY <1>0, <2>2, PlanSteps
  <2>4. PlanningTypeOK' /\ StopsAt(n, "FAILED")
    <3>1. Ready(n) /\ run' = BlockNode(run, n, "FAILED")
      BY <2>1 DEF Fails
    <3> QED
      BY <2>3, <3>1, StoppingSteps
  <2> QED
    BY <2>4 DEF StepKind
<1> QED
  BY <1>1, <1>2, <1>3, <1>4, <1>5, <1>6, <1>7, <1>8, <1>9, <1>10

LEMMA AnswerPlan ==
  ASSUME NEW p \in Plan, NEW n \in ModelNodes, NEW S
  PROVE  LET q == [p EXCEPT !.answered = @ \cup {n}, !.candidate = @ \/ n = QuestionDiscovery,
                            !.done = IF n = QuestionDiscovery THEN 0 ELSE @, !.stale = @ \ S] IN
         q \in Plan /\ (n # QuestionDiscovery => q.candidate = p.candidate)
<1> DEFINE a == p.answered \cup {n}
           c == p.candidate \/ n = QuestionDiscovery
           e == IF n = QuestionDiscovery THEN 0 ELSE p.done
           s == p.stale \ S
           q == [p EXCEPT !.answered = a, !.candidate = c, !.done = e, !.stale = s]
<1>1. /\ a \in SUBSET Node /\ c \in BOOLEAN /\ e \in 0..MaxFresh /\ s \in SUBSET PlanningResults
      /\ n # QuestionDiscovery => c = p.candidate
  BY RepairAssumption, PlanningNames DEF Plan, RepairAssumption
<1> HIDE DEF a, c, e, s
<1>2. q \in Plan /\ q.candidate = c
  BY <1>1 DEF Plan
<1> QED
  BY <1>1, <1>2 DEF a, c, e, s

LEMMA OtherKinds ==
  ASSUME PlanningTypeOK,
         AnswerNode \/ SubmitOption \/ Upgrade \/ RepairEvidenceRelevance \/ RepairCompletionCoverage
  PROVE  PlanningTypeOK' /\ StepKind
<1>0. run \in PlanningRun /\ planning \in Plan
  BY DEF PlanningTypeOK
<1>1. CASE AnswerNode
  <2>1. PICK d \in run.open :
          /\ d.node \in ModelNodes
          /\ run' = AnswerDecision(run, d)
          /\ \E S : planning' = [planning EXCEPT !.answered = @ \cup {d.node},
                            !.candidate = @ \/ d.node = QuestionDiscovery,
                            !.done = IF d.node = QuestionDiscovery THEN 0 ELSE @,
                            !.stale = @ \ S]
    BY <1>1 DEF AnswerNode
  <2>2. planning' \in Plan /\ (d.node # QuestionDiscovery => planning'.candidate = planning.candidate)
    <3> DEFINE n == d.node
    <3>1. n \in ModelNodes
      BY <2>1
    <3>2. PICK S : planning' = [planning EXCEPT !.answered = @ \cup {n}, !.candidate = @ \/ n = QuestionDiscovery,
                            !.done = IF n = QuestionDiscovery THEN 0 ELSE @, !.stale = @ \ S]
      BY <2>1
    <3> HIDE DEF n
    <3>3. planning' \in Plan /\ (n # QuestionDiscovery => planning'.candidate = planning.candidate)
      BY <1>0, <3>1, <3>2, AnswerPlan
    <3> QED
      BY <3>3 DEF n
  <2>3. PlanningTypeOK' /\ Answers(d)
    BY <1>0, <2>1, <2>2, PlanningAnswer DEF PlanningTypeOK, Answers, NodeBecomes
  <2> QED
    BY <2>3 DEF StepKind
<1>2. CASE SubmitOption
  <2>1. PICK d \in run.open : run' = SubmitDecision(run, d) /\ planning' = planning
    BY <1>2 DEF SubmitOption
  <2>2. PlanningTypeOK' /\ Submits(d)
    BY <1>0, <2>1, PlanningSubmit DEF PlanningTypeOK, Submits
  <2> QED
    BY <2>2 DEF StepKind
<1>3. CASE Upgrade
  <2>1. PICK r \in PlanningResults : planning' = [planning EXCEPT !.stale = @ \cup {r}, !.upgrades = @ + 1]
    BY <1>3 DEF Upgrade
  <2>2. run' = run /\ planning.upgrades < MaxUpgrades
    BY <1>3 DEF Upgrade
  <2> DEFINE x == planning.upgrades + 1
             s == planning.stale \cup {r}
  <2>3. x \in 0..MaxUpgrades /\ s \in SUBSET PlanningResults
    BY <1>0, <2>2, RepairAssumption DEF Plan, RepairAssumption
  <2>4. planning' = [planning EXCEPT !.stale = s, !.upgrades = x]
    BY <2>1
  <2> HIDE DEF x, s
  <2>5. planning' \in Plan /\ planning'.candidate = planning.candidate
    BY <1>0, <2>3, <2>4 DEF Plan
  <2> QED
    BY <1>0, <2>2, <2>5 DEF PlanningTypeOK, StepKind
<1>4. CASE RepairEvidenceRelevance
  <2>1. PICK withQuestion \in BOOLEAN :
          /\ run' = RepairEvidence(run, withQuestion)
          /\ planning' = [planning EXCEPT !.candidate = @ /\ ~ withQuestion,
                               !.stale = @ \ (IF withQuestion THEN {"selection", "candidate"} ELSE {"selection"}),
                               !.output = @ \cap {n \in Node : run'.node[n] = "FAILED"}]
    BY <1>4 DEF RepairEvidenceRelevance
  <2> DEFINE c == planning.candidate /\ ~ withQuestion
             s == planning.stale \ (IF withQuestion THEN {"selection", "candidate"} ELSE {"selection"})
             o == planning.output \cap {n \in Node : run'.node[n] = "FAILED"}
  <2>2. planning' = [planning EXCEPT !.candidate = c, !.stale = s, !.output = o]
    BY <2>1
  <2>3. /\ c \in BOOLEAN /\ s \in SUBSET PlanningResults /\ o \in SUBSET Node
        /\ c => planning.candidate
        /\ withQuestion => ~ c
        /\ ~ withQuestion => c = planning.candidate
    BY <1>0 DEF Plan
  <2> HIDE DEF c, s, o
  <2>4. planning' \in Plan /\ planning'.candidate = c
    BY <1>0, <2>2, <2>3 DEF Plan
  <2>5. PlanningTypeOK' /\ Reopens(withQuestion)
    BY <1>0, <2>1, <2>3, <2>4, PlanningEvidence DEF PlanningTypeOK, Reopens
  <2> QED
    BY <2>5 DEF StepKind
<1>5. CASE RepairCompletionCoverage
  <2> DEFINE o == planning.output \cap {n \in Node : run'.node[n] = "FAILED"}
  <2>1. /\ run' = RepairCoverage(run) /\ planning' = [planning EXCEPT !.output = o]
        /\ "repair-research-completion-coverage" \in Commands
    BY <1>5 DEF RepairCompletionCoverage
  <2>2. o \in SUBSET Node
    OBVIOUS
  <2> HIDE DEF o
  <2>3. planning' \in Plan
    BY <1>0, <2>1, <2>2, PlanSteps
  <2>4. PlanningTypeOK' /\ Restores
    BY <1>0, <2>1, <2>3, PlanningCoverage DEF PlanningTypeOK, Restores
  <2> QED
    BY <2>4 DEF StepKind
<1> QED
  BY <1>1, <1>2, <1>3, <1>4, <1>5

LEMMA RepairKinds ==
  ASSUME PlanningTypeOK, RepairStructured \/ RepairRouting
  PROVE  PlanningTypeOK' /\ StepKind
<1>0. run \in PlanningRun /\ planning \in Plan /\ InvalidateStaleRouting(run) \in PlanningRun
  BY PlanningStaleRouting DEF PlanningTypeOK
<1>a. PICK r \in {run, InvalidateStaleRouting(run)} :
        \E w : /\ RepairedWork(r, planning, w)
              /\ run' = w.run /\ planning' = [w.plan EXCEPT !.answered = @ \ w.repaired]
  BY RepairStepsRepair
<1>1. PICK w : /\ RepairedWork(r, planning, w)
               /\ run' = w.run /\ planning' = [w.plan EXCEPT !.answered = @ \ w.repaired]
  BY <1>a
<1>2. w \in RepairWork /\ w.run \in PlanningRun /\ [w.plan EXCEPT !.answered = @ \ w.repaired] \in Plan
  BY <1>0, <1>1, RepairedTypes
<1>3. planning'.candidate = w.plan.candidate
  BY <1>1, <1>2, WorkParts DEF Plan
<1> QED
  BY <1>1, <1>2, <1>3 DEF PlanningTypeOK, RepairsTo, StepKind

LEMMA PlanningStep == PlanningTypeOK /\ [RepairNext]_repairVars => PlanningTypeOK' /\ StepKind
<1> SUFFICES ASSUME PlanningTypeOK, [RepairNext]_repairVars
             PROVE  PlanningTypeOK' /\ StepKind
  OBVIOUS
<1>1. CASE \/ Discover \/ Collect \/ Refine \/ RefineNothing \/ Recover \/ Regenerate \/ RegenerateNoMore
           \/ Analyze \/ Downstreams \/ \E n \in Node : Fails(n)
  BY <1>1, HandlerKinds
<1>2. CASE AnswerNode \/ SubmitOption \/ Upgrade \/ RepairEvidenceRelevance \/ RepairCompletionCoverage
  BY <1>2, OtherKinds
<1>3. CASE RepairStructured \/ RepairRouting
  BY <1>3, RepairKinds
<1>4. CASE UNCHANGED repairVars
  BY <1>4 DEF repairVars, PlanningTypeOK, StepKind
<1> QED
  BY <1>1, <1>2, <1>3, <1>4 DEF RepairNext

LEMMA PlanningTyped == RepairSpec => []PlanningTypeOK
<1>1. PlanningTypeOK /\ [RepairNext]_repairVars => PlanningTypeOK'
  BY PlanningStep
<1> QED
  BY <1>1, PlanningStart, PTL DEF RepairSpec

\* The run of a project that repairs its planning is a run record, whose decisions
\* are identified within the bound, and its plan is a plan: RepairTypeOK.
THEOREM RepairTypeCorrect == RepairSpec => []RepairTypeOK
<1>1. PlanningTypeOK => RepairTypeOK
  <2> SUFFICES ASSUME PlanningTypeOK PROVE RepairTypeOK
    OBVIOUS
  <2>1. run \in PlanningRun /\ planning \in Plan
    BY DEF PlanningTypeOK
  <2>2. {} \in SUBSET Decision
    OBVIOUS
  <2>3. [run EXCEPT !.open = {}] \in RunRecord
    BY <2>1, <2>2 DEF PlanningRun, RunRecord
  <2>4. \A d \in run.open : d.id \in 1..MaxOpen /\ d.node \in Node
    BY <2>1, QuestionParts DEF PlanningRun
  <2> QED
    BY <2>1, <2>3, <2>4 DEF RepairTypeOK
<1> QED
  BY <1>1, PlanningTyped, PTL

LEMMA RepairedOnce == PlanningTypeOK => RepairConverges
BY RepairTwice DEF PlanningTypeOK, RepairConverges

\* Whatever a run went through, a repair of its structured generation leaves nothing
\* for a second one (RepairConverges): the second repairs no node and saves the run
\* as the first left it.
THEOREM RepairsConverge == RepairSpec => []RepairConverges
BY RepairedOnce, PlanningTyped, PTL

-----------------------------------------------------------------------------
(***************************************************************************)
(* A node that waits is asked: every pass that closes a decision has       *)
(* queued its node.                                                        *)
(***************************************************************************)
NodesAreAsked(r) == \A n \in Node : r.node[n] = "WAITING_FOR_HUMAN" => \E d \in r.open : d.node = n

LEMMA SmallStepsAsk ==
  ASSUME NEW w \in RepairWork, NodesAreAsked(w.run), NEW n \in Node
  PROVE  /\ NodesAreAsked(Reset(w, n).run)
         /\ NodesAreAsked(ClearOutputs(w, QuestionRefinement).run)
         /\ NodesAreAsked(MarkDependents(w, n).run)
<1>1. NodesAreAsked(Reset(w, n).run)
  <2> DEFINE t == Reset(w, n)
  <2>1. /\ \A m \in Node : t.run.node[m] = IF m = n THEN "PENDING" ELSE w.run.node[m]
        /\ t.run.open = w.run.open
    BY ResetParts
  <2> HIDE DEF t
  <2>2. NodesAreAsked(t.run)
    BY <2>1 DEF NodesAreAsked
  <2> QED
    BY <2>2 DEF t
<1>2. NodesAreAsked(ClearOutputs(w, QuestionRefinement).run)
  BY ClearParts DEF NodesAreAsked
<1>3. NodesAreAsked(MarkDependents(w, n).run)
  <2> DEFINE t == MarkDependents(w, n)
             N == Advanced(w, n)
  <2>1. /\ \A m \in Node : t.run.node[m] = IF m \in N THEN "PENDING" ELSE w.run.node[m]
        /\ \/ t.run.open = {d \in w.run.open : d.node \notin N}
           \/ t.run.open = w.run.open
    BY MarkParts
  <2> HIDE DEF t, N
  <2>2. NodesAreAsked(t.run)
    BY <2>1 DEF NodesAreAsked
  <2> QED
    BY <2>2 DEF t
<1> QED
  BY <1>1, <1>2, <1>3

LEMMA InvalidateAsks ==
  ASSUME NEW w \in RepairWork, NodesAreAsked(w.run), NEW O,
         \A d \in O : w.run.node[d.node] # "WAITING_FOR_HUMAN"
  PROVE  NodesAreAsked(Invalidate(w, O).run)
<1> DEFINE t == Invalidate(w, O)
<1>1. t.run.open = w.run.open \ O /\ t.run.node = w.run.node
  BY InvalidateParts
<1> HIDE DEF t
<1>2. NodesAreAsked(t.run)
  BY <1>1 DEF NodesAreAsked
<1> QED
  BY <1>2 DEF t

LEMMA RetryAsks ==
  ASSUME NEW w \in RepairWork, NodesAreAsked(w.run), NEW n \in Node, NEW causes
  PROVE  /\ NodesAreAsked(Retry(w, n, causes).run)
         /\ NodesAreAsked(RetryWithDependents(w, n, causes).run)
<1> DEFINE D == Asked(w, n, causes)
           t == Reset(w, n)
           u == MarkDependents(t, n)
<1>1. t \in RepairWork /\ NodesAreAsked(t.run) /\ t.run.node[n] = "PENDING"
  BY SmallStepsAsk, ResetParts
<1>2. Retry(w, n, causes) = IF D = {} THEN w ELSE Invalidate(t, D)
  BY DEF Retry
<1>3. RetryWithDependents(w, n, causes) = IF D = {} THEN w ELSE Invalidate(u, D)
  BY DEF RetryWithDependents
<1>4. \A d \in D : d.node = n
  BY DEF Asked
<1> HIDE DEF t, D
<1>5. u \in RepairWork /\ NoMore(u, t) /\ NodesAreAsked(u.run)
  BY <1>1, MarkLess, SmallStepsAsk
<1>6. u.run.node[n] = "PENDING"
  BY <1>1, <1>5 DEF NoMore
<1> HIDE DEF u
<1>7. NodesAreAsked(Invalidate(t, D).run) /\ NodesAreAsked(Invalidate(u, D).run)
  BY <1>1, <1>4, <1>5, <1>6, InvalidateAsks
<1> QED
  BY <1>2, <1>3, <1>7

\* Of the passes: the results that they retire, the decisions that they close.
LEMMA RetiringAsks ==
  ASSUME NEW w \in RepairWork, NodesAreAsked(w.run)
  PROVE  /\ \A recovery \in {"none", "current", "fresh"} : NodesAreAsked(RetireSkeleton(w, recovery).run)
         /\ NodesAreAsked(RetireCandidate(w).run)
         /\ NodesAreAsked(RetireRoutes(w).run)
         /\ NodesAreAsked(RevalidateSelection(w).run)
<1> USE PlanningNames
<1>1. ASSUME NEW v \in RepairWork, NodesAreAsked(v.run), NEW n \in Node
      PROVE  NodesAreAsked(MarkDependents(Reset(v, n), n).run)
  <2> DEFINE t == Reset(v, n)
  <2>1. t \in RepairWork /\ NodesAreAsked(t.run)
    BY <1>1, ResetLess, SmallStepsAsk
  <2> HIDE DEF t
  <2>2. NodesAreAsked(MarkDependents(t, n).run)
    BY <2>1, SmallStepsAsk
  <2> QED
    BY <2>2 DEF t
<1>2. ASSUME NEW p \in Plan
      PROVE  [run |-> w.run, plan |-> p, repaired |-> w.repaired] \in RepairWork
  BY WorkParts DEF RepairWork
<1>3. ASSUME NEW recovery \in {"none", "current", "fresh"}
      PROVE  NodesAreAsked(RetireSkeleton(w, recovery).run)
  <2> DEFINE x == w.plan.stale \ {"skeleton"}
             y == IF recovery = "none" THEN w.plan.recovery ELSE recovery
             z == IF recovery = "fresh" THEN 0 ELSE w.plan.fresh
             p == [w.plan EXCEPT !.skeleton = FALSE, !.stale = x, !.recovery = y, !.fresh = z]
             v == [run |-> w.run, plan |-> p, repaired |-> w.repaired]
             a == ClearOutputs(v, QuestionRefinement)
             c == MarkDependents(Reset(a, QuestionRefinement), QuestionRefinement)
  <2>1. v = [w EXCEPT !.plan = p]
    BY DEF RepairWork
  <2>2. RetireSkeleton(w, recovery) \in {w, c}
    BY <2>1 DEF RetireSkeleton
  <2>3. w.plan \in Plan
    BY WorkParts
  <2>4. x \in SUBSET PlanningResults /\ y \in {"none", "current", "fresh"} /\ z \in 0..1
    BY <2>3 DEF Plan
  <2> HIDE DEF x, y, z
  <2>5. p \in Plan
    BY <2>3, <2>4 DEF Plan
  <2>6. v \in RepairWork /\ v.run = w.run
    BY <1>2, <2>5
  <2> HIDE DEF v
  <2>7. a \in RepairWork /\ NodesAreAsked(a.run)
    BY <2>6, ClearLess, SmallStepsAsk
  <2> HIDE DEF a
  <2>8. NodesAreAsked(c.run)
    BY <1>1, <2>7
  <2> HIDE DEF c
  <2> QED
    BY <2>2, <2>8
<1>4. NodesAreAsked(RetireCandidate(w).run)
  <2> DEFINE p == WithoutCandidate(w.plan)
             v == [run |-> w.run, plan |-> p, repaired |-> w.repaired]
             c == MarkDependents(Reset(v, QuestionDiscovery), QuestionDiscovery)
  <2>1. v = [w EXCEPT !.plan = p]
    BY DEF RepairWork
  <2>2. RetireCandidate(w) \in {w, c}
    BY <2>1 DEF RetireCandidate
  <2>3. p \in Plan
    BY WorkParts DEF Plan, WithoutCandidate
  <2> HIDE DEF p
  <2>4. v \in RepairWork /\ v.run = w.run
    BY <1>2, <2>3
  <2> HIDE DEF v
  <2>5. NodesAreAsked(c.run)
    BY <1>1, <2>4
  <2> HIDE DEF c
  <2> QED
    BY <2>2, <2>5
<1>5. NodesAreAsked(RetireRoutes(w).run)
  <2> DEFINE c == MarkDependents(Reset(w, Feasibility), Feasibility)
  <2>1. RetireRoutes(w) \in {w, c}
    BY DEF RetireRoutes
  <2>2. NodesAreAsked(c.run)
    BY <1>1
  <2> HIDE DEF c
  <2> QED
    BY <2>1, <2>2
<1>6. NodesAreAsked(RevalidateSelection(w).run)
  <2> DEFINE a == Reset(w, QuestionRefinement)
             b == ClearOutputs(a, QuestionRefinement)
             c == MarkDependents(b, QuestionRefinement)
  <2>1. RevalidateSelection(w) \in {w, c}
    BY DEF RevalidateSelection
  <2>2. a \in RepairWork /\ NodesAreAsked(a.run)
    BY ResetLess, SmallStepsAsk
  <2> HIDE DEF a
  <2>3. b \in RepairWork /\ NodesAreAsked(b.run)
    BY <2>2, ClearLess, SmallStepsAsk
  <2> HIDE DEF b
  <2>4. NodesAreAsked(c.run)
    BY <2>3, SmallStepsAsk
  <2> HIDE DEF c
  <2> QED
    BY <2>1, <2>4
<1> QED
  BY <1>3, <1>4, <1>5, <1>6

LEMMA ClosingAsks ==
  ASSUME NEW w \in RepairWork, NodesAreAsked(w.run)
  PROVE  /\ NodesAreAsked(RefinementDecisions(w).run)
         /\ NodesAreAsked(DiscoveryDecisions(w).run)
         /\ \A preserved \in BOOLEAN : NodesAreAsked(FeasibilityDecisions(w, preserved).run)
         /\ NodesAreAsked(SemanticDecisions(w).run)
<1> USE PlanningNames
<1>1. NodesAreAsked(RefinementDecisions(w).run)
  <2> DEFINE t == RetryWithDependents(w, QuestionRefinement, {"FIELD", "MEASUREMENT"})
             u == Retry(t, QuestionRefinement, {"FRESH", "RESELECT", "TYPED"})
  <2>1. t \in RepairWork /\ NodesAreAsked(t.run)
    BY RetryLess, RetryAsks
  <2>2. PICK p : RefinementDecisions(w) = [u EXCEPT !.plan = p]
    BY DEF RefinementDecisions
  <2> HIDE DEF t
  <2>3. u \in RepairWork /\ NodesAreAsked(u.run)
    BY <2>1, RetryLess, RetryAsks
  <2> HIDE DEF u
  <2>4. RefinementDecisions(w).run = u.run
    BY <2>2, <2>3 DEF RepairWork
  <2> QED
    BY <2>3, <2>4
<1>2. NodesAreAsked(DiscoveryDecisions(w).run)
  BY RetryAsks DEF DiscoveryDecisions
<1>3. ASSUME NEW preserved \in BOOLEAN
      PROVE  NodesAreAsked(FeasibilityDecisions(w, preserved).run)
  <2> DEFINE C == {"INCOMPLETE"} \cup (IF preserved THEN {"FIT"} ELSE {})
             a == RetryWithDependents(w, Feasibility, {"ROUTING"})
  <2>1. FeasibilityDecisions(w, preserved) = Retry(a, Feasibility, C)
    BY DEF FeasibilityDecisions
  <2>2. a \in RepairWork /\ NodesAreAsked(a.run)
    BY RetryLess, RetryAsks
  <2> HIDE DEF a, C
  <2> QED
    BY <2>1, <2>2, RetryAsks
<1>4. NodesAreAsked(SemanticDecisions(w).run)
  <2> DEFINE a == Retry(w, QuestionRefinement, {"SEMANTIC", "MEASUREMENT"})
             c == ClearOutputs(a, QuestionRefinement)
  <2>1. SemanticDecisions(w) \in {w, c}
    BY DEF SemanticDecisions
  <2>2. a \in RepairWork /\ NodesAreAsked(a.run)
    BY RetryLess, RetryAsks
  <2> HIDE DEF a
  <2>3. NodesAreAsked(c.run)
    BY <2>2, SmallStepsAsk
  <2> HIDE DEF c
  <2> QED
    BY <2>1, <2>3
<1> QED
  BY <1>1, <1>2, <1>3, <1>4

LEMMA RequeueingAsks ==
  ASSUME NEW w \in RepairWork, NodesAreAsked(w.run)
  PROVE  /\ NodesAreAsked(UnsuitableCandidate(w).run)
         /\ NodesAreAsked(DecodingDecisions(w).run)
         /\ NodesAreAsked(MalformedOutputs(w).run)
         /\ NodesAreAsked(Replan(w).run)
<1> USE PlanningNames
<1>1. NodesAreAsked(UnsuitableCandidate(w).run)
  <2> DEFINE p == WithoutCandidate(w.plan)
             v == [run |-> w.run, plan |-> p, repaired |-> w.repaired]
             a == Reset(v, QuestionDiscovery)
             b == Reset(a, QuestionRefinement)
             c == ClearOutputs(b, QuestionRefinement)
             O == {d \in w.run.open : d.node = QuestionRefinement}
             t == Invalidate(c, O)
  <2>1. v = [w EXCEPT !.plan = p]
    BY DEF RepairWork
  <2>2. UnsuitableCandidate(w) \in {w, t}
    BY <2>1 DEF UnsuitableCandidate
  <2>3. p \in Plan
    BY WorkParts DEF Plan, WithoutCandidate
  <2>a. \A d \in O : d.node = QuestionRefinement
    OBVIOUS
  <2> HIDE DEF p, O
  <2>4. v \in RepairWork /\ v.run = w.run
    BY <2>3, WorkParts DEF RepairWork
  <2> HIDE DEF v
  <2>5. a \in RepairWork /\ NodesAreAsked(a.run)
    BY <2>4, ResetLess, SmallStepsAsk
  <2> HIDE DEF a
  <2>6. b \in RepairWork /\ NodesAreAsked(b.run) /\ b.run.node[QuestionRefinement] = "PENDING"
    <3>1. b \in RepairWork
      BY <2>5, ResetLess
    <3>4. b.run.node[QuestionRefinement] = "PENDING"
      BY <2>5, ResetQueues
    <3>2. NodesAreAsked(b.run)
      BY <2>5, SmallStepsAsk
    <3> QED
      BY <3>1, <3>2, <3>4
  <2> HIDE DEF b
  <2>7. c \in RepairWork /\ NodesAreAsked(c.run) /\ c.run.node[QuestionRefinement] = "PENDING"
    BY <2>6, ClearLess, ClearParts, SmallStepsAsk
  <2> HIDE DEF c
  <2>8. NodesAreAsked(t.run)
    BY <2>a, <2>7, InvalidateAsks
  <2> HIDE DEF t
  <2> QED
    BY <2>2, <2>8
<1>2. NodesAreAsked(DecodingDecisions(w).run)
  <2> DEFINE t == DecodingDecisions(w)
             D == {d \in w.run.open : d.cause = "DECODING"}
             N == {n \in {d.node : d \in D} : w.run.node[n] = "WAITING_FOR_HUMAN"}
  <2>1. /\ \A m \in Node : t.run.node[m] = IF m \in N THEN "PENDING" ELSE w.run.node[m]
        /\ t.run.open = w.run.open \ D
    BY DecodingLess
  <2> HIDE DEF t
  <2>2. NodesAreAsked(t.run)
    BY <2>1 DEF NodesAreAsked
  <2> QED
    BY <2>2 DEF t
<1>3. NodesAreAsked(MalformedOutputs(w).run)
  <2> DEFINE t == MalformedOutputs(w)
             N == {n \in w.plan.output : w.run.node[n] = "FAILED"}
  <2>1. /\ \A m \in Node : t.run.node[m] = IF m \in N THEN "PENDING" ELSE w.run.node[m]
        /\ t.run.open = w.run.open
    BY MalformedLess
  <2> HIDE DEF t, N
  <2>2. NodesAreAsked(t.run)
    BY <2>1 DEF NodesAreAsked
  <2> QED
    BY <2>2 DEF t
<1>4. NodesAreAsked(Replan(w).run)
  BY ReplanLess DEF NodesAreAsked
<1> QED
  BY <1>1, <1>2, <1>3, <1>4

LEMMA RepairAsks ==
  ASSUME NEW r \in PlanningRun, NEW p \in Plan, NodesAreAsked(r), NEW w, RepairedWork(r, p, w)
  PROVE  NodesAreAsked(w.run)
<1> PICK recovery \in {"none", "current", "fresh"}, preserved \in BOOLEAN :
      w = RepairStructuredGeneration(r, p, recovery, preserved)
  BY DEF RepairedWork
<1> DEFINE w0 == [run |-> r, plan |-> p, repaired |-> {}]
           w1 == RetireSkeleton(w0, recovery)
           w2 == RetireCandidate(w1)
           w3 == RefinementDecisions(w2)
           w4 == DiscoveryDecisions(w3)
           w5 == RetireRoutes(w4)
           w6 == FeasibilityDecisions(w5, preserved)
           w7 == SemanticDecisions(w6)
           w8 == UnsuitableCandidate(w7)
           w9 == DecodingDecisions(w8)
           w10 == MalformedOutputs(w9)
           w11 == RevalidateSelection(w10)
<1>0. w = Replan(w11)
  BY DEF RepairStructuredGeneration
<1>a. w0 \in RepairWork /\ NodesAreAsked(w0.run)
  BY DEF RepairWork
<1> HIDE DEF w0
<1>1. w1 \in RepairWork /\ NodesAreAsked(w1.run)
  BY <1>a, RetireSkeletonLess, RetiringAsks
<1> HIDE DEF w1
<1>2. w2 \in RepairWork /\ NodesAreAsked(w2.run)
  BY <1>1, RetireCandidateLess, RetiringAsks
<1> HIDE DEF w2
<1>3. w3 \in RepairWork /\ NodesAreAsked(w3.run)
  BY <1>2, RefinementLess, ClosingAsks
<1> HIDE DEF w3
<1>4. w4 \in RepairWork /\ NodesAreAsked(w4.run)
  BY <1>3, DiscoveryLess, ClosingAsks
<1> HIDE DEF w4
<1>5. w5 \in RepairWork /\ NodesAreAsked(w5.run)
  BY <1>4, RetireRoutesLess, RetiringAsks
<1> HIDE DEF w5
<1>6. w6 \in RepairWork /\ NodesAreAsked(w6.run)
  BY <1>5, FeasibilityLess, ClosingAsks
<1> HIDE DEF w6
<1>7. w7 \in RepairWork /\ NodesAreAsked(w7.run)
  BY <1>6, SemanticLess, ClosingAsks
<1> HIDE DEF w7
<1>8. w8 \in RepairWork /\ NodesAreAsked(w8.run)
  BY <1>7, UnsuitableLess, RequeueingAsks
<1> HIDE DEF w8
<1>9. w9 \in RepairWork /\ NodesAreAsked(w9.run)
  BY <1>8, DecodingLess, RequeueingAsks
<1> HIDE DEF w9
<1>10. w10 \in RepairWork /\ NodesAreAsked(w10.run)
  BY <1>9, MalformedLess, RequeueingAsks
<1> HIDE DEF w10
<1>11. w11 \in RepairWork /\ NodesAreAsked(w11.run)
  BY <1>10, RevalidateLess, RetiringAsks
<1> HIDE DEF w11
<1> QED
  BY <1>0, <1>11, RequeueingAsks

LEMMA StaleRoutingAsks ==
  ASSUME NEW r \in PlanningRun, NodesAreAsked(r)
  PROVE  NodesAreAsked(InvalidateStaleRouting(r))
<1> DEFINE t == InvalidateStaleRouting(r)
           O == StaleRoutingDecisions(r)
<1>1. /\ \A m \in Node : t.node[m] = IF m \in {d.node : d \in O} THEN "PENDING" ELSE r.node[m]
      /\ t.open = r.open \ O
  BY PlanningStaleRouting
<1> HIDE DEF t, O
<1> QED
  BY <1>1 DEF NodesAreAsked, t

LEMMA WaitingStep ==
  ASSUME PlanningTypeOK, WaitingNodeIsAsked, StepKind
  PROVE  WaitingNodeIsAsked'
<1> SUFFICES NodesAreAsked(run')
  BY DEF WaitingNodeIsAsked, NodesAreAsked
<1>0. run \in PlanningRun /\ planning \in Plan /\ NodesAreAsked(run)
  BY DEF PlanningTypeOK, WaitingNodeIsAsked, NodesAreAsked
<1>1. ASSUME NEW n \in Node, Asks(n) PROVE NodesAreAsked(run')
  BY <1>0, <1>1 DEF Asks, NodeBecomes, NodesAreAsked
<1>2. ASSUME NEW n \in Node, Completes(n) PROVE NodesAreAsked(run')
  BY <1>0, <1>2 DEF Completes, NodeBecomes, NodesAreAsked
<1>3. ASSUME NEW n \in Node, NEW s, StopsAt(n, s) PROVE NodesAreAsked(run')
  BY <1>0, <1>3 DEF StopsAt, NodeBecomes, NodesAreAsked
<1>4. ASSUME NEW d \in run.open, Answers(d) PROVE NodesAreAsked(run')
  BY <1>0, <1>4 DEF Answers, NodeBecomes, NodesAreAsked
<1>5. ASSUME NEW d \in run.open, Submits(d) PROVE NodesAreAsked(run')
  BY <1>0, <1>5 DEF Submits, NodesAreAsked
<1>6. ASSUME NEW withQuestion \in BOOLEAN, Reopens(withQuestion) PROVE NodesAreAsked(run')
  BY <1>0, <1>6 DEF Reopens, NodesAreAsked
<1>7. ASSUME Restores PROVE NodesAreAsked(run')
  BY <1>0, <1>7 DEF Restores, NodesAreAsked
<1>8. ASSUME NEW w, RepairsTo(w) PROVE NodesAreAsked(run')
  <2>1. PICK r \in {run, InvalidateStaleRouting(run)} : RepairedWork(r, planning, w)
    BY <1>8 DEF RepairsTo
  <2>2. r \in PlanningRun /\ NodesAreAsked(r)
    BY <1>0, PlanningStaleRouting, StaleRoutingAsks
  <2>3. NodesAreAsked(w.run)
    BY <1>0, <2>1, <2>2, RepairAsks
  <2> QED
    BY <1>8, <2>3 DEF RepairsTo
<1>9. ASSUME run' = run PROVE NodesAreAsked(run')
  BY <1>0, <1>9 DEF NodesAreAsked
<1>a. CASE \E n \in Node : Asks(n) \/ Completes(n) \/ StopsAt(n, "FAILED") \/ StopsAt(n, "BLOCKED_OTHER")
  BY <1>1, <1>2, <1>3, <1>a
<1>b. CASE \E d \in run.open : Answers(d) \/ Submits(d)
  BY <1>4, <1>5, <1>b
<1>c. CASE \E withQuestion \in BOOLEAN : Reopens(withQuestion)
  BY <1>6, <1>c
<1>d. CASE \E w : RepairsTo(w)
  BY <1>8, <1>d
<1> QED
  BY <1>7, <1>9, <1>a, <1>b, <1>c, <1>d DEF StepKind

LEMMA WaitingStart == RepairInit => WaitingNodeIsAsked
BY DEF RepairInit, CreateRunState, WaitingNodeIsAsked

LEMMA NodesWait == RepairSpec => []WaitingNodeIsAsked
<1>1. PlanningTypeOK /\ WaitingNodeIsAsked /\ [RepairNext]_repairVars => WaitingNodeIsAsked'
  BY PlanningStep, WaitingStep
<1> QED
  BY WaitingStart, <1>1, PlanningTyped, PTL DEF RepairSpec

-----------------------------------------------------------------------------
(***************************************************************************)
(* The questions of a run ask about the results in force, as long as no    *)
(* repair of the coverage restores a node without its decision.            *)
(*                                                                         *)
(* The planning nodes stand one behind the other: what is not PENDING has  *)
(* COMPLETED nodes before it.  The exception is the discovery, which an    *)
(* unsuitable candidate queues again alone; then there is no candidate,    *)
(* and the refinement does not ask.                                        *)
(***************************************************************************)
Pending(r, n) == r.node[n] = "PENDING"
Done(r, n) == r.node[n] = "COMPLETED"
Waiting(r, n) == r.node[n] = "WAITING_FOR_HUMAN"

InPlace(r, c) ==
  /\ ~ Pending(r, EvidenceDiscovery) /\ ~ Done(r, QuestionDiscovery) =>
        /\ Done(r, EvidenceDiscovery) /\ ~ c
        /\ r.node[QuestionRefinement] \in {"PENDING", "FAILED", "BLOCKED_OTHER"}
  /\ ~ Pending(r, QuestionRefinement) => Done(r, EvidenceDiscovery)
  /\ ~ Pending(r, Feasibility) => Done(r, QuestionRefinement)
  /\ \A n \in Downstream : ~ Pending(r, n) => Done(r, Feasibility)
  /\ Waiting(r, QuestionRefinement) => c
  /\ \A n \in Node : r.node[n] # "LEASED"

\* One decision about the planning results, whose node waits.
OneQuestion(r) ==
  /\ \A d \in r.open : d.node # EvidenceDiscovery => Waiting(r, d.node)
  /\ \A d, e \in r.open : d.node # EvidenceDiscovery /\ e.node # EvidenceDiscovery => d = e

RefinementOpen(r) == \E d \in r.open : d.node \in {QuestionRefinement, Feasibility}

\* A repair clears the status of the run at its end only.
Orderly(w) ==
  /\ InPlace(w.run, w.plan.candidate)
  /\ OneQuestion(w.run)
  /\ w.run.status = "WAITING_FOR_HUMAN" => w.run.open # {} \/ w.repaired # {}
  /\ RefinementOpen(w.run) => w.run.status = "WAITING_FOR_HUMAN" /\ w.repaired = {}

\* What stands before and behind a node.
LEMMA InPlaceParts ==
  ASSUME NEW r, NEW c, InPlace(r, c)
  PROVE  /\ ~ Done(r, Feasibility) => \A n \in Downstream : Pending(r, n)
         /\ ~ Done(r, QuestionRefinement) => Pending(r, Feasibility) /\ \A n \in Downstream : Pending(r, n)
         /\ ~ Done(r, EvidenceDiscovery) =>
              Pending(r, QuestionRefinement) /\ Pending(r, Feasibility) /\ \A n \in Downstream : Pending(r, n)
         /\ Waiting(r, QuestionRefinement) \/ Done(r, QuestionRefinement) \/ ~ Pending(r, Feasibility) =>
              Done(r, QuestionDiscovery) /\ Done(r, EvidenceDiscovery)
BY DEF InPlace, Pending, Done, Waiting

\* The nodes of N are queued again, and what is behind them is PENDING.
KeptInOrder(r, c, t, e, N) ==
  /\ \A m \in Node : t.node[m] = IF m \in N THEN "PENDING" ELSE r.node[m]
  /\ e => c
  /\ QuestionDiscovery \in N /\ Done(r, QuestionDiscovery) =>
       Pending(t, EvidenceDiscovery) \/ (Done(t, EvidenceDiscovery) /\ ~ e /\ Pending(t, QuestionRefinement))
  /\ EvidenceDiscovery \in N => Pending(t, QuestionRefinement)
  /\ QuestionRefinement \in N => Pending(t, Feasibility)
  /\ Feasibility \in N => \A n \in Downstream : Pending(t, n)
  /\ c /\ ~ e => ~ Waiting(t, QuestionRefinement)

LEMMA InPlaceReopened ==
  ASSUME NEW r, NEW t, NEW c \in BOOLEAN, NEW e \in BOOLEAN, NEW N, InPlace(r, c), KeptInOrder(r, c, t, e, N)
  PROVE  InPlace(t, e)
<1>0. /\ \A m \in Node : t.node[m] = IF m \in N THEN "PENDING" ELSE r.node[m]
      /\ e => c
      /\ QuestionDiscovery \in N /\ Done(r, QuestionDiscovery) =>
           Pending(t, EvidenceDiscovery) \/ (Done(t, EvidenceDiscovery) /\ ~ e /\ Pending(t, QuestionRefinement))
      /\ EvidenceDiscovery \in N => Pending(t, QuestionRefinement)
      /\ QuestionRefinement \in N => Pending(t, Feasibility)
      /\ Feasibility \in N => \A n \in Downstream : Pending(t, n)
      /\ c /\ ~ e => ~ Waiting(t, QuestionRefinement)
  BY DEF KeptInOrder
<1> USE <1>0, PlanningNames
<1>1. \A m \in Node : ~ Pending(t, m) => m \notin N /\ t.node[m] = r.node[m] /\ ~ Pending(r, m)
  BY DEF Pending
<1>2. ASSUME ~ Pending(t, EvidenceDiscovery), ~ Done(t, QuestionDiscovery)
      PROVE  /\ Done(t, EvidenceDiscovery) /\ ~ e
             /\ t.node[QuestionRefinement] \in {"PENDING", "FAILED", "BLOCKED_OTHER"}
  <2>1. CASE QuestionDiscovery \in N /\ Done(r, QuestionDiscovery)
    BY <1>2, <2>1 DEF Pending
  <2>2. CASE ~ (QuestionDiscovery \in N /\ Done(r, QuestionDiscovery))
    <3>1. ~ Done(r, QuestionDiscovery)
      BY <1>2, <2>2 DEF Done
    <3>2. /\ Done(r, EvidenceDiscovery) /\ ~ c
          /\ r.node[QuestionRefinement] \in {"PENDING", "FAILED", "BLOCKED_OTHER"}
      BY <1>1, <1>2, <3>1 DEF InPlace
    <3> QED
      BY <1>1, <1>2, <3>2 DEF Done
  <2> QED
    BY <2>1, <2>2
<1>3. ~ Pending(t, QuestionRefinement) => Done(t, EvidenceDiscovery)
  BY <1>1 DEF InPlace, Done
<1>4. ~ Pending(t, Feasibility) => Done(t, QuestionRefinement)
  BY <1>1 DEF InPlace, Done
<1>5. \A n \in Downstream : ~ Pending(t, n) => Done(t, Feasibility)
  BY <1>1 DEF InPlace, Done
<1>6. Waiting(t, QuestionRefinement) => e
  <2> SUFFICES ASSUME Waiting(t, QuestionRefinement) PROVE c
    OBVIOUS
  <2>1. Waiting(r, QuestionRefinement)
    BY <1>1 DEF Waiting, Pending
  <2> QED
    BY <2>1 DEF InPlace
<1>7. \A n \in Node : t.node[n] # "LEASED"
  BY DEF InPlace
<1> QED
  BY <1>2, <1>3, <1>4, <1>5, <1>6, <1>7 DEF InPlace

\* What a pass may do to the decisions.
LEMMA PassOrderly ==
  ASSUME NEW w \in RepairWork, NEW t \in RepairWork, Orderly(w),
         t.run.open \subseteq w.run.open,
         t.run.status = w.run.status \/ (t.run.open = {} /\ t.run.status = "PLANNED_RESEARCH"),
         w.repaired \subseteq t.repaired,
         t.run.open # w.run.open => t.repaired # {},
         t.repaired # w.repaired => ~ RefinementOpen(t.run),
         \A d \in t.run.open : d.node # EvidenceDiscovery => t.run.node[d.node] = w.run.node[d.node],
         InPlace(t.run, t.plan.candidate)
  PROVE  Orderly(t)
<1>1. OneQuestion(t.run)
  BY DEF Orderly, OneQuestion, Waiting
<1>2. t.run.status = "WAITING_FOR_HUMAN" => t.run.open # {} \/ t.repaired # {}
  BY DEF Orderly
<1>3. RefinementOpen(t.run) => RefinementOpen(w.run) /\ t.run.open # {} /\ t.repaired = w.repaired
  BY DEF RefinementOpen
<1>4. RefinementOpen(t.run) => t.run.status = "WAITING_FOR_HUMAN" /\ t.repaired = {}
  BY <1>3 DEF Orderly
<1> QED
  BY <1>1, <1>2, <1>4 DEF Orderly

\* The order does not depend on the results, the candidate excepted.
LEMMA SameOrderly ==
  ASSUME NEW w, NEW t, Orderly(w), t.run.node = w.run.node, t.run.open = w.run.open,
         t.run.status = w.run.status, t.plan.candidate = w.plan.candidate, t.repaired = w.repaired
  PROVE  Orderly(t)
BY DEF Orderly, InPlace, OneQuestion, RefinementOpen, Pending, Done, Waiting

-----------------------------------------------------------------------------
(* A node is queued again with its dependents. *)

LEMMA MarkedParts ==
  ASSUME NEW x \in RepairWork, NEW n \in Node, \A m \in Node : x.run.node[m] # "LEASED"
  PROVE  LET t == MarkDependents(x, n) IN
         /\ t \in RepairWork
         /\ \A m \in Node : t.run.node[m] = IF m \in Dependents[n] THEN "PENDING" ELSE x.run.node[m]
         /\ t.run.open \subseteq x.run.open
         /\ x.run.status = "WAITING_FOR_HUMAN" =>
              \A d \in t.run.open : d.node \in Dependents[n] => Pending(x.run, d.node)
         /\ t.run.open # x.run.open => \E m \in Dependents[n] : ~ Pending(x.run, m)
         /\ t.run.status = x.run.status \/ (t.run.open = {} /\ t.run.status = "PLANNED_RESEARCH")
         /\ t.plan.candidate = x.plan.candidate /\ t.repaired = x.repaired
<1> DEFINE t == MarkDependents(x, n)
           N == Advanced(x, n)
<1>1. /\ t \in RepairWork
      /\ \A m \in Node : t.run.node[m] = IF m \in N THEN "PENDING" ELSE x.run.node[m]
      /\ \/ /\ N # {} /\ x.run.status = "WAITING_FOR_HUMAN"
            /\ t.run.open = {d \in x.run.open : d.node \notin N}
         \/ /\ ~ (N # {} /\ x.run.status = "WAITING_FOR_HUMAN")
            /\ t.run.open = x.run.open
      /\ t.run.status = x.run.status \/ (t.run.open = {} /\ t.run.status = "PLANNED_RESEARCH")
      /\ t.repaired = x.repaired
  BY MarkParts
<1>2. t.plan.candidate = x.plan.candidate
  <2>1. t.plan = [x.plan EXCEPT !.output = @ \ N]
    BY MarkParts
  <2> HIDE DEF t, N
  <2> QED
    BY <2>1, WorkParts DEF Plan
<1>3. \A m : m \in N <=> m \in Dependents[n] /\ ~ Pending(x.run, m)
  <2>1. Dependents[n] \subseteq Node
    BY DEF Dependents
  <2> QED
    BY <2>1 DEF Advanced, Pending
<1> HIDE DEF t, N
<1>4. \A m \in Node : t.run.node[m] = IF m \in Dependents[n] THEN "PENDING" ELSE x.run.node[m]
  BY <1>1, <1>3 DEF Pending
<1>5. x.run.status = "WAITING_FOR_HUMAN" =>
        \A d \in t.run.open : d.node \in Dependents[n] => Pending(x.run, d.node)
  BY <1>1, <1>3
<1>6. t.run.open # x.run.open => \E m \in Dependents[n] : ~ Pending(x.run, m)
  BY <1>1, <1>3
<1> QED
  BY <1>1, <1>2, <1>4, <1>5, <1>6 DEF t

\* Of a chain node n, that no decision is open about, nor about the one before it.
LEMMA RequeueOrderly ==
  ASSUME NEW w \in RepairWork, Orderly(w), NEW n \in {QuestionDiscovery, QuestionRefinement, Feasibility},
         NEW x \in RepairWork,
         \A m \in Node : x.run.node[m] = IF m = n THEN "PENDING" ELSE w.run.node[m],
         x.run.open = w.run.open, x.run.status = w.run.status, x.repaired = w.repaired \cup {n},
         x.plan.candidate => w.plan.candidate,
         n # QuestionDiscovery => x.plan.candidate = w.plan.candidate,
         \A d \in w.run.open : d.node # n,
         n = Feasibility => \A d \in w.run.open : d.node # QuestionRefinement
  PROVE  Orderly(MarkDependents(x, n))
<1> DEFINE t == MarkDependents(x, n)
           N == {n} \cup Dependents[n]
<1>a. /\ QuestionDiscovery \in Node /\ EvidenceDiscovery \in Node
      /\ QuestionRefinement \in Node /\ Feasibility \in Node /\ Downstream \subseteq Node
      /\ QuestionDiscovery # EvidenceDiscovery /\ QuestionDiscovery # QuestionRefinement
      /\ QuestionDiscovery # Feasibility /\ EvidenceDiscovery # QuestionRefinement
      /\ EvidenceDiscovery # Feasibility /\ QuestionRefinement # Feasibility
      /\ Upstream = {QuestionDiscovery, EvidenceDiscovery, QuestionRefinement, Feasibility}
      /\ Upstream \cap Downstream = {}
  BY PlanningNames
<1>b. n \in Node
  BY <1>a
<1>1. InPlace(w.run, w.plan.candidate) /\ \A m \in Node : w.run.node[m] # "LEASED"
  BY DEF Orderly, InPlace
<1>2. \A m \in Node : x.run.node[m] # "LEASED"
  BY <1>1
<1>3. /\ t \in RepairWork
      /\ \A m \in Node : t.run.node[m] = IF m \in Dependents[n] THEN "PENDING" ELSE x.run.node[m]
      /\ t.run.open \subseteq x.run.open
      /\ x.run.status = "WAITING_FOR_HUMAN" =>
           \A d \in t.run.open : d.node \in Dependents[n] => Pending(x.run, d.node)
      /\ t.run.status = x.run.status \/ (t.run.open = {} /\ t.run.status = "PLANNED_RESEARCH")
      /\ t.plan.candidate = x.plan.candidate /\ t.repaired = x.repaired
  BY <1>b, <1>2, MarkedParts
<1> HIDE DEF t
<1>4. \A m \in Node : t.run.node[m] = IF m \in N THEN "PENDING" ELSE w.run.node[m]
  BY <1>3
<1>5. \A d \in w.run.open : d.node \in Upstream /\ d.node \in Node
  BY WorkParts, QuestionParts
<1>6. ~ RefinementOpen(t.run)
  <2> SUFFICES ASSUME NEW d \in t.run.open, d.node \in {QuestionRefinement, Feasibility}
               PROVE  FALSE
    BY DEF RefinementOpen
  <2>1. d \in w.run.open /\ d.node # n
    BY <1>3
  <2>2. w.run.status = "WAITING_FOR_HUMAN" /\ ~ Pending(w.run, d.node)
    BY <1>a, <2>1 DEF Orderly, RefinementOpen, OneQuestion, Waiting, Pending
  <2>3. d.node \notin Dependents[n]
    BY <1>3, <1>5, <2>1, <2>2 DEF Pending
  <2> QED
    BY <1>a, <2>1, <2>3, PlanningDependents
<1>7. \A d \in t.run.open : d.node # EvidenceDiscovery => t.run.node[d.node] = w.run.node[d.node]
  <2> SUFFICES ASSUME NEW d \in t.run.open, d.node # EvidenceDiscovery
               PROVE  t.run.node[d.node] = w.run.node[d.node]
    OBVIOUS
  <2>1. d \in w.run.open /\ d.node = QuestionDiscovery
    BY <1>3, <1>5, <1>6, <1>a DEF RefinementOpen
  <2>2. QuestionDiscovery \notin N
    BY <1>a, <2>1, PlanningDependents
  <2> QED
    BY <1>4, <1>a, <2>1, <2>2
<1>8. InPlace(t.run, t.plan.candidate)
  <2>1. /\ n = QuestionDiscovery => EvidenceDiscovery \in N /\ QuestionRefinement \in N
        /\ QuestionRefinement \in N => Feasibility \in N
        /\ EvidenceDiscovery \in N => QuestionRefinement \in N
        /\ QuestionDiscovery \in N => n = QuestionDiscovery
        /\ Feasibility \in N => Downstream \subseteq N
    BY <1>a, PlanningDependents
  <2>2. w.plan.candidate \in BOOLEAN /\ t.plan.candidate \in BOOLEAN
    BY <1>3, WorkParts DEF Plan
  <2> HIDE DEF N
  <2>3. \A m \in Node \cap N : Pending(t.run, m)
    BY <1>4 DEF Pending
  <2>4. /\ QuestionDiscovery \in N => Pending(t.run, EvidenceDiscovery)
        /\ EvidenceDiscovery \in N => Pending(t.run, QuestionRefinement)
        /\ QuestionRefinement \in N => Pending(t.run, Feasibility)
        /\ Feasibility \in N => \A m \in Downstream : Pending(t.run, m)
    BY <1>a, <2>1, <2>3
  <2>5. w.plan.candidate /\ ~ t.plan.candidate => ~ Waiting(t.run, QuestionRefinement)
    BY <1>a, <1>3, <2>1, <2>3 DEF Waiting, Pending
  <2> DEFINE r == w.run
             s == t.run
             c == w.plan.candidate
             e == t.plan.candidate
  <2>6. /\ c \in BOOLEAN /\ e \in BOOLEAN /\ (e => c) /\ InPlace(r, c)
        /\ \A m \in Node : s.node[m] = IF m \in N THEN "PENDING" ELSE r.node[m]
    BY <1>1, <1>3, <1>4, <2>2
  <2>7. /\ QuestionDiscovery \in N /\ Done(r, QuestionDiscovery) =>
             Pending(s, EvidenceDiscovery) \/ (Done(s, EvidenceDiscovery) /\ ~ e /\ Pending(s, QuestionRefinement))
        /\ EvidenceDiscovery \in N => Pending(s, QuestionRefinement)
        /\ QuestionRefinement \in N => Pending(s, Feasibility)
        /\ Feasibility \in N => \A m \in Downstream : Pending(s, m)
        /\ c /\ ~ e => ~ Waiting(s, QuestionRefinement)
    BY <2>4, <2>5
  <2>9. KeptInOrder(r, c, s, e, N)
    BY <2>6, <2>7 DEF KeptInOrder
  <2> HIDE DEF r, s, c, e
  <2>8. InPlace(s, e)
    BY <2>6, <2>9, InPlaceReopened
  <2> QED
    BY <2>8 DEF s, e
<1>9. Orderly(t)
  BY <1>3, <1>6, <1>7, <1>8, PassOrderly
<1> QED
  BY <1>9 DEF t

-----------------------------------------------------------------------------
(* The order through the passes. *)

\* A record of which only the plan was replaced.
LEMMA ReplannedParts ==
  ASSUME NEW w \in RepairWork, NEW p \in Plan
  PROVE  LET v == [w EXCEPT !.plan = p] IN
         v \in RepairWork /\ v.run = w.run /\ v.plan = p /\ v.repaired = w.repaired
BY DEF RepairWork

LEMMA ResetRun ==
  ASSUME NEW w \in RepairWork, NEW n \in Node
  PROVE  LET t == Reset(w, n) IN
         /\ t \in RepairWork
         /\ \A m \in Node : t.run.node[m] = IF m = n THEN "PENDING" ELSE w.run.node[m]
         /\ t.run.open = w.run.open /\ t.run.status = w.run.status
         /\ t.plan.candidate = w.plan.candidate /\ t.repaired = w.repaired \cup {n}
<1> DEFINE t == Reset(w, n)
<1>1. t.plan.candidate = w.plan.candidate
  <2>1. t.plan = [w.plan EXCEPT !.output = @ \ {n}]
    BY ResetParts
  <2> HIDE DEF t
  <2> QED
    BY <2>1, WorkParts DEF Plan
<1> QED
  BY <1>1, ResetParts

LEMMA ClearRun ==
  ASSUME NEW w \in RepairWork
  PROVE  LET t == ClearOutputs(w, QuestionRefinement) IN
         /\ t \in RepairWork
         /\ t.run.node = w.run.node /\ t.run.open = w.run.open /\ t.run.status = w.run.status
         /\ t.plan.candidate = w.plan.candidate /\ t.repaired = w.repaired
<1> DEFINE t == ClearOutputs(w, QuestionRefinement)
<1>1. t.plan.candidate = w.plan.candidate
  <2>1. t.plan = [w.plan EXCEPT !.stale = @ \ {"selection"}]
    BY ClearParts
  <2> HIDE DEF t
  <2> QED
    BY <2>1, WorkParts DEF Plan
<1> QED
  BY <1>1, ClearParts

LEMMA RetireSkeletonOrderly ==
  ASSUME NEW w \in RepairWork, Orderly(w), NEW recovery \in {"none", "current", "fresh"}
  PROVE  Orderly(RetireSkeleton(w, recovery))
<1> DEFINE x == w.plan.stale \ {"skeleton"}
           y == IF recovery = "none" THEN w.plan.recovery ELSE recovery
           z == IF recovery = "fresh" THEN 0 ELSE w.plan.fresh
           p == [w.plan EXCEPT !.skeleton = FALSE, !.stale = x, !.recovery = y, !.fresh = z]
           v == [w EXCEPT !.plan = p]
           a == ClearOutputs(v, QuestionRefinement)
           b == Reset(a, QuestionRefinement)
           c == MarkDependents(b, QuestionRefinement)
<1>1. RetireSkeleton(w, recovery) = IF SkeletonKept(w) THEN w ELSE c
  BY DEF RetireSkeleton, SkeletonKept
<1>2. p \in Plan /\ p.candidate = w.plan.candidate
  <2>1. w.plan \in Plan
    BY WorkParts
  <2>2. x \in SUBSET PlanningResults /\ y \in {"none", "current", "fresh"} /\ z \in 0..1
    BY <2>1 DEF Plan
  <2> HIDE DEF x, y, z
  <2> QED
    BY <2>1, <2>2 DEF Plan
<1> HIDE DEF p
<1>3. v \in RepairWork /\ v.run = w.run /\ v.plan = p /\ v.repaired = w.repaired
  BY <1>2, ReplannedParts
<1> HIDE DEF v
<1>4. /\ a \in RepairWork
      /\ a.run.node = v.run.node /\ a.run.open = v.run.open /\ a.run.status = v.run.status
      /\ a.plan.candidate = v.plan.candidate /\ a.repaired = v.repaired
  BY <1>3, ClearRun
<1> HIDE DEF a
<1>5. /\ b \in RepairWork
      /\ \A m \in Node : b.run.node[m] = IF m = QuestionRefinement THEN "PENDING" ELSE a.run.node[m]
      /\ b.run.open = a.run.open /\ b.run.status = a.run.status
      /\ b.plan.candidate = a.plan.candidate /\ b.repaired = a.repaired \cup {QuestionRefinement}
  BY <1>4, ResetRun, PlanningNames
<1> HIDE DEF b
<1>6. ASSUME ~ SkeletonKept(w) PROVE Orderly(c)
  <2>1. Done(w.run, QuestionRefinement)
    BY <1>6 DEF SkeletonKept, Done
  <2>2. \A d \in w.run.open : d.node # QuestionRefinement
    BY <2>1, PlanningNames DEF Orderly, OneQuestion, Waiting, Done
  <2> QED
    BY <1>2, <1>3, <1>4, <1>5, <2>2, RequeueOrderly, PlanningNames
<1> QED
  BY <1>1, <1>6

LEMMA RetireCandidateOrderly ==
  ASSUME NEW w \in RepairWork, Orderly(w)
  PROVE  Orderly(RetireCandidate(w))
<1> DEFINE p == WithoutCandidate(w.plan)
           v == [w EXCEPT !.plan = p]
           b == Reset(v, QuestionDiscovery)
           c == MarkDependents(b, QuestionDiscovery)
<1>1. RetireCandidate(w) = IF CandidateKept(w) THEN w ELSE c
  BY DEF RetireCandidate, CandidateKept
<1>2. p \in Plan /\ p.candidate = FALSE
  BY WorkParts DEF Plan, WithoutCandidate
<1> HIDE DEF p
<1>3. v \in RepairWork /\ v.run = w.run /\ v.plan = p /\ v.repaired = w.repaired
  BY <1>2, ReplannedParts
<1> HIDE DEF v
<1>4. /\ b \in RepairWork
      /\ \A m \in Node : b.run.node[m] = IF m = QuestionDiscovery THEN "PENDING" ELSE v.run.node[m]
      /\ b.run.open = v.run.open /\ b.run.status = v.run.status
      /\ b.plan.candidate = v.plan.candidate /\ b.repaired = v.repaired \cup {QuestionDiscovery}
  BY <1>3, ResetRun, PlanningNames
<1> HIDE DEF b
<1>5. ASSUME ~ CandidateKept(w) PROVE Orderly(c)
  <2>1. Done(w.run, QuestionDiscovery)
    BY <1>5 DEF CandidateKept, Done
  <2>2. \A d \in w.run.open : d.node # QuestionDiscovery
    BY <2>1, PlanningNames DEF Orderly, OneQuestion, Waiting, Done
  <2> QED
    BY <1>2, <1>3, <1>4, <2>2, RequeueOrderly, PlanningNames
<1> QED
  BY <1>1, <1>5

LEMMA RetireRoutesOrderly ==
  ASSUME NEW w \in RepairWork, Orderly(w)
  PROVE  Orderly(RetireRoutes(w))
<1> DEFINE b == Reset(w, Feasibility)
           c == MarkDependents(b, Feasibility)
<1>1. RetireRoutes(w) = IF RoutesKept(w) THEN w ELSE c
  BY DEF RetireRoutes, RoutesKept
<1>2. /\ b \in RepairWork
      /\ \A m \in Node : b.run.node[m] = IF m = Feasibility THEN "PENDING" ELSE w.run.node[m]
      /\ b.run.open = w.run.open /\ b.run.status = w.run.status
      /\ b.plan.candidate = w.plan.candidate /\ b.repaired = w.repaired \cup {Feasibility}
  BY ResetRun, PlanningNames
<1> HIDE DEF b
<1>3. ASSUME ~ RoutesKept(w) PROVE Orderly(c)
  <2>1. Done(w.run, Feasibility)
    BY <1>3 DEF RoutesKept, Done
  <2>2. Done(w.run, QuestionRefinement)
    BY <2>1 DEF Orderly, InPlace, Pending, Done
  <2>3. \A d \in w.run.open : d.node # QuestionRefinement /\ d.node # Feasibility
    BY <2>1, <2>2, PlanningNames DEF Orderly, OneQuestion, Waiting, Done
  <2> QED
    BY <1>2, <2>3, RequeueOrderly, PlanningNames
<1> QED
  BY <1>1, <1>3

\* A decision about a planning node is the only one.
LEMMA AskedAlone ==
  ASSUME NEW w \in RepairWork, Orderly(w), NEW d \in w.run.open, d.node # EvidenceDiscovery
  PROVE  /\ Waiting(w.run, d.node)
         /\ \A e \in w.run.open : e # d => e.node = EvidenceDiscovery
BY DEF Orderly, OneQuestion

\* A record without a decision about a planning result.
LEMMA UnaskedOrderly ==
  ASSUME NEW w \in RepairWork, NEW t \in RepairWork, Orderly(w), t.run.open \subseteq w.run.open,
         t.run.status = w.run.status \/ (t.run.open = {} /\ t.run.status = "PLANNED_RESEARCH"),
         w.repaired \subseteq t.repaired, t.run.open # w.run.open => t.repaired # {},
         \A d \in t.run.open : d.node = EvidenceDiscovery,
         InPlace(t.run, t.plan.candidate)
  PROVE  Orderly(t)
<1>1. ~ RefinementOpen(t.run)
  BY PlanningNames DEF RefinementOpen
<1> QED
  BY <1>1, PassOrderly

LEMMA RetryOrderly ==
  ASSUME NEW w \in RepairWork, Orderly(w), NEW n \in {QuestionDiscovery, QuestionRefinement, Feasibility},
         NEW causes
  PROVE  /\ n # QuestionDiscovery => Orderly(Retry(w, n, causes))
         /\ Orderly(RetryWithDependents(w, n, causes))
<1> DEFINE D == Asked(w, n, causes)
           t == Reset(w, n)
           u == MarkDependents(t, n)
           a == Invalidate(t, D)
           b == Invalidate(u, D)
<1>a. /\ QuestionDiscovery \in Node /\ EvidenceDiscovery \in Node
      /\ QuestionRefinement \in Node /\ Feasibility \in Node /\ Downstream \subseteq Node
      /\ QuestionDiscovery # EvidenceDiscovery /\ QuestionDiscovery # QuestionRefinement
      /\ QuestionDiscovery # Feasibility /\ EvidenceDiscovery # QuestionRefinement
      /\ EvidenceDiscovery # Feasibility /\ QuestionRefinement # Feasibility
      /\ Upstream \cap Downstream = {}
      /\ Upstream = {QuestionDiscovery, EvidenceDiscovery, QuestionRefinement, Feasibility}
  BY PlanningNames
<1>b. n \in Node /\ n # EvidenceDiscovery
  BY <1>a
<1>1. Retry(w, n, causes) = IF D = {} THEN w ELSE a
  BY DEF Retry
<1>2. RetryWithDependents(w, n, causes) = IF D = {} THEN w ELSE b
  BY DEF RetryWithDependents
<1> SUFFICES ASSUME D # {}
             PROVE  (n # QuestionDiscovery => Orderly(a)) /\ Orderly(b)
  BY <1>1, <1>2
<1>3. PICK d \in w.run.open : d \in D /\ d.node = n
  BY DEF Asked
<1>4. Waiting(w.run, n) /\ \A e \in w.run.open \ D : e.node = EvidenceDiscovery
  BY <1>b, <1>3, AskedAlone
<1> HIDE DEF D
<1>5. InPlace(w.run, w.plan.candidate) /\ \A m \in Node : w.run.node[m] # "LEASED"
  BY DEF Orderly, InPlace
<1>6. /\ t \in RepairWork
      /\ \A m \in Node : t.run.node[m] = IF m = n THEN "PENDING" ELSE w.run.node[m]
      /\ t.run.open = w.run.open /\ t.run.status = w.run.status
      /\ t.plan.candidate = w.plan.candidate /\ t.repaired = w.repaired \cup {n}
  BY <1>b, ResetRun
<1> HIDE DEF t
<1>7. \A m \in Node : t.run.node[m] # "LEASED"
  BY <1>5, <1>6
<1>8. /\ u \in RepairWork
      /\ \A m \in Node : u.run.node[m] = IF m \in Dependents[n] THEN "PENDING" ELSE t.run.node[m]
      /\ u.run.open \subseteq t.run.open
      /\ u.run.status = t.run.status \/ (u.run.open = {} /\ u.run.status = "PLANNED_RESEARCH")
      /\ u.plan.candidate = t.plan.candidate /\ u.repaired = t.repaired
  BY <1>b, <1>6, <1>7, MarkedParts
<1> HIDE DEF u
<1>9. /\ a \in RepairWork /\ a.run.open = t.run.open \ D /\ a.run.node = t.run.node
      /\ a.run.status = t.run.status /\ a.plan = t.plan /\ a.repaired = t.repaired
  BY <1>6, InvalidateParts
<1>10. /\ b \in RepairWork /\ b.run.open = u.run.open \ D /\ b.run.node = u.run.node
       /\ b.run.status = u.run.status /\ b.plan = u.plan /\ b.repaired = u.repaired
  BY <1>8, InvalidateParts
<1> HIDE DEF a, b
<1>11. w.plan.candidate \in BOOLEAN
  BY WorkParts DEF Plan
<1> DEFINE r == w.run
           c == w.plan.candidate
<1>12. InPlace(r, c) /\ c \in BOOLEAN /\ Waiting(r, n)
  BY <1>4, <1>5, <1>11
<1>13. n # QuestionDiscovery => InPlace(a.run, a.plan.candidate)
  <2> SUFFICES ASSUME n # QuestionDiscovery PROVE InPlace(a.run, a.plan.candidate)
    OBVIOUS
  <2> DEFINE N == {n}
             s == a.run
  <2>1. \A m \in Node : s.node[m] = IF m \in N THEN "PENDING" ELSE r.node[m]
    BY <1>6, <1>9
  <2>2. /\ n = QuestionRefinement => Pending(r, Feasibility)
        /\ n = Feasibility => \A m \in Downstream : Pending(r, m)
    BY <1>a, <1>12, InPlaceParts DEF Waiting, Done
  <2> HIDE DEF r, c, s
  <2>3. KeptInOrder(r, c, s, c, N)
    BY <1>a, <2>1, <2>2 DEF KeptInOrder, Pending
  <2> HIDE DEF N
  <2>4. InPlace(s, c)
    BY <1>12, <2>3, InPlaceReopened
  <2> QED
    BY <1>6, <1>9, <2>4 DEF s, c
<1>14. InPlace(b.run, b.plan.candidate)
  <2> DEFINE N == {n} \cup Dependents[n]
             s == b.run
  <2>1. \A m \in Node : s.node[m] = IF m \in N THEN "PENDING" ELSE r.node[m]
    BY <1>6, <1>8, <1>10
  <2>2. /\ QuestionDiscovery \in N => EvidenceDiscovery \in N /\ QuestionRefinement \in N
        /\ QuestionRefinement \in N => Feasibility \in N
        /\ EvidenceDiscovery \in N => QuestionRefinement \in N
        /\ Feasibility \in N => Downstream \subseteq N
    BY <1>a, PlanningDependents
  <2> HIDE DEF r, c, s, N
  <2>3. KeptInOrder(r, c, s, c, N)
    BY <1>a, <2>1, <2>2 DEF KeptInOrder, Pending
  <2>4. InPlace(s, c)
    BY <1>12, <2>3, InPlaceReopened
  <2> QED
    BY <1>6, <1>8, <1>10, <2>4 DEF s, c
<1>15. n # QuestionDiscovery => Orderly(a)
  BY <1>4, <1>6, <1>9, <1>13, UnaskedOrderly
<1>16. Orderly(b)
  BY <1>4, <1>6, <1>8, <1>10, <1>14, UnaskedOrderly
<1> QED
  BY <1>15, <1>16

LEMMA ClearOrderly ==
  ASSUME NEW w \in RepairWork, Orderly(w)
  PROVE  Orderly(ClearOutputs(w, QuestionRefinement))
BY ClearRun, SameOrderly

LEMMA DecisionsOrderly ==
  ASSUME NEW w \in RepairWork, Orderly(w)
  PROVE  /\ Orderly(RefinementDecisions(w))
         /\ Orderly(DiscoveryDecisions(w))
         /\ \A preserved \in BOOLEAN : Orderly(FeasibilityDecisions(w, preserved))
         /\ Orderly(SemanticDecisions(w))
<1>a. /\ QuestionDiscovery \in Node /\ QuestionRefinement \in Node /\ Feasibility \in Node
      /\ QuestionRefinement # QuestionDiscovery /\ Feasibility # QuestionDiscovery
  BY PlanningNames
<1>1. Orderly(RefinementDecisions(w))
  <2> DEFINE again == Asked(w, QuestionRefinement, {"FRESH"}) # {}
             reselect == Asked(w, QuestionRefinement, {"RESELECT"}) # {}
             restart == Asked(w, QuestionRefinement, {"FIELD"}) # {}
             t == RetryWithDependents(w, QuestionRefinement, {"FIELD", "MEASUREMENT"})
             u == Retry(t, QuestionRefinement, {"FRESH", "RESELECT", "TYPED"})
             y == IF again \/ reselect THEN "current" ELSE IF restart THEN "fresh" ELSE u.plan.recovery
             z == IF restart \/ again THEN 0 ELSE u.plan.fresh
             p == [u.plan EXCEPT !.recovery = y, !.fresh = z]
             v == [u EXCEPT !.plan = p]
  <2>1. RefinementDecisions(w) = v
    BY DEF RefinementDecisions
  <2>2. t \in RepairWork /\ Orderly(t)
    BY <1>a, RetryLess, RetryOrderly
  <2> HIDE DEF t
  <2>3. u \in RepairWork /\ Orderly(u)
    BY <1>a, <2>2, RetryLess, RetryOrderly
  <2> HIDE DEF u
  <2>4. p \in Plan /\ p.candidate = u.plan.candidate
    <3>1. u.plan \in Plan
      BY <2>3, WorkParts
    <3>2. y \in {"none", "current", "fresh"} /\ z \in 0..1
      BY <3>1 DEF Plan
    <3> HIDE DEF y, z
    <3> QED
      BY <3>1, <3>2 DEF Plan
  <2> HIDE DEF p
  <2>5. v.run = u.run /\ v.plan = p /\ v.repaired = u.repaired
    BY <2>3, <2>4, ReplannedParts
  <2> HIDE DEF v
  <2>6. Orderly(v)
    BY <2>3, <2>4, <2>5, SameOrderly
  <2> QED
    BY <2>1, <2>6
<1>2. Orderly(DiscoveryDecisions(w))
  BY <1>a, RetryOrderly DEF DiscoveryDecisions
<1>3. ASSUME NEW preserved \in BOOLEAN
      PROVE  Orderly(FeasibilityDecisions(w, preserved))
  <2> DEFINE C == {"INCOMPLETE"} \cup (IF preserved THEN {"FIT"} ELSE {})
             a == RetryWithDependents(w, Feasibility, {"ROUTING"})
  <2>1. FeasibilityDecisions(w, preserved) = Retry(a, Feasibility, C)
    BY DEF FeasibilityDecisions
  <2>2. a \in RepairWork /\ Orderly(a)
    BY <1>a, RetryLess, RetryOrderly
  <2> HIDE DEF a, C
  <2> QED
    BY <1>a, <2>1, <2>2, RetryOrderly
<1>4. Orderly(SemanticDecisions(w))
  <2> DEFINE a == Retry(w, QuestionRefinement, {"SEMANTIC", "MEASUREMENT"})
             c == ClearOutputs(a, QuestionRefinement)
  <2>1. SemanticDecisions(w) \in {w, c}
    BY DEF SemanticDecisions
  <2>2. a \in RepairWork /\ Orderly(a)
    BY <1>a, RetryLess, RetryOrderly
  <2> HIDE DEF a
  <2>3. Orderly(c)
    BY <2>2, ClearOrderly
  <2> HIDE DEF c
  <2> QED
    BY <2>1, <2>3
<1> QED
  BY <1>1, <1>2, <1>3, <1>4

\* Two nodes queued again, one after the other.
QueuedAgain(w, t, N) ==
  /\ t \in RepairWork
  /\ \A m \in Node : t.run.node[m] = IF m \in N THEN "PENDING" ELSE w.run.node[m]
  /\ t.run.open = w.run.open /\ t.run.status = w.run.status
  /\ t.plan.candidate = w.plan.candidate /\ t.repaired = w.repaired \cup N

LEMMA ResetOnce ==
  ASSUME NEW w \in RepairWork, NEW n \in Node
  PROVE  QueuedAgain(w, Reset(w, n), {n})
BY ResetRun DEF QueuedAgain

LEMMA QueuedTwice ==
  ASSUME NEW w, NEW t, NEW u, NEW N, NEW M, QueuedAgain(w, t, N), QueuedAgain(t, u, M)
  PROVE  QueuedAgain(w, u, N \cup M)
<1>1. \A m \in Node : u.run.node[m] = IF m \in N \cup M THEN "PENDING" ELSE w.run.node[m]
  BY DEF QueuedAgain
<1>2. u.repaired = w.repaired \cup (N \cup M)
  BY DEF QueuedAgain
<1> QED
  BY <1>1, <1>2 DEF QueuedAgain

LEMMA ResetTwice ==
  ASSUME NEW w \in RepairWork, NEW n \in Node, NEW k \in Node
  PROVE  QueuedAgain(w, Reset(Reset(w, n), k), {n, k})
<1> DEFINE a == Reset(w, n)
<1>1. QueuedAgain(w, a, {n}) /\ a \in RepairWork
  BY ResetOnce DEF QueuedAgain
<1> HIDE DEF a
<1>2. QueuedAgain(a, Reset(a, k), {k})
  BY <1>1, ResetOnce
<1>3. QueuedAgain(w, Reset(a, k), {n} \cup {k})
  BY <1>1, <1>2, QueuedTwice
<1>4. {n} \cup {k} = {n, k}
  OBVIOUS
<1> QED
  BY <1>3, <1>4 DEF a

LEMMA UnsuitableOrderly ==
  ASSUME NEW w \in RepairWork, Orderly(w)
  PROVE  Orderly(UnsuitableCandidate(w))
<1> DEFINE p == WithoutCandidate(w.plan)
           v == [w EXCEPT !.plan = p]
           b == Reset(Reset(v, QuestionDiscovery), QuestionRefinement)
           k == ClearOutputs(b, QuestionRefinement)
           O == {d \in w.run.open : d.node = QuestionRefinement}
           t == Invalidate(k, O)
<1>a. /\ QuestionDiscovery \in Node /\ EvidenceDiscovery \in Node
      /\ QuestionRefinement \in Node /\ Feasibility \in Node /\ Downstream \subseteq Node
      /\ QuestionDiscovery # EvidenceDiscovery /\ QuestionDiscovery # QuestionRefinement
      /\ QuestionDiscovery # Feasibility /\ EvidenceDiscovery # QuestionRefinement
      /\ EvidenceDiscovery # Feasibility /\ QuestionRefinement # Feasibility
  BY PlanningNames
<1>1. UnsuitableCandidate(w) = IF CandidateSuits(w) THEN w ELSE t
  BY DEF UnsuitableCandidate, CandidateSuits, Unasked
<1> SUFFICES ASSUME ~ CandidateSuits(w)
             PROVE  Orderly(t)
  BY <1>1
<1>2. p \in Plan /\ p.candidate = FALSE
  BY WorkParts DEF Plan, WithoutCandidate
<1> HIDE DEF p
<1>3. v \in RepairWork /\ v.run = w.run /\ v.plan = p /\ v.repaired = w.repaired
  BY <1>2, ReplannedParts
<1> HIDE DEF v
<1>4. QueuedAgain(v, b, {QuestionDiscovery, QuestionRefinement})
  BY <1>a, <1>3, ResetTwice
<1> HIDE DEF b
<1>5. /\ b \in RepairWork
      /\ \A m \in Node : b.run.node[m] = IF m \in {QuestionDiscovery, QuestionRefinement} THEN "PENDING"
                                          ELSE v.run.node[m]
      /\ b.run.open = v.run.open /\ b.run.status = v.run.status
      /\ b.plan.candidate = v.plan.candidate
      /\ b.repaired = v.repaired \cup {QuestionDiscovery, QuestionRefinement}
  BY <1>4 DEF QueuedAgain
<1>6. /\ k \in RepairWork
      /\ k.run.node = b.run.node /\ k.run.open = b.run.open /\ k.run.status = b.run.status
      /\ k.plan.candidate = b.plan.candidate /\ k.repaired = b.repaired
  BY <1>5, ClearRun
<1> HIDE DEF k
<1>7. /\ t \in RepairWork /\ t.run.open = k.run.open \ O /\ t.run.node = k.run.node
      /\ t.run.status = k.run.status /\ t.plan = k.plan /\ t.repaired = k.repaired
  BY <1>6, InvalidateParts
<1> HIDE DEF t
<1>8. PICK d \in w.run.open : d.node = QuestionRefinement
  BY DEF CandidateSuits, Unasked, Asked
<1>9. Waiting(w.run, QuestionRefinement) /\ \A e \in w.run.open \ O : e.node = EvidenceDiscovery
  BY <1>a, <1>8, AskedAlone
<1>10. \A e \in t.run.open : e \in w.run.open /\ e.node = EvidenceDiscovery
  BY <1>3, <1>5, <1>6, <1>7, <1>9
<1> HIDE DEF O
<1>11. InPlace(t.run, t.plan.candidate)
  <2> DEFINE N == {QuestionDiscovery, QuestionRefinement}
             r == w.run
             c == w.plan.candidate
             s == t.run
             e == t.plan.candidate
  <2>1. \A m \in Node : s.node[m] = IF m \in N THEN "PENDING" ELSE r.node[m]
    BY <1>3, <1>5, <1>6, <1>7
  <2>2. c \in BOOLEAN /\ e = FALSE /\ InPlace(r, c) /\ Waiting(r, QuestionRefinement)
    BY <1>2, <1>3, <1>5, <1>6, <1>7, <1>9, WorkParts DEF Orderly, Plan
  <2> HIDE DEF r, c, s, e
  <2>3. Pending(r, Feasibility) /\ Done(r, EvidenceDiscovery)
    BY <2>2, InPlaceParts DEF Waiting, Done
  <2>4. KeptInOrder(r, c, s, e, N)
    BY <1>a, <2>1, <2>2, <2>3 DEF KeptInOrder, Pending, Done, Waiting
  <2> HIDE DEF N
  <2>5. InPlace(s, e)
    BY <2>2, <2>4, InPlaceReopened
  <2> QED
    BY <2>5 DEF s, e
<1>12. t.repaired # {} /\ w.repaired \subseteq t.repaired /\ t.run.status = w.run.status
       /\ t.run.open \subseteq w.run.open
  BY <1>3, <1>5, <1>6, <1>7
<1> QED
  BY <1>7, <1>10, <1>11, <1>12, UnaskedOrderly

LEMMA DecodingOrderly ==
  ASSUME NEW w \in RepairWork, Orderly(w)
  PROVE  Orderly(DecodingDecisions(w))
<1> DEFINE t == DecodingDecisions(w)
           D == {d \in w.run.open : d.cause = "DECODING"}
           N == {n \in {d.node : d \in D} : w.run.node[n] = "WAITING_FOR_HUMAN"}
<1>a. /\ QuestionDiscovery \in Node /\ EvidenceDiscovery \in Node
      /\ QuestionRefinement \in Node /\ Feasibility \in Node /\ Downstream \subseteq Node
      /\ Upstream \cap Downstream = {}
      /\ Upstream = {QuestionDiscovery, EvidenceDiscovery, QuestionRefinement, Feasibility}
      /\ QuestionDiscovery # EvidenceDiscovery /\ QuestionDiscovery # QuestionRefinement
      /\ QuestionDiscovery # Feasibility /\ EvidenceDiscovery # QuestionRefinement
      /\ EvidenceDiscovery # Feasibility /\ QuestionRefinement # Feasibility
  BY PlanningNames
<1>1. /\ t \in RepairWork
      /\ \A m \in Node : t.run.node[m] = IF m \in N THEN "PENDING" ELSE w.run.node[m]
      /\ t.run.open = w.run.open \ D /\ t.run.status = w.run.status
      /\ t.plan = w.plan /\ t.repaired = w.repaired \cup N
      /\ D = {} => t = w
  BY DecodingLess
<1> HIDE DEF t
<1>2. CASE D = {}
  BY <1>1, <1>2 DEF t
<1>3. CASE D # {}
  <2>1. PICK d \in w.run.open : d.cause = "DECODING"
    BY <1>3
  <2> DEFINE n == d.node
  <2>2. n \in {QuestionDiscovery, QuestionRefinement, Feasibility}
    BY <1>a, <2>1, WorkParts, QuestionParts, PlanningCauseNames
  <2>3. Waiting(w.run, n) /\ \A e \in w.run.open : e # d => e.node = EvidenceDiscovery
    BY <1>a, <2>2, AskedAlone
  <2>4. \A e \in w.run.open : e.node = EvidenceDiscovery => e.cause # "DECODING"
    BY WorkParts, QuestionParts, PlanningCauseNames
  <2>5. D = {d}
    BY <2>1, <2>3, <2>4
  <2>6. N = {n}
    BY <2>3, <2>5 DEF Waiting
  <2> HIDE DEF D, N, n
  <2>7. \A e \in t.run.open : e.node = EvidenceDiscovery
    BY <1>1, <2>3, <2>5
  <2>8. InPlace(t.run, t.plan.candidate)
    <3> DEFINE r == w.run
               c == w.plan.candidate
               s == t.run
    <3>1. \A m \in Node : s.node[m] = IF m \in N THEN "PENDING" ELSE r.node[m]
      BY <1>1
    <3>2. InPlace(r, c) /\ c \in BOOLEAN /\ Waiting(r, n)
      BY <2>3, WorkParts DEF Orderly, Plan
    <3> HIDE DEF r, c, s
    <3>3. /\ n = QuestionRefinement => Pending(r, Feasibility)
          /\ n = Feasibility => \A m \in Downstream : Pending(r, m)
      BY <3>2, InPlaceParts DEF Waiting, Done
    <3>4. KeptInOrder(r, c, s, c, N)
      BY <1>a, <2>2, <2>6, <3>1, <3>2, <3>3 DEF KeptInOrder, Pending, Waiting, Done
    <3>5. InPlace(s, c)
      BY <3>2, <3>4, InPlaceReopened
    <3> QED
      BY <1>1, <3>5 DEF s, c
  <2>9. t.repaired # {} /\ t.run.open \subseteq w.run.open /\ w.repaired \subseteq t.repaired
    BY <1>1, <2>6
  <2>10. Orderly(t)
    BY <1>1, <2>7, <2>8, <2>9, UnaskedOrderly
  <2> QED
    BY <2>10 DEF t
<1> QED
  BY <1>2, <1>3

LEMMA MalformedOrderly ==
  ASSUME NEW w \in RepairWork, Orderly(w)
  PROVE  Orderly(MalformedOutputs(w))
<1> DEFINE t == MalformedOutputs(w)
           N == {n \in w.plan.output : w.run.node[n] = "FAILED"}
<1>a. /\ QuestionDiscovery \in Node /\ EvidenceDiscovery \in Node
      /\ QuestionRefinement \in Node /\ Feasibility \in Node /\ Downstream \subseteq Node
      /\ Upstream = {QuestionDiscovery, EvidenceDiscovery, QuestionRefinement, Feasibility}
      /\ Node = Upstream \cup Downstream
  BY PlanningNames
<1>1. /\ t \in RepairWork
      /\ \A m \in Node : t.run.node[m] = IF m \in N THEN "PENDING" ELSE w.run.node[m]
      /\ t.run.open = w.run.open /\ t.run.status = w.run.status
      /\ t.plan.candidate = w.plan.candidate /\ t.repaired = w.repaired \cup N
      /\ N = {} => t = w
  BY MalformedLess
<1> HIDE DEF t
<1>2. N \subseteq Node /\ \A n \in N : w.run.node[n] = "FAILED"
  BY WorkParts DEF Plan
<1> HIDE DEF N
<1>3. InPlace(w.run, w.plan.candidate) /\ w.plan.candidate \in BOOLEAN
  BY WorkParts DEF Orderly, Plan
<1>4. InPlace(t.run, t.plan.candidate)
  <2> DEFINE r == w.run
             c == w.plan.candidate
             s == t.run
  <2>1. \A m \in Node : s.node[m] = IF m \in N THEN "PENDING" ELSE r.node[m]
    BY <1>1
  <2>2. InPlace(r, c) /\ c \in BOOLEAN /\ \A n \in N : r.node[n] = "FAILED"
    BY <1>2, <1>3
  <2> HIDE DEF r, c, s
  <2>3. /\ ~ Done(r, Feasibility) => \A n \in Downstream : Pending(r, n)
        /\ ~ Done(r, QuestionRefinement) => Pending(r, Feasibility)
        /\ ~ Done(r, EvidenceDiscovery) => Pending(r, QuestionRefinement)
    BY <2>2, InPlaceParts
  <2>4. KeptInOrder(r, c, s, c, N)
    BY <1>a, <2>1, <2>2, <2>3 DEF KeptInOrder, Pending, Waiting, Done
  <2>5. InPlace(s, c)
    BY <2>2, <2>4, InPlaceReopened
  <2> QED
    BY <1>1, <2>5 DEF s, c
\* While the refinement or the feasibility asks, nothing has failed.
<1>5. RefinementOpen(w.run) => N = {}
  <2> SUFFICES ASSUME NEW d \in w.run.open, d.node \in {QuestionRefinement, Feasibility}, NEW n \in N
               PROVE  FALSE
    BY DEF RefinementOpen
  <2> DEFINE r == w.run
             c == w.plan.candidate
  <2>1. Waiting(r, d.node) /\ InPlace(r, c)
    BY <1>3, PlanningNames DEF Orderly, OneQuestion
  <2>2. r.node[n] = "FAILED" /\ n \in Node
    BY <1>2
  <2> HIDE DEF r, c
  <2>3. Waiting(r, QuestionRefinement) \/ ~ Pending(r, Feasibility)
    BY <2>1 DEF Waiting, Pending
  <2>4. /\ Done(r, QuestionDiscovery) /\ Done(r, EvidenceDiscovery)
        /\ \A m \in Downstream : Pending(r, m)
        /\ \/ Waiting(r, QuestionRefinement) /\ Pending(r, Feasibility)
           \/ Done(r, QuestionRefinement) /\ Waiting(r, Feasibility)
    <3>1. Done(r, QuestionDiscovery) /\ Done(r, EvidenceDiscovery)
      BY <2>1, <2>3, InPlaceParts
    <3>2. CASE Waiting(r, QuestionRefinement)
      <4>1. ~ Done(r, QuestionRefinement)
        BY <3>2 DEF Waiting, Done
      <4> QED
        BY <2>1, <3>1, <3>2, <4>1, InPlaceParts
    <3>3. CASE Waiting(r, Feasibility)
      <4>1. ~ Done(r, Feasibility) /\ ~ Pending(r, Feasibility)
        BY <3>3 DEF Waiting, Done, Pending
      <4>2. Done(r, QuestionRefinement)
        BY <2>1, <4>1, InPlaceParts
      <4> QED
        BY <2>1, <3>1, <3>3, <4>1, <4>2, InPlaceParts
    <3> QED
      BY <2>1, <3>2, <3>3
  <2> QED
    BY <1>a, <2>2, <2>4 DEF Waiting, Pending, Done
<1>6. t.repaired # w.repaired => ~ RefinementOpen(t.run)
  BY <1>1, <1>5 DEF RefinementOpen
<1>7. \A d \in t.run.open : d.node # EvidenceDiscovery => t.run.node[d.node] = w.run.node[d.node]
  <2> SUFFICES ASSUME NEW d \in w.run.open, d.node # EvidenceDiscovery
               PROVE  t.run.node[d.node] = w.run.node[d.node]
    BY <1>1
  <2>1. d.node \in Node /\ Waiting(w.run, d.node)
    BY WorkParts, QuestionParts, AskedAlone
  <2> QED
    BY <1>1, <1>2, <2>1 DEF Waiting
<1>8. Orderly(t)
  BY <1>1, <1>4, <1>6, <1>7, PassOrderly
<1> QED
  BY <1>8 DEF t

\* The passes before it leave no decision about the refinement open.
LEMMA RevalidateOrderly ==
  ASSUME NEW w \in RepairWork, Orderly(w), Unasked(w, QuestionRefinement, RefinementCauses),
         Unasked(w, QuestionRefinement, {"SEMANTIC", "MEASUREMENT"}), CandidateSuits(w), NothingDecoding(w)
  PROVE  Orderly(RevalidateSelection(w))
<1> DEFINE a == Reset(w, QuestionRefinement)
           b == ClearOutputs(a, QuestionRefinement)
           k == MarkDependents(b, QuestionRefinement)
<1>1. RevalidateSelection(w) \in {w, k}
  BY DEF RevalidateSelection
<1>2. \A d \in w.run.open : d.node # QuestionRefinement
  <2> SUFFICES ASSUME NEW d \in w.run.open, d.node = QuestionRefinement
               PROVE  FALSE
    OBVIOUS
  <2>1. d.cause \in {"DECODING", "SEMANTIC", "MEASUREMENT", "TYPED", "UNSUITABLE", "FIELD", "FRESH", "RESELECT"}
    BY WorkParts, QuestionParts, PlanningCauseNames
  <2>2. d.cause \notin RefinementCauses /\ d.cause \notin {"SEMANTIC", "MEASUREMENT"}
    BY DEF Unasked, Asked
  <2>3. d.cause # "DECODING"
    BY DEF NothingDecoding
  <2>4. d.cause = "UNSUITABLE"
    BY <2>1, <2>2, <2>3 DEF RefinementCauses
  <2>5. ~ w.plan.candidate
    BY <2>4 DEF CandidateSuits, Unasked, Asked
  <2>6. Waiting(w.run, QuestionRefinement)
    BY AskedAlone, PlanningNames
  <2> QED
    BY <2>5, <2>6 DEF Orderly, InPlace
<1>3. /\ a \in RepairWork
      /\ \A m \in Node : a.run.node[m] = IF m = QuestionRefinement THEN "PENDING" ELSE w.run.node[m]
      /\ a.run.open = w.run.open /\ a.run.status = w.run.status
      /\ a.plan.candidate = w.plan.candidate /\ a.repaired = w.repaired \cup {QuestionRefinement}
  BY ResetRun, PlanningNames
<1> HIDE DEF a
<1>4. /\ b \in RepairWork
      /\ b.run.node = a.run.node /\ b.run.open = a.run.open /\ b.run.status = a.run.status
      /\ b.plan.candidate = a.plan.candidate /\ b.repaired = a.repaired
  BY <1>3, ClearRun
<1> HIDE DEF b
<1>5. Orderly(k)
  BY <1>2, <1>3, <1>4, RequeueOrderly, PlanningNames
<1> HIDE DEF k
<1> QED
  BY <1>1, <1>5

-----------------------------------------------------------------------------
(***************************************************************************)
(* The order between the steps, where no repair is under way.              *)
(***************************************************************************)
RunOrderly(r, c) ==
  /\ InPlace(r, c) /\ OneQuestion(r)
  /\ r.status = "WAITING_FOR_HUMAN" => r.open # {}
  /\ RefinementOpen(r) => r.status = "WAITING_FOR_HUMAN"

\* A repair starts in order and ends in order: its last pass clears the status of a
\* run whose nodes it queued again.
LEMMA RepairOrderly ==
  ASSUME NEW r \in PlanningRun, NEW p \in Plan, RunOrderly(r, p.candidate), NEW w, RepairedWork(r, p, w)
  PROVE  RunOrderly(w.run, w.plan.candidate)
<1> PICK recovery \in {"none", "current", "fresh"}, preserved \in BOOLEAN :
      w = RepairStructuredGeneration(r, p, recovery, preserved)
  BY DEF RepairedWork
<1> DEFINE w0 == [run |-> r, plan |-> p, repaired |-> {}]
           w1 == RetireSkeleton(w0, recovery)
           w2 == RetireCandidate(w1)
           w3 == RefinementDecisions(w2)
           w4 == DiscoveryDecisions(w3)
           w5 == RetireRoutes(w4)
           w6 == FeasibilityDecisions(w5, preserved)
           w7 == SemanticDecisions(w6)
           w8 == UnsuitableCandidate(w7)
           w9 == DecodingDecisions(w8)
           w10 == MalformedOutputs(w9)
           w11 == RevalidateSelection(w10)
           t == Replan(w11)
<1>0. w = t
  BY DEF RepairStructuredGeneration
<1>a. w0 \in RepairWork /\ Orderly(w0)
  BY DEF RepairWork, RunOrderly, Orderly
<1> HIDE DEF w0
<1>1. w1 \in RepairWork /\ Orderly(w1)
  BY <1>a, RetireSkeletonLess, RetireSkeletonOrderly
<1> HIDE DEF w1
<1>2. w2 \in RepairWork /\ Orderly(w2)
  BY <1>1, RetireCandidateLess, RetireCandidateOrderly
<1> HIDE DEF w2
<1>3. w3 \in RepairWork /\ Orderly(w3) /\ Unasked(w3, QuestionRefinement, RefinementCauses)
  BY <1>2, RefinementLess, DecisionsOrderly
<1> HIDE DEF w3
<1>4. w4 \in RepairWork /\ Orderly(w4) /\ NoMore(w4, w3)
  BY <1>3, DiscoveryLess, DecisionsOrderly
<1> HIDE DEF w4
<1>5. w5 \in RepairWork /\ Orderly(w5) /\ NoMore(w5, w4)
  BY <1>4, RetireRoutesLess, RetireRoutesOrderly
<1> HIDE DEF w5
<1>6. w6 \in RepairWork /\ Orderly(w6) /\ NoMore(w6, w5)
  BY <1>5, FeasibilityLess, DecisionsOrderly
<1> HIDE DEF w6
<1>7. /\ w7 \in RepairWork /\ Orderly(w7) /\ NoMore(w7, w6)
      /\ Unasked(w7, QuestionRefinement, {"SEMANTIC", "MEASUREMENT"})
  BY <1>6, SemanticLess, DecisionsOrderly
<1> HIDE DEF w7
<1>8. w8 \in RepairWork /\ Orderly(w8) /\ NoMore(w8, w7) /\ CandidateSuits(w8)
  BY <1>7, UnsuitableLess, UnsuitableOrderly
<1> HIDE DEF w8
<1>9. w9 \in RepairWork /\ Orderly(w9) /\ NoMore(w9, w8) /\ NothingDecoding(w9)
  BY <1>8, DecodingLess, DecodingOrderly
<1> HIDE DEF w9
<1>10. w10 \in RepairWork /\ Orderly(w10) /\ NoMore(w10, w9)
  BY <1>9, MalformedLess, MalformedOrderly
<1> HIDE DEF w10
<1>11. NoMore(w10, w8)
  BY <1>9, <1>10, NoMoreTransitive
<1>12. NoMore(w10, w7)
  BY <1>8, <1>11, NoMoreTransitive
<1>13. NoMore(w10, w6)
  BY <1>7, <1>12, NoMoreTransitive
<1>14. NoMore(w10, w5)
  BY <1>6, <1>13, NoMoreTransitive
<1>15. NoMore(w10, w4)
  BY <1>5, <1>14, NoMoreTransitive
<1>16. NoMore(w10, w3)
  BY <1>4, <1>15, NoMoreTransitive
<1>17. Unasked(w10, QuestionRefinement, RefinementCauses)
  BY <1>3, <1>10, <1>16, QuietLess
<1>18. Unasked(w10, QuestionRefinement, {"SEMANTIC", "MEASUREMENT"})
  BY <1>7, <1>10, <1>12, QuietLess
<1>19. CandidateSuits(w10) /\ NothingDecoding(w10)
  BY <1>8, <1>9, <1>10, <1>11, QuietLess
<1>20. w11 \in RepairWork /\ Orderly(w11)
  BY <1>10, <1>17, <1>18, <1>19, RevalidateLess, RevalidateOrderly
<1> HIDE DEF w11
<1>21. /\ t.run.node = w11.run.node /\ t.run.open = w11.run.open /\ t.plan = w11.plan
       /\ t.run.status = IF w11.repaired # {} /\ w11.run.status \in {"FAILED", "WAITING_FOR_HUMAN"}
                         THEN "PLANNED_RESEARCH" ELSE w11.run.status
  BY <1>20, ReplanLess
<1> HIDE DEF t
<1>22. InPlace(t.run, t.plan.candidate) /\ OneQuestion(t.run)
  BY <1>20, <1>21 DEF Orderly, InPlace, OneQuestion, Pending, Done, Waiting
<1>23. t.run.status = "WAITING_FOR_HUMAN" => t.run.open # {}
  BY <1>20, <1>21 DEF Orderly
<1>24. RefinementOpen(t.run) => t.run.status = "WAITING_FOR_HUMAN"
  BY <1>20, <1>21 DEF Orderly, RefinementOpen
<1> QED
  BY <1>0, <1>22, <1>23, <1>24 DEF RunOrderly

\* repair-routing-decisions closes the decisions about the feasibility first.
LEMMA StaleRoutingOrderly ==
  ASSUME NEW r \in PlanningRun, NEW c \in BOOLEAN, RunOrderly(r, c)
  PROVE  RunOrderly(InvalidateStaleRouting(r), c)
<1> DEFINE t == InvalidateStaleRouting(r)
           O == StaleRoutingDecisions(r)
           N == {d.node : d \in O}
<1>a. /\ QuestionDiscovery \in Node /\ EvidenceDiscovery \in Node
      /\ QuestionRefinement \in Node /\ Feasibility \in Node /\ Downstream \subseteq Node
      /\ QuestionDiscovery # EvidenceDiscovery /\ QuestionDiscovery # QuestionRefinement
      /\ QuestionDiscovery # Feasibility /\ EvidenceDiscovery # QuestionRefinement
      /\ EvidenceDiscovery # Feasibility /\ QuestionRefinement # Feasibility
      /\ Upstream \cap Downstream = {}
  BY PlanningNames
<1>1. /\ \A m \in Node : t.node[m] = IF m \in N THEN "PENDING" ELSE r.node[m]
      /\ t.open = r.open \ O
      /\ \/ t.status = r.status /\ (t.open # {} \/ t = r)
         \/ t.open = {} /\ t.status = "PLANNED_RESEARCH"
  BY PlanningStaleRouting
<1>2. \A d \in O : d \in r.open /\ d.node = Feasibility /\ Waiting(r, Feasibility)
  <2> SUFFICES ASSUME NEW d \in O
               PROVE  d \in r.open /\ d.node = Feasibility /\ Waiting(r, Feasibility)
    OBVIOUS
  <2>1. d \in r.open /\ d.cause = "ROUTING" /\ r.node[d.node] = "WAITING_FOR_HUMAN"
    BY DEF StaleRoutingDecisions
  <2>2. d \in Question
    BY <2>1 DEF PlanningRun
  <2>3. d.node = Feasibility
    BY <2>1, <2>2, QuestionParts, PlanningCauseNames, PlanningNames
  <2> QED
    BY <2>1, <2>3 DEF Waiting
<1> HIDE DEF t
<1>3. CASE O = {}
  <2>1. N = {}
    BY <1>3
  <2>2. t.open = r.open /\ \A m \in Node : t.node[m] = r.node[m]
    BY <1>1, <1>3, <2>1
  <2>3. \A d \in r.open : d.node \in Node
    BY QuestionParts DEF PlanningRun
  <2>4. InPlace(t, c)
    BY <1>a, <2>2 DEF RunOrderly, InPlace, Pending, Done, Waiting
  <2>5. OneQuestion(t)
    BY <2>2, <2>3 DEF RunOrderly, OneQuestion, Waiting
  <2>6. t.status = r.status \/ (t.open = {} /\ t.status = "PLANNED_RESEARCH")
    BY <1>1
  <2>7. t.status = "WAITING_FOR_HUMAN" => t.open # {}
    BY <2>2, <2>6 DEF RunOrderly
  <2>8. RefinementOpen(t) => t.status = "WAITING_FOR_HUMAN"
    BY <2>2, <2>6 DEF RunOrderly, RefinementOpen
  <2> QED
    BY <2>4, <2>5, <2>7, <2>8 DEF RunOrderly, t
<1>4. CASE O # {}
  <2>1. PICK d \in O : TRUE
    BY <1>4
  <2>2. N = {Feasibility} /\ Waiting(r, Feasibility) /\ d \in r.open /\ d.node = Feasibility
    BY <1>2, <2>1
  <2>3. \A e \in t.open : e \in r.open /\ e.node = EvidenceDiscovery
    BY <1>a, <1>1, <2>1, <2>2 DEF RunOrderly, OneQuestion
  <2> HIDE DEF O
  <2>4. \A n \in Downstream : Pending(r, n)
    BY <2>2, InPlaceParts DEF RunOrderly, Waiting, Done
  <2> HIDE DEF N
  <2>5. \A m \in Node : t.node[m] = IF m = Feasibility THEN "PENDING" ELSE r.node[m]
    BY <1>1, <2>2
  <2>6. KeptInOrder(r, c, t, c, {Feasibility})
    BY <1>a, <2>4, <2>5 DEF KeptInOrder, Pending
  <2>7. InPlace(t, c)
    BY <2>6, InPlaceReopened DEF RunOrderly
  <2>8. OneQuestion(t) /\ ~ RefinementOpen(t)
    BY <1>a, <2>3 DEF OneQuestion, RefinementOpen
  <2>9. t.status = "WAITING_FOR_HUMAN" => t.open # {}
    BY <1>1 DEF RunOrderly
  <2> QED
    BY <2>7, <2>8, <2>9 DEF RunOrderly, t
<1> QED
  BY <1>3, <1>4

-----------------------------------------------------------------------------
(* A node that is taken has what it depends on, and nobody is asked. *)

LEMMA ReadyParts ==
  ASSUME NEW n \in Node, Ready(n)
  PROVE  /\ Pending(run, n)
         /\ \A m \in Deps[n] : Done(run, m)
BY DEF Ready, ReadyNodes, DependenciesSatisfied, Pending, Done

LEMMA TakenBehind ==
  ASSUME NEW c, InPlace(run, c), NEW n \in Node, Ready(n)
  PROVE  /\ n = EvidenceDiscovery => Done(run, QuestionDiscovery)
         /\ n = QuestionRefinement => Done(run, EvidenceDiscovery)
         /\ n = Feasibility => Done(run, QuestionRefinement)
         /\ n \in Downstream => Done(run, Feasibility)
<1>1. /\ EvidenceDiscovery \in Node /\ QuestionRefinement \in Node /\ Feasibility \in Node
      /\ Deps[EvidenceDiscovery] = {QuestionDiscovery}
      /\ Deps[QuestionRefinement] = {EvidenceDiscovery} /\ Deps[Feasibility] = {QuestionRefinement}
  BY PlanningNames, PlanningAssumption DEF PlanningAssumption
<1>2. ASSUME n \in Downstream PROVE Done(run, Feasibility)
  <2>1. Done(run, Feasibility) \/ \E m \in Downstream : Done(run, m)
    BY <1>2, ReadyParts, PlanningBehind
  <2>2. \A m \in Downstream : Done(run, m) => Done(run, Feasibility)
    BY DEF InPlace, Done, Pending
  <2> QED
    BY <2>1, <2>2
<1> QED
  BY <1>1, <1>2, ReadyParts

LEMMA NothingReady ==
  ASSUME PlanningTypeOK, RunOrderly(run, planning.candidate), RefinementOpen(run), NEW n \in Node
  PROVE  ~ Ready(n)
<1> SUFFICES ASSUME Ready(n) PROVE FALSE
  OBVIOUS
<1>a. /\ QuestionRefinement \in Node /\ Feasibility \in Node /\ Downstream \subseteq Node
      /\ QuestionRefinement # EvidenceDiscovery /\ Feasibility # EvidenceDiscovery
      /\ Node = {QuestionDiscovery, EvidenceDiscovery, QuestionRefinement, Feasibility} \cup Downstream
  BY PlanningNames
<1>1. PICK d \in run.open : d.node \in {QuestionRefinement, Feasibility}
  BY DEF RefinementOpen
<1>2. InPlace(run, planning.candidate) /\ Waiting(run, d.node)
  BY <1>a, <1>1 DEF RunOrderly, OneQuestion
<1>3. Pending(run, n)
  BY ReadyParts
<1>4. /\ n = Feasibility => Done(run, QuestionRefinement)
      /\ n \in Downstream => Done(run, Feasibility)
  BY <1>2, TakenBehind
<1>5. Done(run, QuestionDiscovery) /\ Done(run, EvidenceDiscovery)
  BY <1>1, <1>2, InPlaceParts DEF Waiting, Pending
<1>6. CASE d.node = QuestionRefinement
  <2>1. Pending(run, Feasibility)
    BY <1>2, <1>6, InPlaceParts DEF Waiting, Done
  <2> QED
    BY <1>a, <1>2, <1>3, <1>4, <1>5, <1>6, <2>1 DEF Waiting, Pending, Done
<1>7. CASE d.node = Feasibility
  <2>1. Done(run, QuestionRefinement)
    BY <1>2, <1>7 DEF InPlace, Waiting, Pending
  <2> QED
    BY <1>a, <1>2, <1>3, <1>4, <1>5, <1>7, <2>1 DEF Waiting, Pending, Done
<1> QED
  BY <1>1, <1>6, <1>7

LEMMA ReadyUnasked ==
  ASSUME PlanningTypeOK, RunOrderly(run, planning.candidate), NEW n \in Node, Ready(n),
         n = QuestionRefinement => planning.candidate
  PROVE  \A d \in run.open : d.node = EvidenceDiscovery
<1> SUFFICES ASSUME NEW d \in run.open, d.node # EvidenceDiscovery PROVE FALSE
  OBVIOUS
<1>a. /\ QuestionRefinement \in Node /\ Feasibility \in Node /\ Downstream \subseteq Node
      /\ QuestionDiscovery # EvidenceDiscovery
      /\ Upstream = {QuestionDiscovery, EvidenceDiscovery, QuestionRefinement, Feasibility}
      /\ Node = Upstream \cup Downstream
  BY PlanningNames
<1>1. InPlace(run, planning.candidate) /\ Waiting(run, d.node)
  BY DEF RunOrderly, OneQuestion
<1>2. d.node \in Upstream
  BY QuestionParts DEF PlanningTypeOK, PlanningRun
<1>3. d.node = QuestionDiscovery
  BY <1>a, <1>2, NothingReady DEF RefinementOpen
<1>4. /\ Pending(run, n)
      /\ n = EvidenceDiscovery => Done(run, QuestionDiscovery)
      /\ n = QuestionRefinement => Done(run, EvidenceDiscovery)
      /\ n = Feasibility => Done(run, QuestionRefinement)
      /\ n \in Downstream => Done(run, Feasibility)
  BY <1>1, ReadyParts, TakenBehind
<1>5. ~ Done(run, QuestionDiscovery) /\ ~ Pending(run, QuestionDiscovery)
  BY <1>1, <1>3 DEF Waiting, Done, Pending
<1>6. ~ Done(run, QuestionRefinement)
  BY <1>1, <1>5, InPlaceParts
<1>7. ~ Done(run, Feasibility)
  BY <1>1, <1>5, InPlaceParts DEF Done, Pending
<1>8. CASE n = QuestionRefinement
  BY <1>1, <1>4, <1>5, <1>8 DEF InPlace, Done, Pending
<1> QED
  BY <1>a, <1>4, <1>5, <1>6, <1>7, <1>8

-----------------------------------------------------------------------------
(* The steps of the run. *)

\* The node n goes on to s, from PENDING or, with an answer, from waiting.
Advances(r, c, t, e, n, s) ==
  /\ s \notin {"PENDING", "LEASED"}
  /\ \A m \in Node : t.node[m] = IF m = n THEN s ELSE r.node[m]
  /\ Pending(r, n) \/ Waiting(r, n)
  /\ n = EvidenceDiscovery => Done(r, QuestionDiscovery)
  /\ n = QuestionRefinement => Done(r, EvidenceDiscovery)
  /\ n = Feasibility => Done(r, QuestionRefinement)
  /\ n \in Downstream => Done(r, Feasibility)
  /\ n = QuestionRefinement => s \in {"FAILED", "BLOCKED_OTHER"} \/ (s \in {"COMPLETED", "WAITING_FOR_HUMAN"} /\ c)
  /\ e = c \/ (n = QuestionDiscovery /\ s = "COMPLETED")

LEMMA InPlaceAdvanced ==
  ASSUME NEW r, NEW t, NEW c \in BOOLEAN, NEW e \in BOOLEAN, NEW n \in Node, NEW s,
         InPlace(r, c), Advances(r, c, t, e, n, s)
  PROVE  InPlace(t, e)
<1>a. /\ QuestionDiscovery \in Node /\ EvidenceDiscovery \in Node
      /\ QuestionRefinement \in Node /\ Feasibility \in Node /\ Downstream \subseteq Node
      /\ QuestionDiscovery # EvidenceDiscovery /\ QuestionDiscovery # QuestionRefinement
      /\ QuestionDiscovery # Feasibility /\ EvidenceDiscovery # QuestionRefinement
      /\ EvidenceDiscovery # Feasibility /\ QuestionRefinement # Feasibility
      /\ {QuestionDiscovery, EvidenceDiscovery, QuestionRefinement, Feasibility} \cap Downstream = {}
  BY PlanningNames
<1>0. /\ s \notin {"PENDING", "LEASED"}
      /\ \A m \in Node : t.node[m] = IF m = n THEN s ELSE r.node[m]
      /\ Pending(r, n) \/ Waiting(r, n)
      /\ n = EvidenceDiscovery => Done(r, QuestionDiscovery)
      /\ n = QuestionRefinement => Done(r, EvidenceDiscovery)
      /\ n = Feasibility => Done(r, QuestionRefinement)
      /\ n \in Downstream => Done(r, Feasibility)
      /\ n = QuestionRefinement =>
           s \in {"FAILED", "BLOCKED_OTHER"} \/ (s \in {"COMPLETED", "WAITING_FOR_HUMAN"} /\ c)
      /\ e = c \/ (n = QuestionDiscovery /\ s = "COMPLETED")
  BY DEF Advances
<1>1. \A m \in Node : Done(r, m) => Done(t, m)
  BY <1>0 DEF Pending, Waiting, Done
<1>2. \A m \in Node : m # n => t.node[m] = r.node[m]
  BY <1>0
<1>3. ASSUME ~ Pending(t, EvidenceDiscovery), ~ Done(t, QuestionDiscovery)
      PROVE  /\ Done(t, EvidenceDiscovery) /\ ~ e
             /\ t.node[QuestionRefinement] \in {"PENDING", "FAILED", "BLOCKED_OTHER"}
  <2>1. ~ Done(r, QuestionDiscovery) /\ e = c
    BY <1>0, <1>1, <1>3, <1>a DEF Done
  <2>2. ~ Pending(r, EvidenceDiscovery)
    BY <1>0, <1>2, <1>3, <1>a, <2>1 DEF Pending, Done
  <2>3. /\ Done(r, EvidenceDiscovery) /\ ~ c
        /\ r.node[QuestionRefinement] \in {"PENDING", "FAILED", "BLOCKED_OTHER"}
    BY <2>1, <2>2 DEF InPlace
  <2> QED
    BY <1>0, <1>1, <1>a, <2>1, <2>3
<1>4. ~ Pending(t, QuestionRefinement) => Done(t, EvidenceDiscovery)
  BY <1>0, <1>1, <1>2, <1>a DEF InPlace, Pending
<1>5. ~ Pending(t, Feasibility) => Done(t, QuestionRefinement)
  BY <1>0, <1>1, <1>2, <1>a DEF InPlace, Pending
<1>6. \A m \in Downstream : ~ Pending(t, m) => Done(t, Feasibility)
  BY <1>0, <1>1, <1>2, <1>a DEF InPlace, Pending
<1>7. Waiting(t, QuestionRefinement) => e
  <2> SUFFICES ASSUME Waiting(t, QuestionRefinement) PROVE e
    OBVIOUS
  <2>1. c
    BY <1>0, <1>2, <1>a DEF InPlace, Waiting
  <2>2. n = QuestionDiscovery => Waiting(r, QuestionRefinement)
    BY <1>2, <1>a DEF Waiting
  <2>3. n = QuestionDiscovery => Done(r, QuestionDiscovery)
    BY <2>2, InPlaceParts
  <2>4. n # QuestionDiscovery
    BY <1>0, <2>3 DEF Pending, Waiting, Done
  <2> QED
    BY <1>0, <2>1, <2>4
<1>8. \A m \in Node : t.node[m] # "LEASED"
  BY <1>0 DEF InPlace
<1> QED
  BY <1>3, <1>4, <1>5, <1>6, <1>7, <1>8 DEF InPlace

LEMMA AskingOrderly ==
  ASSUME PlanningTypeOK, PlanningTypeOK', RunOrderly(run, planning.candidate), NEW n \in Node, Asks(n)
  PROVE  RunOrderly(run', planning'.candidate)
<1>1. planning.candidate \in BOOLEAN /\ planning'.candidate = planning.candidate
  BY DEF PlanningTypeOK, Plan, Asks
<1>2. InPlace(run, planning.candidate) /\ Ready(n)
  BY DEF RunOrderly, Asks
<1>3. \A m \in Node : run'.node[m] = IF m = n THEN "WAITING_FOR_HUMAN" ELSE run.node[m]
  BY DEF Asks, NodeBecomes
<1>4. Advances(run, planning.candidate, run', planning.candidate, n, "WAITING_FOR_HUMAN")
  BY <1>2, <1>3, ReadyParts, TakenBehind DEF Advances, Asks
<1>5. InPlace(run', planning.candidate)
  BY <1>1, <1>2, <1>4, InPlaceAdvanced
<1>6. \A d \in run.open : d.node = EvidenceDiscovery
  BY <1>2, ReadyUnasked DEF Asks
<1>7. PICK d \in Question : d.node = n /\ run'.open = run.open \cup {d}
  BY DEF Asks
<1>8. OneQuestion(run')
  BY <1>3, <1>6, <1>7 DEF OneQuestion, Waiting
<1> QED
  BY <1>1, <1>5, <1>7, <1>8 DEF RunOrderly, Asks

LEMMA CompletingOrderly ==
  ASSUME PlanningTypeOK, PlanningTypeOK', RunOrderly(run, planning.candidate), NEW n \in Node, Completes(n)
  PROVE  RunOrderly(run', planning'.candidate)
<1>1. /\ planning.candidate \in BOOLEAN /\ planning'.candidate \in BOOLEAN
      /\ n # QuestionDiscovery => planning'.candidate = planning.candidate
  BY DEF PlanningTypeOK, Plan, Completes
<1>2. InPlace(run, planning.candidate) /\ Ready(n)
  BY DEF RunOrderly, Completes
<1>3. \A m \in Node : run'.node[m] = IF m = n THEN "COMPLETED" ELSE run.node[m]
  BY DEF Completes, NodeBecomes
<1>4. Advances(run, planning.candidate, run', planning'.candidate, n, "COMPLETED")
  BY <1>1, <1>2, <1>3, ReadyParts, TakenBehind DEF Advances, Completes
<1>5. InPlace(run', planning'.candidate)
  BY <1>1, <1>2, <1>4, InPlaceAdvanced
<1>6. \A d \in run'.open : d.node = EvidenceDiscovery
  BY <1>2, ReadyUnasked DEF Completes
<1>7. OneQuestion(run') /\ ~ RefinementOpen(run')
  BY <1>6, PlanningNames DEF OneQuestion, RefinementOpen
<1>8. run'.status = "WAITING_FOR_HUMAN" => run'.open # {}
  BY DEF RunOrderly, Completes
<1> QED
  BY <1>5, <1>7, <1>8 DEF RunOrderly

LEMMA StoppingOrderly ==
  ASSUME PlanningTypeOK, PlanningTypeOK', RunOrderly(run, planning.candidate), NEW n \in Node, NEW s, StopsAt(n, s)
  PROVE  RunOrderly(run', planning'.candidate)
<1>1. planning.candidate \in BOOLEAN /\ planning'.candidate = planning.candidate
  BY DEF PlanningTypeOK, Plan, StopsAt
<1>2. InPlace(run, planning.candidate) /\ Ready(n) /\ s \in {"FAILED", "BLOCKED_OTHER"}
  BY DEF RunOrderly, StopsAt
<1>3. \A m \in Node : run'.node[m] = IF m = n THEN s ELSE run.node[m]
  BY DEF StopsAt, NodeBecomes
<1>4. Advances(run, planning.candidate, run', planning.candidate, n, s)
  BY <1>2, <1>3, ReadyParts, TakenBehind DEF Advances
<1>5. InPlace(run', planning.candidate)
  BY <1>1, <1>2, <1>4, InPlaceAdvanced
<1>6. Pending(run, n)
  BY <1>2, ReadyParts
<1>7. OneQuestion(run')
  <2>1. run'.open = run.open
    BY DEF StopsAt
  <2>2. \A d \in run.open : d.node \in Node
    BY QuestionParts DEF PlanningTypeOK, PlanningRun
  <2> QED
    BY <1>3, <1>6, <2>1, <2>2 DEF RunOrderly, OneQuestion, Waiting, Pending
<1>8. ~ RefinementOpen(run')
  BY <1>2, NothingReady DEF RefinementOpen, StopsAt
<1>9. run'.status # "WAITING_FOR_HUMAN"
  BY <1>2 DEF StopsAt
<1> QED
  BY <1>1, <1>5, <1>7, <1>8, <1>9 DEF RunOrderly

LEMMA AnsweringOrderly ==
  ASSUME PlanningTypeOK, PlanningTypeOK', RunOrderly(run, planning.candidate), NEW d \in run.open, Answers(d)
  PROVE  RunOrderly(run', planning'.candidate)
<1>1. /\ planning.candidate \in BOOLEAN /\ planning'.candidate \in BOOLEAN
      /\ d.node # QuestionDiscovery => planning'.candidate = planning.candidate
  BY DEF PlanningTypeOK, Plan, Answers
<1>2. d.node \in Node /\ d.node # EvidenceDiscovery /\ d.node \notin Downstream
  BY PlanningNames DEF Answers
<1>3. InPlace(run, planning.candidate) /\ Waiting(run, d.node)
  BY <1>2 DEF RunOrderly, OneQuestion
<1>4. \A m \in Node : run'.node[m] = IF m = d.node THEN "COMPLETED" ELSE run.node[m]
  BY DEF Answers, NodeBecomes
<1>5. Advances(run, planning.candidate, run', planning'.candidate, d.node, "COMPLETED")
  BY <1>1, <1>2, <1>3, <1>4 DEF Advances, InPlace, Waiting, Pending
<1>6. InPlace(run', planning'.candidate)
  BY <1>1, <1>2, <1>3, <1>5, InPlaceAdvanced
<1>7. \A e \in run'.open : e.node = EvidenceDiscovery
  BY <1>2 DEF RunOrderly, OneQuestion, Answers
<1>8. OneQuestion(run') /\ ~ RefinementOpen(run')
  BY <1>7, PlanningNames DEF OneQuestion, RefinementOpen
<1>9. run'.status = "WAITING_FOR_HUMAN" => run'.open # {}
  BY DEF Answers
<1> QED
  BY <1>6, <1>8, <1>9 DEF RunOrderly

LEMMA SubmittingOrderly ==
  ASSUME PlanningTypeOK, PlanningTypeOK', RunOrderly(run, planning.candidate), NEW d \in run.open, Submits(d)
  PROVE  RunOrderly(run', planning'.candidate)
<1> DEFINE N == IF Waiting(run, d.node) THEN {d.node} ELSE {}
           r == run
           t == run'
           c == planning.candidate
<1>a. /\ QuestionDiscovery \in Node /\ EvidenceDiscovery \in Node
      /\ QuestionRefinement \in Node /\ Feasibility \in Node /\ Downstream \subseteq Node
      /\ QuestionDiscovery # EvidenceDiscovery /\ QuestionDiscovery # QuestionRefinement
      /\ QuestionDiscovery # Feasibility /\ EvidenceDiscovery # QuestionRefinement
      /\ EvidenceDiscovery # Feasibility /\ QuestionRefinement # Feasibility
      /\ Upstream = {QuestionDiscovery, EvidenceDiscovery, QuestionRefinement, Feasibility}
      /\ Upstream \cap Downstream = {}
  BY PlanningNames
<1>1. c \in BOOLEAN /\ planning'.candidate = c /\ InPlace(r, c)
  BY DEF PlanningTypeOK, Plan, Submits, RunOrderly
<1>2. \A e \in run.open : e.node \in Node /\ e.node \in Upstream
  BY QuestionParts DEF PlanningTypeOK, PlanningRun
<1>3. \A m \in Node : t.node[m] = IF m \in N THEN "PENDING" ELSE r.node[m]
  BY DEF Submits, Waiting
<1>4. /\ QuestionDiscovery \in N => ~ Done(r, QuestionDiscovery)
      /\ EvidenceDiscovery \in N => Pending(r, QuestionRefinement)
      /\ QuestionRefinement \in N => Pending(r, Feasibility)
      /\ Feasibility \in N => \A m \in Downstream : Pending(r, m)
      /\ \A m \in N : m \in Upstream
  <2>1. \A m \in N : Waiting(r, m) /\ ~ Done(r, m) /\ m \in Upstream
    BY <1>2 DEF Waiting, Done
  <2> HIDE DEF N, r, c
  <2> QED
    BY <1>1, <2>1, InPlaceParts
<1>5. KeptInOrder(r, c, t, c, N)
  <2> HIDE DEF r, t, c, N
  <2> QED
    BY <1>a, <1>3, <1>4 DEF KeptInOrder, Pending
<1>6. InPlace(t, c)
  <2> HIDE DEF r, t, c, N
  <2> QED
    BY <1>1, <1>5, InPlaceReopened
<1>7. OneQuestion(t)
  <2> SUFFICES ASSUME NEW e \in t.open, e.node # EvidenceDiscovery
               PROVE  Waiting(t, e.node) /\ \A f \in t.open : f.node # EvidenceDiscovery => e = f
    BY DEF OneQuestion
  <2>1. e \in run.open /\ e # d /\ \A f \in t.open : f \in run.open
    BY DEF Submits
  <2>2. Waiting(run, e.node) /\ \A f \in run.open : f.node # EvidenceDiscovery => e = f
    BY <2>1 DEF RunOrderly, OneQuestion
  <2>3. d.node = EvidenceDiscovery
    BY <2>1, <2>2
  <2> QED
    BY <1>2, <1>3, <2>1, <2>2, <2>3 DEF Waiting
<1>8. t.status = "WAITING_FOR_HUMAN" => t.open # {}
  BY DEF Submits
<1>9. RefinementOpen(t) => t.status = "WAITING_FOR_HUMAN"
  <2>1. t.open \subseteq run.open
    BY DEF Submits
  <2>2. RefinementOpen(t) => RefinementOpen(run) /\ t.open # {}
    BY <2>1 DEF RefinementOpen
  <2> QED
    BY <2>2 DEF Submits, RunOrderly
<1> QED
  BY <1>1, <1>6, <1>7, <1>8, <1>9 DEF RunOrderly

LEMMA ReopeningOrderly ==
  ASSUME PlanningTypeOK, PlanningTypeOK', RunOrderly(run, planning.candidate),
         NEW withQuestion \in BOOLEAN, Reopens(withQuestion)
  PROVE  RunOrderly(run', planning'.candidate)
<1> DEFINE N == Reopened(run, withQuestion)
<1>a. /\ QuestionDiscovery \in Node /\ EvidenceDiscovery \in Node
      /\ QuestionRefinement \in Node /\ Feasibility \in Node /\ Downstream \subseteq Node
      /\ QuestionDiscovery # EvidenceDiscovery /\ QuestionDiscovery # QuestionRefinement
      /\ QuestionDiscovery # Feasibility /\ EvidenceDiscovery # QuestionRefinement
      /\ EvidenceDiscovery # Feasibility /\ QuestionRefinement # Feasibility
      /\ Upstream = {QuestionDiscovery, EvidenceDiscovery, QuestionRefinement, Feasibility}
      /\ Node = Upstream \cup Downstream /\ Upstream \cap Downstream = {}
  BY PlanningNames
<1>1. InPlace(run, planning.candidate)
  BY DEF RunOrderly
<1>2. \A d \in run.open : d.node \in Upstream
  BY QuestionParts DEF PlanningTypeOK, PlanningRun
<1>3. /\ \A m \in Node : run'.node[m] = IF m \in N THEN "PENDING" ELSE run.node[m]
      /\ run'.open = {d \in run.open : d.node \notin N}
      /\ run'.status = IF run'.open = {} THEN "PLANNED_RESEARCH" ELSE run.status
  BY DEF Reopens
<1>4. \A m \in Node : run.node[m] # "LEASED"
  BY <1>1 DEF InPlace
<1>5. /\ EvidenceDiscovery \in N /\ QuestionRefinement \in N
      /\ \A m \in Dependents[EvidenceDiscovery] : m \in Node => m \in N \/ Pending(run, m)
  BY <1>a, <1>4 DEF Reopened, EarliestNodes, Pending
<1> HIDE DEF N
<1>6. \A m \in Node : m # QuestionDiscovery => Pending(run', m)
  BY <1>a, <1>3, <1>5, PlanningDependents DEF Pending
<1>7. InPlace(run', planning'.candidate)
  <2>1. \A m \in Node : run'.node[m] # "LEASED"
    BY <1>3, <1>4
  <2> QED
    BY <1>a, <1>6, <2>1 DEF InPlace, Pending, Waiting
<1>8. \A d \in run'.open : d \in run.open /\ d.node = QuestionDiscovery /\ Waiting(run', QuestionDiscovery)
  <2> SUFFICES ASSUME NEW d \in run'.open
               PROVE  d \in run.open /\ d.node = QuestionDiscovery /\ Waiting(run', QuestionDiscovery)
    OBVIOUS
  <2>1. d \in run.open /\ d.node \notin N /\ d.node \in Node
    BY <1>2, <1>3, <1>a
  <2>2. Waiting(run, d.node)
    BY <1>5, <2>1 DEF RunOrderly, OneQuestion
  <2>3. Waiting(run', d.node)
    BY <1>3, <2>1, <2>2 DEF Waiting
  <2>4. d.node = QuestionDiscovery
    BY <1>6, <2>1, <2>3 DEF Waiting, Pending
  <2> QED
    BY <2>1, <2>3, <2>4
<1>9. OneQuestion(run') /\ ~ RefinementOpen(run')
  BY <1>8, <1>a DEF OneQuestion, RefinementOpen, RunOrderly
<1>10. run'.status = "WAITING_FOR_HUMAN" => run'.open # {}
  BY <1>3
<1> QED
  BY <1>7, <1>9, <1>10 DEF RunOrderly

LEMMA RepairingOrderly ==
  ASSUME PlanningTypeOK, RunOrderly(run, planning.candidate), NEW w, RepairsTo(w)
  PROVE  RunOrderly(run', planning'.candidate)
<1>1. PICK r \in {run, InvalidateStaleRouting(run)} : RepairedWork(r, planning, w)
  BY DEF RepairsTo
<1>2. run \in PlanningRun /\ planning \in Plan /\ planning.candidate \in BOOLEAN
  BY DEF PlanningTypeOK, Plan
<1>3. r \in PlanningRun /\ RunOrderly(r, planning.candidate)
  BY <1>1, <1>2, PlanningStaleRouting, StaleRoutingOrderly
<1>4. RunOrderly(w.run, w.plan.candidate)
  BY <1>1, <1>2, <1>3, RepairOrderly
<1> QED
  BY <1>4 DEF RepairsTo

LEMMA OrderlyStep ==
  ASSUME PlanningTypeOK, PlanningTypeOK', RunOrderly(run, planning.candidate), StepKind,
         "repair-research-completion-coverage" \notin Commands
  PROVE  RunOrderly(run', planning'.candidate)
<1>1. CASE \E n \in Node : Asks(n) \/ Completes(n) \/ StopsAt(n, "FAILED") \/ StopsAt(n, "BLOCKED_OTHER")
  BY <1>1, AskingOrderly, CompletingOrderly, StoppingOrderly
<1>2. CASE \E d \in run.open : Answers(d) \/ Submits(d)
  BY <1>2, AnsweringOrderly, SubmittingOrderly
<1>3. CASE \E withQuestion \in BOOLEAN : Reopens(withQuestion)
  BY <1>3, ReopeningOrderly
<1>4. CASE Restores
  BY <1>4 DEF Restores
<1>5. CASE \E w : RepairsTo(w)
  BY <1>5, RepairingOrderly
<1>6. CASE run' = run /\ planning'.candidate = planning.candidate
  BY <1>6
<1> QED
  BY <1>1, <1>2, <1>3, <1>4, <1>5, <1>6 DEF StepKind

\* The questions of a run reach its nodes and, without the command that restores nodes,
\* ask about the results in force: for any nodes behind the planning nodes, any number
\* of decisions, upgrades and repairs.
THEOREM QuestionsStayAsked == RepairSpec => []QuestionsAreAsked
<1> DEFINE allowed == "repair-research-completion-coverage" \notin Commands
           I == allowed => RunOrderly(run, planning.candidate)
<1>1. RepairInit => I
  <2> SUFFICES ASSUME RepairInit PROVE RunOrderly(run, planning.candidate)
    OBVIOUS
  <2>1. /\ \A n \in Node : run.node[n] = "PENDING"
        /\ run.open = {} /\ run.status # "WAITING_FOR_HUMAN"
    BY DEF RepairInit, CreateRunState
  <2> QED
    BY <2>1, PlanningNames DEF RunOrderly, InPlace, OneQuestion, RefinementOpen, Pending, Done, Waiting
<1>2. PlanningTypeOK /\ I /\ [RepairNext]_repairVars => I'
  BY PlanningStep, OrderlyStep
<1>3. PlanningTypeOK /\ WaitingNodeIsAsked /\ I => QuestionsAreAsked
  <2> SUFFICES ASSUME PlanningTypeOK, RunOrderly(run, planning.candidate)
               PROVE  QuestionsAreCurrent /\ WaitingRunAsks
    BY DEF QuestionsAreAsked
  <2>1. QuestionsAreCurrent
    BY PlanningNames DEF QuestionsAreCurrent, RunOrderly, OneQuestion, Waiting
  <2> QED
    BY <2>1 DEF RunOrderly, WaitingRunAsks
<1> QED
  BY <1>1, <1>2, <1>3, PlanningTyped, NodesWait, PTL DEF RepairSpec
=============================================================================
