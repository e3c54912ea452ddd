--------------------------- MODULE EvidenceChain ---------------------------
(***************************************************************************)
(* How a run's evidence is made: the nodes from capability_gap_analysis to *)
(* research_readiness (src/research_runtime.py), each executed by a worker *)
(* once those before it are completed, with the skills they find or build  *)
(* (src/capabilities.py), the files they leave in the artifact store and   *)
(* in the work directory, and the coverage that decides whether a package  *)
(* may be written (src/objective_coverage.py).                             *)
(*                                                                         *)
(* A result is the number of the execution that produced it.  A capability *)
(* is a name and the file it has to produce; "exe" is the one that         *)
(* advertises executable evidence, which only an operator can install,     *)
(* "lit" the literature inventory every plan has, and the others resolve a *)
(* feasibility requirement.  Leases, budgets and the saving of the record  *)
(* are RunLifecycle's: here a node's handler and the save are one step,    *)
(* and a worker that dies between a file and the save is CrashAfter...     *)
(***************************************************************************)
EXTENDS Naturals, FiniteSets

CONSTANTS
    Resolvers,       \* capabilities that all resolve into the same file
    MaxExecutions,   \* bound: executions of the skills
    MaxChainRepairs,      \* bound: repairs of the run
    MaxCrashes       \* bound: workers that die before the record is saved

ASSUME ChainAssumption ==
    /\ Resolvers \cap {"lit", "exe"} = {}
    /\ MaxExecutions \in Nat /\ MaxChainRepairs \in Nat /\ MaxCrashes \in Nat

Nodes == {"gap", "skills", "tasks", "execution", "validation",
          "falsification", "replication", "adjudication", "readiness"}

Before(n) == CASE n = "gap" -> {}
               [] n = "skills" -> {"gap"}
               [] n = "tasks" -> {"skills"}
               [] n = "execution" -> {"tasks"}
               [] n = "validation" -> {"execution"}
               [] n = "falsification" -> {"validation"}
               [] n = "replication" -> {"falsification"}
               [] n = "adjudication" -> {"replication"}
               [] n = "readiness" -> {"adjudication"}

Caps == {"lit", "exe"} \cup Resolvers
FileOf(cap) == CASE cap = "lit" -> "metrics"
                 [] cap = "exe" -> "result"
                 [] OTHER -> "resource"
Files == {"provenance", "metrics", "result", "resource"}
Executions == 0..MaxExecutions

VARIABLES
    st,         \* the status of a node
    why,        \* why the last node that failed did
    plan,       \* what feasibility_analysis asks for: capabilities, a number
    required,   \* capability_requirements, a set of capabilities
    installed,  \* the skills of the run's registry directory
    registry,   \* skill_registry: the skills in use
    ran,        \* the skills that execution_records names
    runs,       \* the number of executions
    work,       \* the result in the work directory of research_execution
    stored,     \* the files in the store, by their version; 0 is none
    report,     \* replication/report.json is in the store
    validation, \* the last validation report: its verdict and result
    passed,     \* what requirement_validations has passed
    replicated, \* replication_status, and the result it compared
    claims,     \* the adjudicated claims
    coverage,   \* selected_objective_coverage
    packages,   \* the research packages
    repairs, crashes

storeFiles == <<work, stored, report>>
verdicts  == <<validation, passed, replicated, claims, coverage, packages>>
skills    == <<installed, registry>>
bounds    == <<repairs, crashes>>
chainVars == <<st, why, plan, required, skills, ran, runs, storeFiles, verdicts,
          bounds>>

NoClaims == [result |-> 0, direct |-> FALSE, plan |-> 0]

Plans == {{"lit"} \cup e \cup r :
             e \in {{}, {"exe"}},
             r \in {{}} \cup {{c} : c \in Resolvers}}

ChainInit ==
    /\ st = [n \in Nodes |-> "PENDING"]
    /\ why = "nothing"
    /\ plan \in [caps : Plans, number : {1}]
    /\ required = {}
    /\ installed \in {{}, {"exe"}}
    /\ registry = {}
    /\ ran = {}
    /\ runs = 0
    /\ work = 0
    /\ stored = [f \in Files |-> 0]
    /\ report = FALSE
    /\ validation = [verdict |-> "NONE", result |-> 0]
    /\ passed = {}
    /\ replicated = [status |-> "NOT_ATTEMPTED", result |-> 0]
    /\ claims = NoClaims
    /\ coverage = "NONE"
    /\ packages = {}
    /\ repairs = 0
    /\ crashes = 0

-----------------------------------------------------------------------------
ChainReady(n) == st[n] = "PENDING" /\ \A m \in Before(n) : st[m] = "COMPLETED"

Complete(n) == st' = [st EXCEPT ![n] = "COMPLETED"] /\ UNCHANGED why
Halt(n, status, reason) ==
    /\ st' = [st EXCEPT ![n] = status]
    /\ why' = IF status = "FAILED" THEN reason ELSE why

(* Mutant: the requirements of the plan before stay. *)
GapAppends ==
    /\ ChainReady("gap")
    /\ required' = required \cup plan.caps
    /\ Complete("gap")
    /\ UNCHANGED <<plan, skills, ran, runs, storeFiles, verdicts, bounds>>

GapAnalysis ==
    /\ ChainReady("gap")
    /\ required' = plan.caps
    /\ Complete("gap")
    /\ UNCHANGED <<plan, skills, ran, runs, storeFiles, verdicts, bounds>>

-----------------------------------------------------------------------------
(* SkillRegistry.find: a skill of the capability, or one with its outputs, *)
(* whichever the directory lists first.                                    *)
SkillsFor(cap) == {s \in installed : s = cap \/ FileOf(s) = FileOf(cap)}

(* SkillManager.resolve: the skill found, or one built for the capability; *)
(* a built skill that has to bring a validation command is not valid.      *)
Resolvable(cap) ==
    IF SkillsFor(cap) # {} THEN SkillsFor(cap) ELSE {cap} \ {"exe"}

DiscoverSkills ==
    /\ ChainReady("skills")
    /\ \E choice \in [required -> Caps] :
          /\ \A cap \in required : choice[cap] \in Resolvable(cap)
          /\ registry' = {choice[cap] : cap \in required}
          /\ installed' = installed \cup registry'
    /\ Complete("skills")
    /\ UNCHANGED <<plan, required, ran, runs, storeFiles, verdicts, bounds>>

(* A skill that is not valid, or whose smoke test fails: those before it   *)
(* have been saved, and it too if only the smoke test failed.              *)
SkillRefused ==
    /\ ChainReady("skills")
    /\ \E saved \in SUBSET (required \ {"exe"}) :
          installed' = installed \cup {c \in saved : SkillsFor(c) = {}}
    /\ Halt("skills", "WAITING_FOR_HUMAN", "skill")
    /\ UNCHANGED <<plan, required, registry, ran, runs, storeFiles, verdicts,
                   bounds>>

TaskDag ==
    /\ ChainReady("tasks")
    /\ Complete("tasks")
    /\ UNCHANGED <<plan, required, skills, ran, runs, storeFiles, verdicts,
                   bounds>>

-----------------------------------------------------------------------------
(* research_execution: each task's script in a new work directory, then    *)
(* the provenance and the outputs into the store, at fixed paths.          *)

Outputs == {FileOf(cap) : cap \in required}

NoScript == \E cap \in required : cap \notin registry

ExecutionFails ==
    /\ ChainReady("execution")
    /\ runs < MaxExecutions
    /\ runs' = runs + 1
    /\ work' = 0
    /\ \E done \in SUBSET (required \cap registry) : ran' = ran \cup done
    /\ \/ NoScript /\ Halt("execution", "FAILED", "no skill")
       \/ Halt("execution", "FAILED", "script")
    /\ UNCHANGED <<plan, required, skills, stored, report, verdicts, bounds>>

(* put_artifact refuses a file whose content is not the stored one; the    *)
(* provenance has the times of its execution.                              *)
ProvenanceStored == stored["provenance"] # 0

Put(files, n) == [f \in Files |-> IF f \in files THEN n ELSE stored[f]]

ExecutionRuns ==
    /\ ChainReady("execution")
    /\ ~NoScript
    /\ runs < MaxExecutions
    /\ runs' = runs + 1
    /\ work' = runs'
    /\ UNCHANGED <<plan, required, skills, report, verdicts>>

(* Mutant: the outputs are not immutable. *)
ExecutionOverwrites ==
    /\ ExecutionRuns
    /\ ran' = ran \cup required
    /\ Complete("execution")
    /\ stored' = Put({"provenance"} \cup Outputs, runs')
    /\ UNCHANGED bounds

ResearchExecution ==
    /\ ExecutionRuns
    /\ ran' = ran \cup required
    /\ IF ProvenanceStored
       THEN /\ Halt("execution", "FAILED", "immutable")
            /\ UNCHANGED stored
       ELSE /\ Complete("execution")
            /\ stored' = Put({"provenance"} \cup Outputs, runs')
    /\ UNCHANGED bounds

(* An expected output was not produced: the provenance and the outputs     *)
(* before it are in the store.                                             *)
OutputMissing ==
    /\ ExecutionRuns
    /\ ~ProvenanceStored
    /\ ran' = ran \cup required
    /\ Halt("execution", "BLOCKED", "output")
    /\ \E files \in (SUBSET Outputs) \ {Outputs} :
          stored' = Put({"provenance"} \cup files, runs')
    /\ UNCHANGED bounds

Crash == crashes < MaxCrashes /\ crashes' = crashes + 1

(* The worker dies after it stored the provenance and some of the outputs. *)
(* Mutant: the provenance is stored last.                                  *)
CrashProvenanceLast ==
    /\ ExecutionRuns
    /\ ~ProvenanceStored
    /\ Crash
    /\ \E files \in SUBSET Outputs : stored' = Put(files, runs')
    /\ UNCHANGED <<st, why, ran, repairs>>

CrashAfterOutputs ==
    /\ ExecutionRuns
    /\ ~ProvenanceStored
    /\ Crash
    /\ \E files \in SUBSET Outputs :
          stored' = Put({"provenance"} \cup files, runs')
    /\ UNCHANGED <<st, why, ran, repairs>>

-----------------------------------------------------------------------------
Executable == "exe" \in registry

(* independent_validation runs the validator in the work directory, or     *)
(* counts the stored metrics.                                              *)
Validation ==
    /\ ChainReady("validation")
    /\ \E verdict \in {"PASS", "FAIL"} :
          /\ validation' = [verdict |-> verdict,
                            result |-> IF Executable THEN work
                                       ELSE stored["metrics"]]
          /\ IF verdict = "PASS"
             THEN /\ passed' = IF Executable
                               THEN passed \cup {[cap |-> "exe", result |-> work]}
                               ELSE passed
                  /\ Complete("validation")
             ELSE /\ Halt("validation", "BLOCKED", "method")
                  /\ UNCHANGED passed
    /\ UNCHANGED <<plan, required, skills, ran, runs, storeFiles, replicated,
                   claims, coverage, packages, bounds>>

Falsification ==
    /\ ChainReady("falsification")
    /\ \/ Complete("falsification")
       \/ Halt("falsification", "BLOCKED", "method")
    /\ UNCHANGED <<plan, required, skills, ran, runs, storeFiles, verdicts,
                   bounds>>

(* replication executes in a work directory of its own, stores its report  *)
(* whatever the verdict, and compares with the stored result.              *)
Compared == IF Executable THEN stored["result"] ELSE stored["metrics"]

Replication ==
    /\ ChainReady("replication")
    /\ IF report
       THEN /\ Halt("replication", "FAILED", "immutable")
            /\ UNCHANGED <<report, replicated>>
       ELSE /\ report' = TRUE
            /\ \E s \in {"PASSED", "FAILED"} :
                  /\ replicated' = [status |-> s, result |-> Compared]
                  /\ IF s = "PASSED"
                     THEN Complete("replication")
                     ELSE Halt("replication", "BLOCKED", "replication")
    /\ UNCHANGED <<plan, required, skills, ran, runs, work, stored,
                   validation, passed, claims, coverage, packages, bounds>>

CrashAfterReport ==
    /\ ChainReady("replication")
    /\ ~report
    /\ Crash
    /\ report' = TRUE
    /\ UNCHANGED <<st, why, plan, required, skills, ran, runs, work, stored,
                   verdicts, repairs>>

-----------------------------------------------------------------------------
(* claim_adjudication: the candidates the executable skill wrote need the  *)
(* last validation passed, and replication if they answer the question;    *)
(* the inventory answers nothing.                                          *)
Adjudication ==
    /\ ChainReady("adjudication")
    /\ \E direct \in (IF Executable THEN BOOLEAN ELSE {FALSE}) :
          IF Executable => /\ validation.verdict = "PASS"
                           /\ direct => replicated.status = "PASSED"
          THEN /\ claims' = [result |-> Compared, direct |-> direct,
                             plan |-> plan.number]
               /\ Complete("adjudication")
          ELSE Halt("adjudication", "BLOCKED", "method") /\ UNCHANGED claims
    /\ UNCHANGED <<plan, required, skills, ran, runs, storeFiles, validation,
                   passed, replicated, coverage, packages, bounds>>

(* A handler that raises, at a timeout or a report that is not there,      *)
(* leaves its node FAILED.                                                 *)
Raises ==
    /\ \E n \in {"validation", "falsification", "replication",
                  "adjudication"} :
          ChainReady(n) /\ Halt(n, "FAILED", "script")
    /\ UNCHANGED <<plan, required, skills, ran, runs, storeFiles, verdicts,
                   bounds>>

(* requirement_lifecycle, of the requirements that have to be verified:    *)
(* the skill was executed, its file is there and a validation of the       *)
(* requirement passed (mutant: or did not).                                *)
ResolvedIfRan(cap) ==
    /\ cap \in registry
    /\ cap \in ran
    /\ stored[FileOf(cap)] # 0

RequirementResolved(cap) ==
    /\ cap \in registry
    /\ cap \in ran
    /\ stored[FileOf(cap)] # 0
    /\ \E p \in passed : p.cap = cap

Sufficient ==
    /\ claims.direct
    /\ \A cap \in required \ {"lit"} : RequirementResolved(cap)

SelectedObjectiveCoverage ==
    IF Sufficient THEN "SUFFICIENT" ELSE "INSUFFICIENT"

(* paper_readiness_report on the record: the cached coverage, and the      *)
(* nodes whose contract asks for an execution (mutant: the coverage only). *)
GateOnCoverage(cover, status) == cover = "SUFFICIENT"

PaperGate(cover, status) ==
    /\ cover = "SUFFICIENT"
    /\ status["execution"] = "COMPLETED"
    /\ status["replication"] = "COMPLETED"
    /\ stored["provenance"] # 0
    /\ replicated.status # "FAILED"

(* A package carries the claims, with the plan it is written under.        *)
Packaged == packages' = packages \cup {[claims |-> claims, plan |-> plan.number]}

Readiness ==
    /\ ChainReady("readiness")
    /\ coverage' = SelectedObjectiveCoverage
    /\ IF Sufficient
       THEN IF PaperGate(coverage', st)
            THEN Packaged /\ Complete("readiness")
            ELSE Halt("readiness", "BLOCKED", "gate") /\ UNCHANGED packages
       ELSE Complete("readiness") /\ UNCHANGED packages
    /\ UNCHANGED <<plan, required, skills, ran, runs, storeFiles, validation,
                   passed, replicated, claims, bounds>>

(* The command package. *)
Package ==
    /\ PaperGate(coverage, st)
    /\ Packaged
    /\ UNCHANGED <<st, why, plan, required, skills, ran, runs, storeFiles,
                   validation, passed, replicated, claims, coverage, bounds>>

-----------------------------------------------------------------------------
(* repair-research-completion-coverage: with the coverage insufficient     *)
(* every node from the capability gap on is to be executed again.          *)
RepairChainCoverage ==
    /\ repairs < MaxChainRepairs
    /\ repairs' = repairs + 1
    /\ coverage' = SelectedObjectiveCoverage
    /\ st' = IF Sufficient THEN st ELSE [n \in Nodes |-> "PENDING"]
    /\ UNCHANGED <<why, plan, required, skills, ran, runs, storeFiles,
                   validation, passed, replicated, claims, packages, crashes>>

(* A repair of the evidence: the nodes before these are executed again and *)
(* may ask for other capabilities; these follow.                           *)
RepairChainEvidence ==
    /\ repairs < MaxChainRepairs
    /\ repairs' = repairs + 1
    /\ plan' \in [caps : Plans, number : {plan.number + 1}]
    /\ st' = [n \in Nodes |-> "PENDING"]
    /\ UNCHANGED <<why, required, skills, ran, runs, storeFiles, verdicts,
                   crashes>>

Work == \/ GapAnalysis \/ DiscoverSkills \/ SkillRefused \/ TaskDag
        \/ ExecutionFails \/ OutputMissing \/ ResearchExecution
        \/ Validation \/ Falsification \/ Replication
        \/ Raises \/ Adjudication \/ Readiness

ChainNext == \/ Work
        \/ CrashAfterOutputs
        \/ CrashAfterReport
        \/ Package
        \/ RepairChainCoverage
        \/ RepairChainEvidence

ChainSpec == ChainInit /\ [][ChainNext]_chainVars

-----------------------------------------------------------------------------
(* The types of the record, the store and the directories.                 *)
ChainTypeOK ==
    /\ st \in [Nodes -> {"PENDING", "COMPLETED", "FAILED", "BLOCKED",
                         "WAITING_FOR_HUMAN"}]
    /\ why \in {"nothing", "no skill", "script", "immutable"}
    /\ plan.caps \in Plans /\ plan.number \in 1..(MaxChainRepairs + 1)
    /\ required \in Plans \cup {{}}
    /\ installed \subseteq Caps /\ registry \subseteq Caps /\ ran \subseteq Caps
    /\ runs \in Executions /\ work \in Executions
    /\ stored \in [Files -> Executions] /\ report \in BOOLEAN
    /\ validation \in [verdict : {"NONE", "PASS", "FAIL"}, result : Executions]
    /\ passed \subseteq [cap : {"exe"}, result : Executions]
    /\ replicated \in [status : {"NOT_ATTEMPTED", "PASSED", "FAILED"},
                       result : Executions]
    /\ claims \in [result : Executions, direct : BOOLEAN,
                   plan : 0..(MaxChainRepairs + 1)]
    /\ coverage \in {"NONE", "SUFFICIENT", "INSUFFICIENT"}
    /\ packages \subseteq [claims : [result : Executions, direct : BOOLEAN,
                                     plan : 0..(MaxChainRepairs + 1)],
                           plan : 1..(MaxChainRepairs + 1)]

(* The stored files are of one execution, also when workers die between    *)
(* two files and others execute again: the provenance goes first and       *)
(* refuses a second execution (src/research_runtime.py:4611-4618).         *)
StoredIsOneExecution ==
    \A f, g \in Files : stored[f] # 0 /\ stored[g] # 0 => stored[f] = stored[g]

(* A package has claims that answer the question, about the stored result, *)
(* which was validated and replicated (src/research_runtime.py:4646-4651,  *)
(* 4744, 4782-4785, src/objective_coverage.py:29-32, 100-103).             *)
PackageIsReplicated ==
    \A p \in packages :
        /\ p.claims.direct
        /\ p.claims.result = stored["result"]
        /\ [cap |-> "exe", result |-> p.claims.result] \in passed
        /\ replicated.status = "PASSED"
        /\ replicated.result = p.claims.result

(* A package is written under the plan its claims were made for, although  *)
(* repairs leave the claims and the coverage where they are: the gate      *)
(* looks at the execution nodes too (src/paper_gate.py:28-34).             *)
PackageIsOfItsPlan == \A p \in packages : p.claims.plan = p.plan

(* What resolves a feasibility requirement has no validator, so that a     *)
(* plan that needs one is never covered: the substitute skill that writes  *)
(* the expected file is not taken for evidence                             *)
(* (src/objective_coverage.py:27-32, src/research_runtime.py:4646).        *)
ResolversAreNoEvidence ==
    \A p \in packages : p.plan = plan.number => plan.caps \cap Resolvers = {}

(* A complete package was earned by results that were validated and        *)
(* replicated, under the plan its claims were made for, and not by a       *)
(* substitute skill.                                                       *)
PackageIsEarned ==
    PackageIsReplicated /\ PackageIsOfItsPlan /\ ResolversAreNoEvidence

(* No node fails because an earlier attempt left its file: a repair        *)
(* reopens a chain that can be completed                                   *)
(* (src/objective_coverage.py:161-166).                                    *)
ReopenedCanComplete == why # "immutable"

(* Each required capability has a skill of its own once skills are found   *)
(* (src/capabilities.py:80-87, src/research_runtime.py:4872-4877).         *)
ConstructedSkillIsFound ==
    st["skills"] = "COMPLETED" => required \subseteq registry
=============================================================================
