# A verification of ResearchGPT

ResearchGPT drives a long research run from a question to a verified package.
A run is a fixed DAG of nodes; workers and supervisors take ready nodes and
execute them, people answer decisions, and repair commands take work back. All
of it is recorded in one JSON file per run. Around that record stand an artifact
store, a gateway to language models with its budget, an evidence ledger, a skill
registry, a paper pipeline and a profile of local models; `tools/proofbench`
searches for proofs and keeps proof sessions of its own. These modules say what
all this may do when processes overlap, die and are started again, and prove the
parts that matter most.

Paths below are relative to the repository's root, where `src/` is the Python
package; `PROJECT.json` writes one more `src/` before them.

## 1. Inventory

### The research run

| Component | State it keeps | Operations | What makes it correct |
|---|---|---|---|
| Run record, `src/research_state.py` | `run_state.json`: run status, a status and a lease per node | create, ready nodes, lease, expiry, complete, block | work is accepted in dependency order; no lease is lost |
| Worker, `src/worker.py` | a private copy of the record for its whole loop | load, lease, save, execute, save, stop on BLOCKED or FAILED | what it saves is consistent with what it loaded |
| Supervisor, `src/supervisor.py` | the same | the same, and wait for decisions, package, report | it stops by itself |
| Decisions, `src/decisions.py`, `submit_research_decision` | decisions of the record | request, answer, submit, invalidate | an open decision holds its nodes; a waiting node has a decision |
| Budget extension, `src/budget_control.py` | block records, authorisations | record a block, extend | only nodes blocked for the budget are reopened |
| Node execution, `src/research_runtime.py`, `src/executor.py` | outputs in the record, artifacts in the store | 13 handlers and the error paths of `execute` | every outcome completes the node or stops the run |
| Repairs, `src/research_runtime.py`, `src/objective_coverage.py` | histories in the record | evidence, coverage, routing, structured generation, external continuation | what depends on undone work is undone, decisions included |
| Gates, `src/objective_coverage.py`, `paper_gate.py`, `research_package.py`, `verification.py` | cached coverage, packages | judge coverage, judge readiness, package, verify | nothing is verified without evidence |
| CLI, `src/research_cli.py` | none | one program per command | each command loads once and saves once |

Programs interact through files only. A program loads the whole record, changes
its copy, and replaces the whole file (`atomic_update_state`: temporary file and
`os.replace`). There is no lock and no comparison before replacing. The lease a
worker writes for its node, with an expiry time, is the only coordination. Within
one program everything is a call: the worker calls the executor, it calls
the handler, the handler calls the gateway, the decisions, the store.

What is hard here: copies of different ages written back whole; leases that
expire under a live worker; a crash between an artifact and the record that
mentions it; a decision answered after the node it blocks has moved on; cached
verdicts read after what they were computed from has changed; several commands
each undoing a part of a run. Each place is a hazard in `PROJECT.json`.

### Beside the record

| Component | State it keeps | Operations | What makes it correct |
|---|---|---|---|
| Artifact store, `src/storage.py` | files, `manifest.json` | put (immutable or not), versioned fallback, append to the manifest, verify | an artifact never changes, what the manifest says of it is true, no entry is lost |
| Gateway and budget, `src/llm_gateway.py`, `src/budget_control.py` | calls charged, limits, block records | check, route, retry, repair, escalate, record, extend | what is spent is bounded; every handling ends; a node blocked for the budget can be reopened |
| Local inference, `src/local_inference.py` | `profile.json`, benchmark artifacts, index of models | discover, smoke-test, benchmark, load, restore | a model serves a task only if it was measured good for it; a torn profile recovers |
| External continuation, `src/research_runtime.py` | a lifecycle record per accepted answer | submit, start, apply, reject, interrupt, reconcile | an answer is applied once and for good; an interrupted attempt keeps its allowance |
| Planning handlers and repairs, the same | candidates, skeletons, selections, routes | discover, collect, refine, regenerate, analyse, repair | who waits is asked a question that is still in force; repairing converges |
| Evidence chain, `src/capabilities.py`, `src/objective_coverage.py`, the execution nodes | skills, outputs, reports, claims, coverage, packages | find and build skills, execute, validate, replicate, adjudicate, package, repair | a package is earned by results of its own plan |
| Evidence ledger, `src/ledger.py`, `src/paper_gate.py` | claims with their provenance | add, update, load, gate | only supported claims are saved; the gates agree |
| Paper pipeline, `src/paper_pipeline.py`, `src/research_package.py` | packages by version, paper state, paper package | start, five nodes over several calls, complete, verify | a finished paper is the one written, from claims that pass |
| Proof engine and controller, `proof_engine.py`, `v9_controller.py` | candidate texts, frozen files, best checkpoint, escalation policy | patch, check, revert, escalate | what is frozen was validated; remote repair is a last resort |
| Proof search, `proof_orchestrator.py` | search tree, frontier, blueprint | probe, expand, close, give up | prefixes replay; the search ends within its bound |
| Proof session, `proof_session.py` | `session.json`, lemma artifacts, certificate, handoff bundle | start, formalise, close, hand off, resume, import | a checkpoint says VERIFIED only of what Lean accepted, and can be resumed |
| Finite models, `proof_engineering.py` | constraints, values, residual model, CNF | propagate, substitute, encode | values are entailed, the residual model and the CNF are equivalent |

(The last four are under `tools/proofbench/`.) Literature retrieval, read-only
inspection, notifications, the older stand-alone agent, trials and benchmarks,
the release audit, scripts and workflows are not modelled; `components` in
`PROJECT.json` gives the reason for each.

What the components share is the run record, the artifacts and the packages. A
node's handler asks the gateway (whose provider may be local inference), puts
artifacts, requests decisions; an accepted answer is continued by the handler
that asked; the execution nodes call skills, their outputs become claims, the
gates read claims, a package is written and a paper begins with it. No component
locks anything: those with a state of their own are plain files, written in place
or replaced whole.

What is hard beside the record: files written one after another with a crash in
between; a file torn in the middle of a write; retries and repair prompts that
nest and each have an allowance; an answer that is applied, interrupted, repaired
and found again by a later failure; results of one plan met by another after a
repair; a checkpoint that is resumed by a process of other assumptions.

## 2. Modules

| Module | Contents |
|---|---|
| `RunState` | the record as a value, and one function per function of the code that reads or rewrites it |
| `RunLifecycle` | the file, the report store and the programs; one action per step of a program; properties |
| `DagProgress` | the abstract specification: which nodes are done, and how that set may change |
| `MCRunLifecycle` | chains of nodes and sets of commands for TLC |
| `ArtifactStore` | `put_artifact` of both backends as its file operations, the manifest, the versioned fallback |
| `LLMGateway` | the handling of one node that asks a model: budget, provider retries, repair rounds, escalation, extensions |
| `EvidenceLedger` | claims in memory and in the file, and the two gates over them |
| `ExternalContinuation` | accepted atomic answers, their continuations and `repair-external-continuation` |
| `StructuredRepair` | the planning nodes over the record of `RunState`, with `repair-structured-generation` and `repair-routing-decisions` |
| `EvidenceChain` | from skills through execution, validation and claims to packages, with both evidence repairs |
| `PaperPipeline` | a run that writes packages and a paper made from one |
| `LocalProfile` | the profile of local models, its measurements and artifacts |
| `MCResearch` | these eight components side by side for TLC |
| `ProofEngine`, `V9Controller` | the patch-and-validate engine as functions, and the supervisor with its remote repair |
| `ProofSearch` | `ProofOrchestrator.solve`, a best-first search over proof prefixes |
| `ProofSession` | persistent proof sessions |
| `FiniteModel`, `FiniteEncoding` | propagation and residual models; CNF, basis problems and readable traces against reference definitions |
| `MCProofbench` | the components of `tools/proofbench` side by side for TLC |
| `RunLifecycle_proofs`, `RunHandoffs_proofs` | lemmas about the functions of the record, and theorems about the run |
| `Services_proofs` | theorems about the artifact store, the gateway and the ledger |
| `Research_proofs` | theorems about the evidence chain, papers, the profile, continuations and the repairs of planning nodes |
| `MCResearch_proofs` | theorems about these components side by side, and about the planning nodes with restored ones |
| `Proofbench_proofs`, `FiniteModel_proofs` | theorems about the tools, the controller, the search and sessions; about propagation, residual models and the encodings |
| `MCProofbench_proofs` | theorems about the components of `tools/proofbench` side by side |

`RunLifecycle` and `StructuredRepair` both extend `RunState`: they share the
record and its functions, and differ in what they keep beside it (the programs;
the planning results). `V9Controller` composes `ProofEngine` with the policy,
`FiniteEncoding` extends `FiniteModel`. Where a component needs only the outcome
of another it takes it as a free choice: `RunLifecycle` takes what a handler
makes of a node, `LLMGateway` and `EvidenceChain` say how such outcomes arise.

### The record (`RunState`)

A record keeps what scheduling and the gates read. `status` and `node` are the
run's and the nodes' statuses; six BLOCKED statuses the code never
tells apart are one, BLOCKED_OTHER, and STOPPED, which nothing writes, is left
out. `lease` is the time left, so that expiry is a fact about the value and not
about a clock. `open` are the decisions with status WAITING_FOR_HUMAN; a closed
decision is gone, for nothing that reads records looks at it. `blocked` are the
nodes with a budget-block record. `selected`, `claims` and `coverage` stand for
the selected question, the verdict the claim ledger supports together with the
state of the mandatory requirements, and the cached `selected_objective_coverage`:
they are separate because the code reads the cache where it could read the
ledger. `snapshot` is what a coverage repair may restore: the nodes which some
history entry shows COMPLETED.

The effect of a command is one operator that takes a record and returns one,
with all the calls of the code in it: `RepairEvidence` reopens the earliest
nodes and all their dependents, invalidates decisions, drops the selected
question and settles the run status; `RunReadiness` refreshes the cache,
completes the node and attempts a package, which may block the node it has just
completed. A skill decision is the one with an empty `blocked_nodes`
(`src/capabilities.py:282`); four causes are kept because their answers do four
different things.

### The programs (`RunLifecycle`)

`disk` is the record in the file, `stored` the execution nodes whose immutable
report exists, `proc` what each program does, with its private copy. A program
that is not idle is a worker or a supervisor in its loop, executing a node, or
past storing that node's report; or a command between its load and its save.

| Code | Actions |
|---|---|
| `run_worker` | `StartWorker`, `LeaseReadyNode`, node outcomes, `LoopEnds` |
| `run_until_waiting` | `StartSupervisor`, `LeaseReadyNode`, node outcomes, `SupervisorWaits`, `SupervisorPackages`, `LoopEnds` |
| `execute` and handlers | `StoreReport`, `ReportConflict`, `FinishNode`, `StopNode`, `ExhaustBudget`, `HandOff` |
| `decide` | `Answer` (option A of a decision with a bundle: command "answer"), `Submit` (any other choice: command "decide") |
| `extend-budget`, `repair-evidence-relevance`, `repair-research-completion-coverage`, `package` | `ExtendLimit`, `RepairEvidenceRelevance`, `RepairCompletionCoverage`, `Package`, `CommandFails` |
| environment | `Crash`, `Tick` |

The commands are those of `LifecycleCommands`. Three commands of
`src/research_cli.py` that load, rewrite and save the same record are not among
them: `repair-routing-decisions` (`:155`) and `repair-structured-generation`
(`:171`), which `StructuredRepair` models, and `repair-external-continuation`
(`:199`), which `ExternalContinuation` models. What they do depends on planning
results, validators and continuations that the record of `RunLifecycle` does not
keep. The properties of `RunLifecycle`, the runs that check them and the theorems about them
speak of the other commands only; under the three most of them are false
(section 6).

Loading is an action of its own and saving is one: everything another program
can do falls between them. Executing a node and saving its outcome are one step,
since the copy is private in between; only the report of an execution node,
which is visible at once, is stored in a step before. A supervisor that meets
a stop status leaves without saving, as `LoopEnds` does. `LoopEnds` is also the
end of the node budget `--max-nodes`, of any size from 1: a program that has
executed a node may end, one at the start of its loop ends only where the code
breaks. Which of the ready nodes is leased and
which outcome a handler has are free choices.

`RESEARCH_ARTIFACT_ROOT` is taken to be shared by the programs of a run, which
the resume workflow needs as well.

### The components beside the record

What a step is follows from what others can see. A model of files
(`ArtifactStore`, `PaperPipeline`, `LocalProfile`, `ProofSession`) has one action
per file operation, so that a process may die, or another come, between any two,
and inside a write that is not a replacement ("torn"). A model of the record
(`ExternalContinuation`, `StructuredRepair`, `EvidenceChain`) has one action per
command or handling with its save, since overlapping programs are
`RunLifecycle`'s subject and the copy is private. A model of a loop
(`LLMGateway`, `ProofSearch`, `V9Controller`, `FiniteModel`) has one action per
round of the loop.

* `ArtifactStore`: `op` is the put each process is in: check, replace the file,
  read the manifest, write it. The fallback of `_persist_node_artifact` tries
  again under a suffix; `produced` is what the node was completed with.
* `LLMGateway`: `charged` is the copy of the worker, `saved` the record; a worker
  that dies forgets the difference. `Handling` is everything between taking the
  node up and `Finish`: one disjunct per way the call ends.
* `EvidenceLedger`: `mem` is the object, `disk` the file. An update changes `mem`
  before it is validated, as `update_claim` does, and a refusal leaves it changed;
  `StopsOnError` says whether the caller goes on with that object.
* `ExternalContinuation`: `answered` is the run record: the decisions, the list of continuations, the
  active one (an alias of an entry until the record was saved and loaded, a copy
  afterwards), and the allowance of one free call per accepted answer.
* `StructuredRepair`: `run` is a record of `RunState`, `planning` has which results exist, which of them the current
  validators reject, what was answered, and how often the skeleton-first path
  regenerated. `Upgrade` tightens a validator between two versions of the program.
* `EvidenceChain`: every result is the number of the execution that made it, so
  that results of different plans can be told apart after a repair.
* `PaperPipeline`: packages are numbers for their hashes; `quality` is what the
  gates make of each.
* `LocalProfile`: `here` and `fits` are the disks and the free memory of the
  moment, `bench` is the benchmark under way with the configurations it began with.
* `ProofEngine` and `V9Controller`: a candidate text is what the validators say
  of it. Tools are called in any order (`MCProofbench` part "tools"); the
  controller calls them as its turns do.
* `ProofSearch`: `answers` is Lean, which answers a goal and a tactic once and for
  all; a node is its prefix of tactics with the goal the prefix leads to.
* `ProofSession`: `disk` is `session.json`, `proc` the command with its copy; a
  hash is the content itself, so that an integrity check compares contents.
* `FiniteModel`: values are sets of true literals. `FiniteEncoding` checks the
  encodings against all assignments of the original variables.

### The abstract specification (`DagProgress`)

A reader who sees only which nodes are COMPLETED should see: a node joins when
its dependencies are in; nodes leave only by a repair command that the operator
started, and what is left is closed under dependencies. The repair commands meant are
`repair-evidence-relevance` and `repair-research-completion-coverage`; what the three
commands left out of `RunLifecycle` leave is not closed (section 6). `ImplementsDagProgress`
maps `done` to the COMPLETED nodes of the file and `repairing` to a repair
command between its load and its save. It is checked and
proved for one program at a time: with two it is false, as finding `LostUpdate`
shows.

## 3. Runs

| Run | Instance | Distinct states | Shows |
|---|---|---|---|
| Reopening | 7 nodes, one program | 793,154 | types, dependency order, a decision for every waiting run, verification is earned; the commands of `LifecycleCommands` but the coverage repair |
| Coverage | 6 nodes, one program | 771,846 | decisions and their nodes in step, reports behind completed executions, refinement of `DagProgress`; the commands of `LifecycleCommands`, every cause but ATOMIC |
| Concurrent | 2 nodes, two programs | 229,506 | the inductive invariant and the reports, with overlapping programs and expiring leases |
| Liveness | 2 nodes, two programs | 62,554 | supervisors stop, leases of dead workers are recovered |
| Research | the eight components of `MCResearch` | 209,425 | each keeps what it promises through crashes, refusals, retries and repairs |
| Proofbench | the components of `MCProofbench` | 437,347 | tools, controller, search and sessions are sound; propagation and encodings are exact |
| SkillHandoff, EvidenceHandoff, OptionB, AtomicAfterCoverage, LostUpdate, CrashAfterReport | 2 or 3 nodes | counterexamples | findings, section 5 |

### The run

The DAG of a run is the default chain of 13 nodes with some left out. The seven
nodes of `LongChain` have one of every kind the code tells apart: a model node
that evidence repair reopens on demand, the evidence node itself, the node that
selects the question, the skill node, an execution node, adjudication,
readiness. `feasibility_analysis` behaves as a model node without a selection,
`replication` as a second execution node, the others as nodes that only complete
or stop; a second of a kind adds states and no behaviour.

Bounds. `LeaseTTL` is 1 tick, or 2 where two programs race, so that a lease can
expire at once, late or never during an execution. `MaxOpen` bounds the
decisions open together: two, where a worker that goes on past a waiting node
can meet a second one (the decisions of one chain are about nodes on different
sides of a finished one, or about skills, which block nothing). `Proc` has two programs
where their order matters, interchangeable, hence SYMMETRY in a run without
temporal properties. No run bounds how often anything is done. `Stops` selects
which of FAILED and BLOCKED_OTHER a handler may end with: it is both in
Reopening and one where they behave alike.

`Commands`, a set of `LifecycleCommands`, and `Causes` select what operators and
handlers do. They separate the
two families Reopening and Coverage for a reason: with atomic answers and the
coverage repair together dependency order is lost (`AtomicAfterCoverage`).

Properties by what would break them, each with a mutant in `PROJECT.json`: a
repair that forgets dependents or decisions, an answer that forgets to
reopen its node or settle the run status, a gate that forgets failing claims, a
recovery that takes nodes which are not leased or takes none, a scheduler
that forgets dependencies, an execution completed before its report is stored,
a blocked node queued again.

### The suites

`Research` and `Proofbench` put models beside each other. `part` picks the one
that moves, the others rest in an initial state (or have no state at all): the
reachable states are the disjoint union of the parts' states. That loses
nothing, for a step of one part neither reads nor writes another's variables,
and a property of one part is about its variables only; a product of all parts
would have the same states of each. Two components appear twice with other
constants: the repairs ("repair" and "restored") and sessions ("session" and
"once", which share their variables). The tools and the controller share the
engine. Deadlock is not checked in these two: a search ends, a bounded manifest
is full, a session is over. Liveness is checked where something has to end.

| Part | Instance | Properties |
|---|---|---|
| store | local backend, one writer, a versioned and a log path, 2 contents, 3 manifest entries | `RecordedIsStored`, `ImmutableIsKept`, `EntriesAreKept` |
| gateway | 3 local configurations, a paid provider or none, 3 questions of which one may fail, limits 2 to 6 | `SpendIsBounded`, `BlockedNodeIsOutOfBudget`, `LoopsEnd` |
| ledger | 2 claims of 3 kinds, 13 updates | `LedgerIsSound`, `PaperWriterChangesNoStatus` |
| continuation | 2 decisions, a budget with 0 or 1 iterations left | `AnswersAreRecoverable`, `AnswersAreFinal` |
| chain | 2 resolvers, 2 executions, 1 repair, 1 crash | `StoredIsOneExecution`, `PackageIsEarned` |
| paper | 2 packages, version 1 asked for or the newest, 2 nodes per call, crashes | `PaperIsSound`, `LoopsEnd` |
| profile | 2 models of which 1 is tried at a time and 1 may come and go (`Removable`), 1 trial, crashes | `ProfileIsMeasured` |
| repair | 5 nodes, 2 open decisions, 1 tightened validator, without the command that restores nodes | `QuestionsAreAsked`, `RepairConverges` |
| restored | the same nodes with that command, 1 open decision, no tightened validator | `RestoredNodesAreRepairable` |
| tools | 1 engine, any order of patches, checks, reverts | `ToolsAreSound` |
| controller | 2 tasks of 5 turns, plateaus of 2 | `RemoteRepairIsEarned` |
| search | 5 goals and a bound of 3 nodes | `SearchIsSound`, `LoopsEnd` |
| session, once | 3 kinds of session, restarts and torn writes; one finite session started once | `SessionIsSound`, `CheckpointsResume` |
| models | all pairs and some triples of constraints over 4 variables | `FactsAreEntailed`, `ResidualIsEquivalent`, `FiniteModelsAreExact`, `LoopsEnd` |
| basis | basis problems up to 4 | `FiniteModelsAreExact` |

Why these bounds suffice. The store needs a second content under one path and a
put that dies at each of its operations, and a manifest that grows over both;
a third entry brings no new relation. The gateway's extremes lie
where the last iteration of the budget meets a call that charges several
attempts: 3 configurations, a repair and limits below, at and beyond what one
handling spends. A continuation needs a second answer while the first is active.
A chain needs a plan after a repair whose files meet those of the plan before.
A paper needs a newer package than the one it is tied to and a call that ends
in the middle of its nodes. A repair needs a decision on either side of the
repaired node. A controller needs a plateau in the second task that began in the
first. A search needs a goal that recurs, one
that comes before the root, and a bound passed in the middle of an expansion.
A session needs a start on a session that exists, in each of its states. The
models of four variables have constraints that force each other against their
order, an `at_least` that fails, and a bound below zero.

### Fairness

`FairSpec` assumes: every program that runs takes its next step (it is a
sequential process, and to be killed is a step too); time goes on; and operators
start workers again and again, whatever else they start (strong fairness of
`StartWorker`, the resume workflow `.github/workflows/research-resume.yml`,
which a person dispatches). No command is assumed ever to be issued and no crash
to happen. `SupervisorStops` needs the first only: every outcome of a
node stops the loop or brings the DAG forward. A repair by another program can
undo progress in the file, but not in the supervisor's copy, which
is why it stops even so. `LeaseIsRecovered` needs all three, and that programs
are not killed for ever in the middle of their work (`Killed`), which it states
itself: a worker killed each time before it saves recovers nothing.

In the suites: `Handling` of the gateway is weakly fair, for a worker that is not
killed runs on, and retries, rounds and configurations are finite in number;
starting a handling, extending a budget or dying is not assumed. So are the
commands of a paper, the search (a single sequential call: whatever Lean and the
models answer, they answer or time out) and propagation, a loop without input.
Nothing else is assumed fair; no property of the other parts says that something
happens.

## 4. Proofs

Theorems hold for every value of the constants that meets the named assumptions,
which the modules state and TLC evaluates on every instance.

### The run

`RunLifecycle_proofs` proves for every DAG over the default
node ids that meets the assumptions, every number of programs, every lease
time, every set of causes and every set of commands from `LifecycleCommands`, that is
without `repair-routing-decisions`, `repair-structured-generation` and
`repair-external-continuation`:

* `TypeCorrect`: TypeOK is invariant.
* `InvariantHolds`: InductiveInvariant is.
* `DependenciesRespected`: a COMPLETED node has COMPLETED dependencies, in the
  file and in every program's memory.
* `DecisionsHold`: an open decision finds its node waiting or COMPLETED, and
  blocks it alone.
* `RunImplementsDagProgress`: with one program at a time, `RunLifecycle`
  implements `DagProgress`.

All but the first assume that the cause ATOMIC and the coverage repair are not both
in use (`NoAtomicWithCoverage`); by finding `AtomicAfterCoverage` the statements are false
without it. They are false with the three commands left out as well: section 6 says
which definition refutes which, so that the bound on the commands (`CommandAssumption`)
is a hypothesis like any other and not a matter of size.

Why strengthen. That COMPLETED nodes have COMPLETED dependencies is not
inductive. A coverage repair restores nodes from its history: what it restores
must be closed under dependencies (`SnapshotClosed`). An answer completes a node
without looking at dependencies, and `submit` and `invalidate` reopen nodes: a
node on which a decision is open must have completed dependencies and no
completed dependents, or be COMPLETED already (`DecisionsHoldTheirNodes`, and
`DependenciesBehindProgress` for all statuses but PENDING and LEASED). A worker
completes the node it executes in its copy: that copy must still hold the node
LEASED with completed dependencies (`ExecutionHeld`). Two decisions must not block
one node, or the second answer would meet the effect of the first.

The argument. No program changes a copy other than by the functions of
`RunState`, and the file only ever becomes some program's copy. The invariant
therefore speaks of each record separately and of each program with its own
copy; last-writer-wins can replace a newer record by an older one and never
mixes two. So the lemmas are about functions: each keeps `RunRecord`
(`...Type(s)`) and `RecordConsistent` (`...Consistent`), and `StepSound` and
`OperateSound` lift them to actions, one step of the proof per action.

Assumptions on constants, stated in the modules and evaluated by TLC on every
instance: the node ids are those of the default DAG (`NodeAssumption`); no
upstream node depends on a downstream one (`UpstreamAssumption`); what depends on
a discovery node lies behind `evidence_discovery` or is one of the discovery
nodes (`DiscoveryAssumption`), since `repair-evidence-relevance` reopens exactly
these; the sets of commands, causes and stops are of the known ones. The
default chain meets all of them, and so does every chain of `MCRunLifecycle`.
Nothing bounds the size of the DAG beyond the node ids, and no acyclicity is
needed.

`RunImplementsDagProgress` needs, beyond the invariant, that the copy of the one
program that runs has the completed nodes of the file (`ProgressInvariant`). Each
function of `RunState` then either leaves the completed nodes alone or adds one
whose dependencies are completed (`Adds`), and `MappedSteps` says which step
of `DagProgress` that is. Only the two evidence repairs do anything else, and
what they leave is closed because the record is consistent.

`RunHandoffs_proofs`, about the same commands, needs neither that assumption nor the invariant:

* `WaitingNodesAreAsked`: a question or evidence node that waits is named by an
  open decision. `WaitingRunsAsk`: a waiting run has one. (Of the
  commands left out: `QuestionsStayAsked` below has the first for both structured
  repairs and the second without the coverage repair; with it the second is false.)
* `ReportsPrecedeCompletion`: a completed execution has its report in the store.

Each is kept by every function of a record and a report store that only grows,
so that no overwriting can break it (`HandoffInvariant`).

The same module proves `VerifiedRunsAreEarned`: RESEARCH_COMPLETE without
open decisions means sufficient coverage, direct claims and completed
executions. It assumes `NoAtomicWithCoverage` and `EvidenceIsExecuted`: the run
has executions, adjudication lies behind each, and readiness behind every node,
as in the default chain (`src/research_state.py:27-39`). The three facts are
established at different times by different handlers, and repairs undo them
separately; status and coverage may outlive what they were computed from. They
agree nevertheless because a record's claims are judged once. The strengthening
(`RecordEarned`, `ProgramEarned`) says: a record that has a verdict has its
adjudication COMPLETED, or has lost an execution; then all reports are in the
store; and a program that is past storing a report has no verdict in its copy. A
repair that reopens the adjudication reopens executions with it, their
reports are immutable, and no second execution completes. (That the run is
then stuck is finding `CrashAfterReport`, and `ReopenedCanComplete` of section 6.)

### Services

`Services_proofs`, about the store, the gateway and the ledger:

* `StoreTypeCorrect` for every backend and any processes; for a local
  store and one writer, `RecordedIsAlwaysStored`, `ImmutableIsAlwaysKept`,
  `EntriesAreAlwaysKept`, through any crash between two file operations. The
  invariant (`StoreInv`) says what a put knows at each of its operations: a
  path it found free is still free, the manifest it read is still the
  manifest.
* `SpendingIsBounded`: the calls charged exceed the largest
  limit by at most the number of local configurations. `CallIsBounded` relates
  the attempts of a provider call to the configurations it has been through; that
  a crash loses charges in memory but not those saved is part of it.
  `BlockedIsOutOfBudget`: a node that is blocked on its budget, with no block
  record to be extended by, has used up its limit.
* For callers that stop at a refusal, `LedgerSound` (saved
  claims pass the ledger's own check, and the two gates decide alike) and
  `PaperWriterHasNoSay`. The invariant is that memory and file agree while the
  ledger is open; without the assumption all of it is false (section 6).
  `LedgerTypeCorrect` needs no such caller: even what a refusal leaves in memory is
  a map of claims (`MigratedClaims`, `UpdatedClaims`).

### Making a result

`Research_proofs`, about the parts between a question and a paper:

* Evidence chain: `StoredIsAlwaysOneExecution` and `PackagesAreEarned`, for any
  number of executions, repairs and crashes. A package rests on four
  things that different nodes made at different times: the stored result, its
  validation, its replication and the claims. Why they belong together is that
  the provenance is stored first and immutable: until then nothing is stored or
  concluded (`NothingBefore`), and afterwards a second execution fails, so that
  whatever a completed node has left (`Left`) is about the same execution.
* Papers: `PapersStandOnUsableClaims` holds for any number of processes, a paper
  interrupted anywhere and packages replaced meanwhile: the content a
  reference was compared with never changes, it can only be replaced. The
  other half of `PaperIsSound`, that a complete paper is the one written, is
  `PapersAreSound`, under the hypothesis of one paper process; two
  of them break it by writing in another order than they finish.
* Profile: `ProfilesAreMeasured`, in any order of discoveries, benchmarks,
  tests, torn writes and requests. A measurement is kept in three places (profile,
  artifact, running benchmark); `ProfileInv` says of each that its tasks are among
  those a trial was good for.
* Continuations: `AnswersStayFinal` (an applied answer stays applied, and none
  loses its free call), `AnswersCanBeTakenUp` (a waiting refinement has a
  decision; a second repair changes nothing). The invariant (`RunInv`) is that
  what is active and what a recovery names are answers that were given and not
  applied. One repair goes through all answers, so that its part of the proof is
  by the first answer that could break this.
* Repairs of the planning nodes: `RepairsConverge`. The repair is eleven
  passes one after another, and each reads what those before have written. Each
  leaves its own cause of repair absent (`Quiet` lists them), and no later pass
  brings it back, for later passes only remove results, decisions and statuses
  (`NoMore`). So the first repair ends quiet (`RepairQuiets`), and on
  a quiet record every pass is the identity (`RepairOfQuiet`).
* `QuestionsStayAsked`: a planning node that waits is named by an open decision;
  and without the coverage repair a waiting run has a question, and no question
  about a planning result outlives it. The first half follows from one look at each
  kind of step (`StepKind`). The second needs an order: a node that is not PENDING stands
  behind completed ones, but for a discovery queued again that leaves the evidence
  (`InPlace`); at most one decision is about a planning result, and its node waits
  (`OneQuestion`). In the middle of a repair a waiting run may have lost its
  decision, once a node was queued again, and `Replan` settles that at the end:
  `Orderly` is what every pass keeps, `RunOrderly` what holds between commands.

### Proofbench

`Proofbench_proofs` and `FiniteModel_proofs`:

* `ToolsStaySound`: whatever tools are called in whatever order, a frozen file is
  one its validators passed, and a complete engine has a program and a proof that
  passed. A checkpoint is ranked by verdicts that may be older than its texts, so that a
  revert could bring back anything; but all checkpoints made before a freeze rank
  below the one made with it. `SupervisedToolsAreSound` is the same under the
  supervisor.
* `RemoteRepairStaysEarned`: a remote model is asked only after a plateau
  of its own, Terra only after Luna failed, over any number of tasks and turns.
* `SearchStaysSound`: replaying a node's prefix leads to its goal, no goal is
  searched twice, the specialist is asked at dead ends only, and the bound is
  passed by the children of one expansion at most. `SearchInv` has to follow an
  expansion through its three phases: which children the current node has, and
  which answers are still to come.
* `SessionStaysSound`: what a checkpoint calls verified has the artifact that Lean
  accepted, through restarts, resumptions, deaths and torn writes. For a finite
  session that is started once, `CheckpointsStayResumable` (a saved handoff
  passes its own integrity check, and a saved conclusion's certificate is the one on
  disk) and, if checkpoints are written whole, `VerifiedSessionsStay`: together what
  `CheckpointsResume` checks. `OnceInv` says when a file may change under a
  checkpoint: the bundle while there is none, the certificate while neither the
  checkpoint nor the copy is verified.
* `PropagationIsSound` (a value holds in all solutions, a
  contradiction means there are none), `ValuesAreFunctional`, `ResidualIsSound`
  (the residual model has the model's solutions among the assignments that agree
  with the values), `PropagationIsComplete` (it stops when nothing more is forced),
  for every number of variables and every model. The counting
  step, that a full `at_most` forces the other literals false, is
  `ForcedIsEntailed`.
* `EncodingsAreExact`: the CNF of a model has the model's solutions, for every
  number of variables and every model. That a solution can be extended to the
  counters is shown by the values that count; that no values of the counters
  let an overflow through by the first input whose counter is wrong, which
  contradicts a clause (the guard at every input is one of those it needs). Counters of
  different constraints share no variable (`AuxApart`), so the values can be
  chosen for each on its own.
* `BasisModelsAreExact`: the solutions of a basis problem's model select exactly the
  bases, for any bound on the elements; the pair variables are numbered apart from each
  other and from the elements. `OptionsHold`: every basis takes one of the ways
  the readable trace leaves open, since what propagation found holds of it.

### The compositions

`MCResearch_proofs` and `MCProofbench_proofs` prove of the composed `Spec` what
the two suites check, for every value of their constants and every set of parts:
`ComponentsTypeCorrect`, `ResearchStaysSound`, `ResultsStay`,
`RestoredNodesStayRepairable` and, for callers that write one at a time
and stop at a refusal, `WritersStaySound`;
`BenchTypeCorrect`, `BenchStaysSound`, `BenchRepairIsEarned`,
`CheckpointsStayResumed` and `FiniteModelsStayExact`. Only `LoopsEnd` is left to TLC.

A step of one part leaves the others' variables alone, so that a behaviour of
the composition is one of each component (`EachComponentRuns`), and a theorem
about a component carries over. Three things do not carry over so easily. In the
proof bench parts share variables, and with them an invariant (`BenchInv`): the
tools and the controller move one engine, both sessions one checkpoint.
`RemoteRepairIsEarned` is proved again, for there the engine also moves without
its supervisor. And `CheckpointsResume`, `RestoredNodesAreRepairable` and the
part of `FiniteModelsAreExact` about basis problems speak of a second instance
of a module under other constants: the proof modules are instantiated with these
(`OnceProofs`, `RestoredProofs`, `BasisProofs`), their assumptions proved of the
second constants (`OnceParameters`, `RestoredParameters`; that all variables of
a basis problem are numbered), and each operator of the one instance shown equal
to the other's (the lemmas `Same...`).

### Assumptions of the components

Each component's module names one assumption on its constants, which says what
they are (numbers, sets, a default among the limits); none bounds them.
`PlanningAssumption` of `StructuredRepair` says more: the planning nodes are the
chain of the default DAG (`src/research_state.py:25`) and everything else comes
behind it. `LedgerAssumption` says that updates write values that some claim
has, `BenchAssumption` that the empty model is among the models and that a
second session has statements to formalise, which the parts at rest need. Some
theorems have a hypothesis of their own, for their statement is false without
it: one writer on a local store, callers of the ledger that stop at a refusal,
one paper process, a finite session that is started once. `QuestionsAreAsked`
itself excludes the coverage repair from its second half.

### Only model-checked

Liveness (`SupervisorStops`, `LeaseIsRecovered`, `LoopsEnd`) and what it needs of
ENABLED are out of the prover's reach, and the counterexamples of section 5 are
TLC's. Every other property of a passing run is stated by a
theorem, under the hypotheses named above.

The induction theorems of the library take an operator as a parameter, which the
provers cannot be given. Where an induction is needed it is stated as a set of
numbers with a least member: the answers of one repair, the versions of the
packages, the prefixes of a search, the inputs of a counter. The traversal of
`mark_dependent_nodes_pending` is defined as the least closed set it computes
and not by recursion, so that it can be proved about.

## 5. Findings

Each is a run with a counterexample and quotes what it contradicts.

* `SkillHandoff`: a decision about a failed skill names no node; answered, the
  node waits for ever.
* `EvidenceHandoff`: option A for `evidence_discovery` installs nothing; the
  decision is resolved and the node waits for ever.
* `OptionB`: the option that says "run remains blocked" unblocks the run.
* `AtomicAfterCoverage`: a coverage repair leaves the decision on a restored
  node open; an atomic answer reopens the node under completed dependents.
* `LostUpdate`: two workers on one run; the last save erases the other's node.
* `CrashAfterReport`: a worker killed between storing its report and saving the
  record makes the node FAIL when it is executed again.

Met but not listed as findings: RESEARCH_COMPLETE survives an evidence repair
while a decision is open (`verify` then reports WAITING, so
`VerifiedRunIsEarned` holds); a node blocked by a provider's 429 has no block
record and no command reopens it. What the models of the other components
refute is listed in section 6.

## 6. Statements the code does not keep

While the components were modelled TLC refuted more statements of the comments,
docstrings, tests or README than the six findings. Each is a definition of its
module, with the statement it comes from in a comment; none is a property of a
run. The instance is that of the suite, and the part's own specification;
constants are named where others are needed. They are also the reason why the proofs
above carry the assumptions they do.

| Definition | Module | Instance | What the code does |
|---|---|---|---|
| `ReadIsLatest` | ArtifactStore | | a second result goes to a versioned path, `_read_artifact` reads the plain one (`src/research_runtime.py:4869`) |
| `ManifestVerifies` | ArtifactStore | | an execution log is overwritten, its first manifest entry never verifies again (`src/research_runtime.py:4887`) |
| `EntriesAreKept` | ArtifactStore | two writers | the manifest is read, appended and written back without a lock (`src/storage.py:125`) |
| `ImmutableIsKept`, `EntriesAreKept` | ArtifactStore | Backend "s3" | uploads ignore `immutable` (`src/storage.py:181`); a failed read of the manifest counts as an empty one (`:210`) |
| `FailuresBeforeTheModelAreFree` | LLMGateway | | an incompatible backend is charged as a call (`src/llm_gateway.py:239`) |
| `ExtensionRaisesTheLimit` | LLMGateway | | the first extension may lower the default limit (`src/budget_control.py:79`) |
| `SavedClaimsAreValid`, `PaperWriterChangesNoStatus` | EvidenceLedger | StopsOnError FALSE | a refused update stays in memory and is saved by the next one (`src/ledger.py:95`) |
| `ReconcileKeepsCompleted` | ExternalContinuation | | a repair reopens a node that was answered otherwise since, and not its dependents (`src/research_runtime.py:1655`) |
| `ReconcileAllIsIdempotent` | ExternalContinuation | | whether the backend is checked depends on the answers repaired before (`src/research_runtime.py:1599`) |
| `BudgetStopIsRecorded` | ExternalContinuation | MaxLeft 2 | a continuation left active hides a later node's budget stop from `extend-budget` (`src/research_runtime.py:2651`) |
| `ContinuationNeedsNoBudget` | ExternalContinuation | MaxLeft 2 | the free call covers one task, the question for the observable is another (`src/research_runtime.py:1475`) |
| `ReopenedCanComplete` | EvidenceChain | MaxRepairs 2 | every second execution of a run fails on its immutable report (`src/research_runtime.py:4618`) |
| `ConstructedSkillIsFound` | EvidenceChain | MaxRepairs 2 | the skill of an earlier plan's requirement is found for a new one (`src/capabilities.py:85`) |
| `StartIsFromLastRevision` | PaperPipeline | First 9 | v10 sorts before v9 (`src/research_package.py:81`) |
| `PaperStaysTied` | PaperPipeline | Crashes | a package file precedes the record that counts it, and is overwritten after a crash (`src/research_package.py:25`) |
| `PlannedOnVerified` | PaperPipeline | | the newest package is looked up again after one was verified (`src/paper_pipeline.py:100`) |
| `EvidenceIsKept` | LocalProfile | MaxConfigs 2 | a model whose disk is away loses its measurement (`src/local_inference.py:1224`) |
| `RestoredIsTheLastBenchmark` | LocalProfile | 1 model, Trials 2 | a smoke artifact brings back a measurement that the last benchmark withdrew (`src/local_inference.py:1376`) |
| `WaitingRunAsks` | StructuredRepair | with the coverage repair, MaxOpen 2 | the last decision is invalidated and the run status not settled (`src/research_runtime.py:2359`) |
| `EvidenceQuestionsAreCurrent` | StructuredRepair | MaxUpgrades 3 | a repair plans the run while a question about evidence is open (`src/research_runtime.py:2359`), the next resets the evidence and leaves the question (`:2581`) |
| `FeasibilityFollowsRefinement` | StructuredRepair | the same as `WaitingRunAsks` | decisions on reset dependents survive unless the run waits (`src/research_runtime.py:2581`) |
| `CompletedFollowsDependencies` | StructuredRepair | | a candidate that is dropped queues discovery again and leaves the evidence collected for it (`src/research_runtime.py:2286`) |
| `FinishedRunIsExecuted` | StructuredRepair | Commands {} | a repair queues the planning nodes of a finished run and their dependents and keeps its status (`src/research_runtime.py:1752`, `:2359`, `:2581`) |
| `OneRegeneration` | StructuredRepair | MaxFresh 2 | a repair sets the count of regenerations back (`src/research_runtime.py:1966`) |
| `RefinementHasACandidate` | StructuredRepair | MaxFresh 2 | discovery and refinement are queued together (`src/research_runtime.py:2286`) |
| `AnswerSurvivesRepair` | StructuredRepair | MaxFresh 2 | a skeleton left by a failed regeneration takes back the answer given in its place (`src/research_runtime.py:1752`) |
| `RegressionIsReverted` | V9Controller | HasTransport FALSE | a checkpoint ranks the new text by the old verdict (`tools/proofbench/proof_engine.py:45`) |
| `PublicCompleteIsEarned` | ProofEngine | SupervisedSpec | `unfreeze` leaves the verdict on the Python file in place (`tools/proofbench/proof_engine.py:138`) |
| `VerifiedIsSupported` | ProofSearch | MaxNodes 4 | a blueprint node is verified although its children's nodes are not (`tools/proofbench/proof_orchestrator.py:394`) |
| `ExhaustedTriedPortfolio` | ProofSearch | MaxNodes 4 | the rest of the portfolio is dropped after the first progress (`tools/proofbench/proof_orchestrator.py:451`) |
| `FiniteFailureIsHandedOff` | ProofSearch | MaxNodes 4, HasModel FALSE | a refused final validation ends without the assessment (`tools/proofbench/proof_orchestrator.py:442`) |
| `CheckpointLoads` | ProofSession | TornWrites | `session.json` is written in place (`tools/proofbench/proof_session.py:141`) |
| `HandoffResumes` | ProofSession | Kinds "boolean", or Restarts with Interrupts | a Boolean handoff lacks what resume asks for (`tools/proofbench/proof_session.py:178`); the bundle is rewritten before its hash (`:398`) |
| `HandoffCloses`, `CertificateIsKept` | ProofSession | Restarts, MaxLemmas 6 | start forgets that a session was verified (`tools/proofbench/proof_session.py:254`, `:377`) |
| `ResumeKeeps` | ProofSession | Kinds "adapter" | a rejected hint takes the status back (`tools/proofbench/proof_session.py:470`) |
| `LeanLemmaIsDecided` | ProofSession | | `re` is not imported (`tools/proofbench/proof_session.py:418`) |
| `ResidualIsBuilt` | FiniteModel | models with `at_least` | the literals of an `at_least` are renumbered with other constraints' numbers: KeyError (`tools/proofbench/proof_engineering.py:455`) |

Six of these are what becomes of the properties of `RunLifecycle` under the three
commands it leaves out:

| Property of `RunLifecycle` | Refuted by |
|---|---|
| `CompletionRespectsDependencies`, `ImplementsDagProgress` and with them `InductiveInvariant` | `ReconcileKeepsCompleted` (a reopened refinement under COMPLETED dependents), `CompletedFollowsDependencies`, `FeasibilityFollowsRefinement` |
| `WaitingRunHasOpenDecision` | `WaitingRunAsks`, with the coverage repair |
| `OpenDecisionHoldsItsNode` | `EvidenceQuestionsAreCurrent` |
| `VerifiedRunIsEarned` | `FinishedRunIsExecuted`: the model ends a run as PARTIAL_RESEARCH, since it does not follow the coverage, and the code writes RESEARCH_COMPLETE in the same branch and keeps it alike |

`WaitingModelNodeHasOpenDecision` is kept by them: it is the first half of
`QuestionsAreAsked`. `CompletedExecutionHasReport` is about handlers and the
store, which the three do not touch.

The runs check what does hold of the same code: that the paper in the file is the
one that was finished, that a repair converges and leaves no node waiting
unasked, that a session started once and written whole can be resumed.

## 7. Plan

1. An abstract specification of the paper pipeline (a paper is a function of one
   package) and of the store (an append-only map), with refinements.
2. The dialogue of atomic questions inside a handler, which `StructuredRepair` and
   `ExternalContinuation` take from two sides: one model of both.
3. The matching of requirements to measurements in `src/objective_coverage.py`,
   as operators checked against a reference definition.
4. Key-value caches and `routing_profile.json` of the local profile.

## 8. Not modelled, and why

In `RunLifecycle`, the commands `repair-routing-decisions`,
`repair-structured-generation` and `repair-external-continuation`: they are modelled one
at a time in `StructuredRepair` and `ExternalContinuation`, and neither meets the
overlapping programs, crashes and leases of `RunLifecycle`.

Texts, prompts, scores and files; what a handler computes, beyond its outcome;
notifications; attempts and timestamps, which nothing reads to decide;
`record_verification`, whose fields scheduling does not read; the task-class
check at a supervisor's start, which fails only for records of another version;
`release_node_lease`, which nothing calls; the legacy reconciliation of nodes
FAILED with MAX_AGENT_ITERATIONS by old versions, and the branches of the
structured repair for the same records (`repair_guided_candidate_question_handoff`).
A save of the run record is atomic because `os.replace` is; a full disk is a crash.

In `LLMGateway`, the free call of an external continuation
(`src/llm_gateway.py:49-60`), which `ExternalContinuation` has: `SpendIsBounded` is
about calls without it. In `FiniteModel`, that the literals of an `at_least` are
renumbered in the original model as well (`tools/proofbench/proof_engineering.py:451`): no
code builds one, and `ResidualIsBuilt` shows the step fail.

Of the components beside the record: cost limits and the limit on strong calls
(every actual cost is 0, and no caller requests a strong call); regenerating a
bundle's text; promotion of skills and the bounded cache of models, which nothing
calls; several processes on one ledger, which nothing opens twice; the paper's
package, `paper_package.json`, is one write, and one paper process works at a time;
decisions of a paper, which no node requests. In `StructuredRepair` a worker leases
ready nodes in the alphabetical order of their ids, for `run_state.json` is saved
with sorted keys. In proofbench, `proof_gym` and the reports, the texts of Lean
files and prompts, and the summary over cases.

Literature, retrieval, modalities, the notifier, the stand-alone agent, trials,
release audit, scripts and workflows are I/O, projections or straight-line glue
without state that another step reads. The stop workflow
(`.github/workflows/research-stop.yml:24`) calls a command that the CLI does not
have: there is no stop request to model.

## 9. Running

    tlc -config Reopening.cfg MCRunLifecycle      # Coverage, Concurrent, Liveness, the findings
    tlc -config Research.cfg MCResearch
    tlc -config Proofbench.cfg MCProofbench
    tlapm RunLifecycle_proofs.tla                   # and every other _proofs module

No run of `MCRunLifecycle` turns deadlock checking off: a worker can always be
started. The two suites do, for their parts may end. A single part is checked by
giving `Parts` one element. A definition of section 6 is checked on its own module
with the constants of the suite: as INVARIANT when it is a state predicate, as
PROPERTY otherwise (`ResumeKeeps` is an action: `[][ResumeKeeps]_vars`).
