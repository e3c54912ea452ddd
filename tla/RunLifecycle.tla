---------------------------- MODULE RunLifecycle ----------------------------
(***************************************************************************)
(* A research run driven by workers, supervisors and operator commands.    *)
(*                                                                         *)
(* run_state.json is one file.  Every program loads it whole, works on its *)
(* private copy and writes the copy back whole (atomic_update_state): the  *)
(* file is never torn, and the last writer wins.  There is no lock; the    *)
(* lease a worker writes into the record is the only coordination.         *)
(*                                                                         *)
(*   worker.py      StartWorker, LeaseNode, the node's outcome, WorkerStops*)
(*   supervisor.py  StartSupervisor, the same, and the actions Supervisor* *)
(*   research_cli.py  StartCommand and one action per command of           *)
(*                  LifecycleCommands                                      *)
(*                                                                         *)
(* Execution and the save after it are one step: nobody sees the private   *)
(* copy in between.  An execution node first stores its report under a     *)
(* fixed immutable path (StoreReport), which outlives a crash.             *)
(***************************************************************************)
EXTENDS RunState

CONSTANTS
  Proc,       \* the programs that may run at the same time
  Commands,   \* the operator commands used
  Causes,     \* the causes for which decisions are requested
  Stops       \* the statuses of a node that failed or lacks something

\* The commands modelled here, which write the record from what it says of
\* nodes and decisions.  "answer" is decide --option A with a response,
\* "decide" any other choice.  Three commands that write the record are NOT
\* among them: repair-routing-decisions and repair-structured-generation
\* (module StructuredRepair) and repair-external-continuation (module
\* ExternalContinuation).  They go by the planning results of the nodes, which
\* this record leaves out, and the properties below speak of the commands of
\* this set only: those three break most of them (README section 6).
\* (repair-external-reasoning rewrites the text of a bundle and nothing else.)
LifecycleCommands ==
  {"answer", "decide", "extend-budget", "repair-evidence-relevance",
   "repair-research-completion-coverage", "package"}

ASSUME CommandAssumption == Commands \subseteq LifecycleCommands
ASSUME CauseAssumption == Causes \subseteq Cause
ASSUME StopAssumption == Stops \subseteq {"BLOCKED_OTHER", "FAILED"}

VARIABLES
  disk,     \* the run record in run_state.json
  stored,   \* the execution nodes whose immutable report is in the store
  proc      \* what each program is doing, and its private copy

vars == <<disk, stored, proc>>

NoNode == "none"
\* In its loop a program is at "start" until it has executed a node.
Pc == {"idle", "start", "loop", "executing", "stored"} \cup LifecycleCommands
Kind == {"none", "worker", "supervisor", "command"}

Program ==
  [pc : Pc, kind : Kind, copy : RunRecord, node : Node \cup {NoNode}]

IdleProgram ==
  [pc |-> "idle", kind |-> "none", copy |-> CreateRunState, node |-> NoNode]

TypeOK ==
  /\ disk \in RunRecord
  /\ stored \subseteq ExecutionNodes
  /\ proc \in [Proc -> Program]

Init ==
  /\ disk = CreateRunState
  /\ stored = {}
  /\ proc = [p \in Proc |-> IdleProgram]

-----------------------------------------------------------------------------
(* When a program goes on after saving a record. *)

\* worker.py breaks on BLOCKED* and FAILED only.
WorkerBreaks(st) ==
  st \in {"BLOCKED_BUDGET", "BLOCKED_OTHER", "BLOCKED_RESEARCH_NOT_READY",
          "FAILED"}

\* TERMINAL_OR_WAITING of supervisor.py.
SupervisorBreaks(st) == st \in StopStatus \cup {"RESEARCH_COMPLETE"}

Breaks(kind, st) ==
  IF kind = "worker" THEN WorkerBreaks(st) ELSE SupervisorBreaks(st)

Exit(p) == proc' = [proc EXCEPT ![p] = IdleProgram]

\* The program saves s as the outcome of the node it executed, and breaks or
\* goes round its loop again.
SaveOutcome(p, s) ==
  /\ disk' = s
  /\ proc' = [proc EXCEPT ![p] =
       IF Breaks(@.kind, s.status) THEN IdleProgram
       ELSE [@ EXCEPT !.pc = "loop", !.copy = s, !.node = NoNode]]

\* The program saves s and exits.
SaveAndExit(p, s) == disk' = s /\ Exit(p)

-----------------------------------------------------------------------------
(* Workers and supervisors *)

Start(p, kind, pc, s) ==
  /\ proc[p].pc = "idle"
  /\ proc' = [proc EXCEPT ![p] =
                [pc |-> pc, kind |-> kind, copy |-> s, node |-> NoNode]]
  /\ UNCHANGED <<disk, stored>>

StartWorker(p) == Start(p, "worker", "start", RecoverExpiredLeases(disk))

StartSupervisor(p) ==
  Start(p, "supervisor", "start",
        RecoverExpiredLeases(InvalidateStaleRouting(disk)))

InLoop(p) == proc[p].pc \in {"start", "loop"}

\* A supervisor goes on only without open decisions and without a stop status.
MayLease(p) ==
  \/ proc[p].kind = "worker"
  \/ /\ proc[p].copy.open = {}
     /\ proc[p].copy.status \notin StopStatus

\* What acquire_node_lease looks at: the copy with expired leases recovered.
Recovered(p) == RecoverExpiredLeases(proc[p].copy)

LeaseReadyNode(p) ==
  /\ InLoop(p) /\ MayLease(p)
  /\ \E n \in ReadyNodes(Recovered(p)) :
       LET s == LeaseNode(Recovered(p), n) IN
         /\ disk' = s
         /\ proc' = [proc EXCEPT ![p] =
                       [@ EXCEPT !.pc = "executing", !.copy = s, !.node = n]]
  /\ UNCHANGED stored

\* The node budget (--max-nodes, at least 1) is used up, a worker finds nothing
\* ready, or a supervisor a stop status.
LoopEnds(p) ==
  /\ \/ proc[p].pc = "loop"
     \/ /\ InLoop(p) /\ proc[p].kind = "worker"
        /\ ReadyNodes(Recovered(p)) = {}
     \/ /\ InLoop(p) /\ proc[p].kind = "supervisor"
        /\ proc[p].copy.open = {} /\ proc[p].copy.status \in StopStatus
  /\ Exit(p)
  /\ UNCHANGED <<disk, stored>>

SupervisorWaits(p) ==
  /\ InLoop(p) /\ proc[p].kind = "supervisor"
  /\ proc[p].copy.open # {}
  /\ SaveAndExit(p, [proc[p].copy EXCEPT !.status = "WAITING_FOR_HUMAN"])
  /\ UNCHANGED stored

\* write_research_package, or BLOCKED_RESEARCH_NOT_READY, when nothing is ready.
SupervisorPackages(p) ==
  /\ InLoop(p) /\ proc[p].kind = "supervisor" /\ MayLease(p)
  /\ LET s == Recovered(p) IN
       /\ ReadyNodes(s) = {}
       /\ SaveAndExit(p, IF PaperReady(s) THEN WritePackage(s)
            ELSE [s EXCEPT !.status = "BLOCKED_RESEARCH_NOT_READY"])
  /\ UNCHANGED stored

-----------------------------------------------------------------------------
(* The outcomes of executing a node: GenericResearchRuntime.execute *)

Executing(p, n) == proc[p].pc \in {"executing", "stored"} /\ proc[p].node = n

\* put_artifact of execution/provenance.json or replication/report.json.
StoreReport(p) ==
  /\ proc[p].pc = "executing"
  /\ proc[p].node \in ExecutionNodes \ stored
  /\ stored' = stored \cup {proc[p].node}
  /\ proc' = [proc EXCEPT ![p].pc = "stored"]
  /\ UNCHANGED disk

\* The report carries the time it was made, so a second one has another
\* checksum, put_artifact raises ValueError and the node is FAILED.
ReportConflict(p) ==
  /\ proc[p].pc = "executing"
  /\ proc[p].node \in ExecutionNodes \cap stored
  /\ SaveOutcome(p, BlockNode(proc[p].copy, proc[p].node, "FAILED"))
  /\ UNCHANGED stored

\* The record after the handler of n completed it.
Completions(s, n) ==
  IF n = ResearchReadiness THEN {RunReadiness(s)}
  ELSE IF n = ClaimAdjudication
    THEN {[CompleteNode(s, n) EXCEPT !.claims = c] :
            c \in ClaimVerdict \ {"NONE"}}
  ELSE {[CompleteNode(s, n) EXCEPT !.selected = @ \/ n = QuestionRefinement]}

\* Mutant of FinishNode: an execution completes before its report is stored.
FinishNodeBeforeReport(p) ==
  /\ \E n \in Node :
       /\ Executing(p, n)
       /\ \E s \in Completions(proc[p].copy, n) : SaveOutcome(p, s)
  /\ UNCHANGED stored

FinishNode(p) ==
  /\ \E n \in Node :
       /\ Executing(p, n)
       /\ n \in ExecutionNodes => proc[p].pc = "stored"
       /\ \E s \in Completions(proc[p].copy, n) : SaveOutcome(p, s)
  /\ UNCHANGED stored

\* clear_node_outputs drops the selected question on some of the error paths.
Cleared(s, n) ==
  {s} \cup (IF n = QuestionRefinement THEN {[s EXCEPT !.selected = FALSE]}
                                      ELSE {})

\* Missing model or resource, rejected evidence, failed script, exception.
StopNode(p) ==
  /\ \E n \in Node, st \in Stops :
       /\ Executing(p, n)
       /\ \E s \in Cleared(proc[p].copy, n) :
            SaveOutcome(p, BlockNode(s, n, st))
  /\ UNCHANGED stored

\* BudgetExceeded of the model gateway, or a 429 from any provider.
ExhaustBudget(p) ==
  /\ \E n \in Node, recorded \in BOOLEAN :
       /\ Executing(p, n)
       /\ recorded => n \in ModelNodes
       /\ SaveOutcome(p, BudgetBlock(proc[p].copy, n, recorded))
  /\ UNCHANGED stored

\* Which handlers hand over to a human, and why.
MayHandOff(n, cause) ==
  CASE cause = "ROUTING"   -> n \in ModelNodes
    [] cause = "EXHAUSTED" -> n \in ModelNodes \cup {EvidenceDiscovery}
    [] cause = "ATOMIC"    -> n = QuestionRefinement
    [] cause = "SKILL"     -> n = SkillDiscovery

HandOff(p) ==
  /\ FreeIds(proc[p].copy) # {}
  /\ \E n \in Node, cause \in Causes :
       /\ Executing(p, n)
       /\ MayHandOff(n, cause)
       /\ \E s \in Cleared(proc[p].copy, n) :
            SaveOutcome(p, RequestDecision(s, n, cause))
  /\ UNCHANGED stored

-----------------------------------------------------------------------------
(* Operator commands: research_cli.py *)

StartCommand(p) == \E c \in Commands : Start(p, "command", c, disk)

\* The command c, running in p, turns its copy into s.
Run(p, c, s) ==
  /\ proc[p].pc = c
  /\ SaveAndExit(p, s)
  /\ UNCHANGED stored

\* decide --option A with a structured response.
Answer(p) ==
  \E d \in proc[p].copy.open :
    /\ BlockedNodes(d) # {}
    /\ Run(p, "answer", AnswerDecision(proc[p].copy, d))

\* decide with any other option, and every answer to a skill decision.
Submit(p) ==
  \E d \in proc[p].copy.open :
    Run(p, "decide", SubmitDecision(proc[p].copy, d))

\* The record is saved as it was when the new limit does not exceed the usage.
ExtendLimit(p) ==
  \E s \in {proc[p].copy, ExtendBudget(proc[p].copy)} :
    Run(p, "extend-budget", s)

\* The record is saved as it was when evidence and search pass the checks.
RepairEvidenceRelevance(p) ==
  \/ Run(p, "repair-evidence-relevance", proc[p].copy)
  \/ \E withQuestion \in BOOLEAN :
       /\ EvidenceRepairable(proc[p].copy, withQuestion)
       /\ Run(p, "repair-evidence-relevance",
              RepairEvidence(proc[p].copy, withQuestion))

RepairCompletionCoverage(p) ==
  Run(p, "repair-research-completion-coverage", RepairCoverage(proc[p].copy))

Package(p) ==
  Run(p, "package", IF PaperReady(proc[p].copy) THEN WritePackage(proc[p].copy)
                                                ELSE proc[p].copy)

\* A command rejects its arguments or raises: nothing is saved.
CommandFails(p) ==
  /\ proc[p].kind = "command"
  /\ Exit(p)
  /\ UNCHANGED <<disk, stored>>

-----------------------------------------------------------------------------
(* The environment *)

\* The program is killed: its copy is lost.
Crash(p) ==
  /\ proc[p].pc # "idle"
  /\ Exit(p)
  /\ UNCHANGED <<disk, stored>>

\* The run record in the file and in the programs' memories.
Records == {disk} \cup {proc[p].copy : p \in Proc}

\* Time passes: every copy of a lease is one tick closer to its expiry.
Tick ==
  /\ \E s \in Records, n \in Node : s.lease[n] > 0
  /\ disk' = Elapse(disk)
  /\ proc' = [p \in Proc |-> [proc[p] EXCEPT !.copy = Elapse(@)]]
  /\ UNCHANGED stored

Step(p) ==
  \/ LeaseReadyNode(p) \/ LoopEnds(p)
  \/ SupervisorWaits(p) \/ SupervisorPackages(p)
  \/ StoreReport(p) \/ ReportConflict(p) \/ FinishNode(p) \/ StopNode(p)
  \/ ExhaustBudget(p) \/ HandOff(p)

Operate(p) ==
  \/ Answer(p) \/ Submit(p) \/ ExtendLimit(p)
  \/ RepairEvidenceRelevance(p) \/ RepairCompletionCoverage(p) \/ Package(p)
  \/ CommandFails(p)

Next ==
  \/ \E p \in Proc : StartWorker(p) \/ StartSupervisor(p) \/ StartCommand(p)
  \/ \E p \in Proc : Step(p)
  \/ \E p \in Proc : Operate(p)
  \/ \E p \in Proc : Crash(p)
  \/ Tick

Spec == Init /\ [][Next]_vars

(***************************************************************************)
(* Fairness.  A program that runs goes on to its next step: it is one      *)
(* sequential process.  Clocks advance.  An operator who is done with      *)
(* commands keeps dispatching resume (research-resume.yml), whatever else  *)
(* is started in between, hence strong fairness.  Nothing makes an         *)
(* operator issue any other command.                                       *)
(***************************************************************************)
Fairness ==
  /\ WF_vars(Tick)
  /\ \A p \in Proc : WF_vars(Step(p) \/ Operate(p)) /\ SF_vars(StartWorker(p))

FairSpec == Spec /\ Fairness

-----------------------------------------------------------------------------
(* Safety *)

\* Work is accepted in dependency order: in the file and in every program's
\* memory a COMPLETED node has COMPLETED dependencies, whatever answers,
\* repairs, crashes and last-writer-wins saves of this module came before.
CompletionRespectsDependencies ==
  \A s \in Records, n \in Node :
    s.node[n] = "COMPLETED" => DependenciesSatisfied(s, n)

\* An open decision that blocks a node finds it waiting or, after a coverage
\* repair, COMPLETED: an answer never completes or reopens a node that a
\* worker may be executing.  Two open decisions never block the same node.  With
\* the commands of this module: StructuredRepair!EvidenceQuestionsAreCurrent is
\* refuted.
OpenDecisionHoldsItsNode ==
  \A s \in Records : \A d \in s.open : \A n \in BlockedNodes(d) :
    /\ s.node[n] \in {"WAITING_FOR_HUMAN", "COMPLETED"}
    /\ \A e \in s.open : n \in BlockedNodes(e) => e = d

\* A node with an installer for the human's answer never waits in vain: while
\* it is WAITING_FOR_HUMAN an open decision names it.
WaitingModelNodeHasOpenDecision ==
  \A s \in Records, n \in ModelNodes :
    s.node[n] = "WAITING_FOR_HUMAN" =>
      \E d \in s.open : n \in BlockedNodes(d)

\* A run that reports WAITING_FOR_HUMAN has a decision to answer: no command of
\* this module closes the last decision and leaves that status, on which every
\* later supervisor would stop.  (StructuredRepair!WaitingRunAsks is refuted.)
WaitingRunHasOpenDecision ==
  \A s \in Records : s.status = "WAITING_FOR_HUMAN" => s.open # {}

\* `verify` passes a run only on the strength of evidence: the cached coverage
\* was sufficient, every node that must execute did, and no claim fails the
\* gate.  RESEARCH_COMPLETE is written in three places, and the evidence repair
\* reopens nodes without touching it while a decision is open.  With the commands
\* of this module, that is: StructuredRepair!FinishedRunIsExecuted is refuted.
VerifiedRunIsEarned ==
  \A s \in Records : Verified(s) =>
    /\ s.coverage /\ s.claims = "DIRECT"
    /\ \A n \in ExecutionNodes : s.node[n] = "COMPLETED"

\* A COMPLETED execution node has its report in the artifact store, also when
\* the worker that stored the report died before it could save the record.
CompletedExecutionHasReport ==
  \A s \in Records, n \in ExecutionNodes :
    s.node[n] = "COMPLETED" => n \in stored

(***************************************************************************)
(* The inductive invariant.  A record keeps the consistency of RunState,   *)
(* holds decisions of the causes in use only, and a program executes a     *)
(* node only while its own copy of the record says so.  It is invariant    *)
(* where an answer that reopens its node (ATOMIC) and the repair that      *)
(* restores nodes are not both in use, under the commands of this module.  *)
(***************************************************************************)
CausesInUse(s) == \A d \in s.open : d.cause \in Causes

ExecutionHeld(p) ==
  /\ proc[p].pc \in {"executing", "stored"} =>
       /\ proc[p].node \in Node
       /\ proc[p].copy.node[proc[p].node] = "LEASED"
       /\ DependenciesSatisfied(proc[p].copy, proc[p].node)
  /\ proc[p].pc \in LifecycleCommands => proc[p].pc \in Commands

InductiveInvariant ==
  /\ TypeOK
  /\ \A s \in Records : RecordConsistent(s) /\ CausesInUse(s)
  /\ \A p \in Proc : ExecutionHeld(p)

\* Every node that waits for a human is named by a decision he can answer:
\* README.md:17 promises resumable human handoffs.
WaitingNodeHasOpenDecision ==
  \A s \in Records, n \in Node :
    s.node[n] = "WAITING_FOR_HUMAN" =>
      \E d \in s.open : n \in BlockedNodes(d)

\* An execution node whose report is in the store does not fail (where no
\* handler fails by itself: Stops = {}): README.md:61 promises that the run
\* keeps the artifacts of its work and continues from the existing state.
StoredReportIsNotAFailure ==
  \A n \in ExecutionNodes : n \in stored => disk.node[n] # "FAILED"

-----------------------------------------------------------------------------
(* Steps *)

RepairCommands ==
  {"repair-evidence-relevance", "repair-research-completion-coverage"}

Repairing == \E p \in Proc : proc[p].pc \in RepairCommands

\* Accepted work is lost only to a repair command: README.md:16 promises that
\* progress is preserved when a part of the run fails.
ProgressPreserved ==
  [][\A n \in Node :
       disk.node[n] = "COMPLETED" /\ disk'.node[n] # "COMPLETED" => Repairing]_vars

\* Option B says that the run remains blocked.
OptionBKeepsRunBlocked ==
  [][\A p \in Proc : Submit(p) => disk'.status # "PLANNED_RESEARCH"]_vars

\* Seen through its COMPLETED nodes, a run that one program at a time works
\* on does its work in dependency order and loses none of it to failures,
\* expired leases, decisions, crashes and the other commands of this module.
Progress == INSTANCE DagProgress WITH
  done <- {n \in Node : disk.node[n] = "COMPLETED"}, repairing <- Repairing
ImplementsDagProgress == Progress!Spec

-----------------------------------------------------------------------------
(* Liveness *)

\* A supervisor stops by itself, even with an unlimited node budget.
SupervisorStops ==
  \A p \in Proc : proc[p].kind = "supervisor" ~> proc[p].kind # "supervisor"

\* A worker or supervisor is killed in the middle of its work.
Killed ==
  \E p \in Proc : proc[p].kind # "command" /\ Crash(p) /\ ~ LoopEnds(p)

\* Once programs stop being killed, a node that a dead worker left LEASED is
\* taken up again: it does not stay LEASED while it could run.
LeaseIsRecovered ==
  \/ []<><<Killed>>_vars
  \/ \A n \in Node :
       disk.node[n] = "LEASED" ~>
         disk.node[n] # "LEASED" \/ ~ DependenciesSatisfied(disk, n)
=============================================================================
