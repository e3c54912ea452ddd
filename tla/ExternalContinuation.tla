------------------------- MODULE ExternalContinuation -------------------------
(***************************************************************************)
(* What becomes of an accepted external answer to an atomic question of    *)
(* question_refinement (src/research_runtime.py): submission, the          *)
(* continuation that a worker starts from it, the ways it ends, and the    *)
(* command repair-external-continuation.  feasibility_analysis, the next   *)
(* node, stands for the nodes that only share the run record with it.      *)
(*                                                                         *)
(* active_external_continuation is the entry of the list itself while a    *)
(* worker continues it, and a copy of its own once the run was saved and   *)
(* loaded: a later change of the copy does not reach the list.             *)
(***************************************************************************)
EXTENDS Integers, Folds

CONSTANTS
  MaxDecisions,  \* bound on the decisions asked for
  MaxLeft        \* agent iterations that a budget extension leaves

ASSUME ContinuationAssumption == MaxDecisions \in Nat \ {0} /\ MaxLeft \in Nat \ {0}

Ids == 1..MaxDecisions

VARIABLES
  answered,    \* the run record, see Run
  asking   \* question that the running handler asks, "idle" between handlings

continuationVars == <<answered, asking>>

\* STANDARD: runtime, operation_count, memory or correctness.  OBSERVABLE: output_value
\* or other, whose observable has to be named by a model.
AnswerKind == {"STANDARD", "OBSERVABLE"}
Continuation == {"none", "PENDING", "STARTED", "BLOCKED_ENGINEERING", "SEMANTIC_REJECTED", "APPLIED"}
Stop == {"WAITING_FOR_HUMAN", "BLOCKED_BUDGET", "BLOCKED_ENGINEERING_REQUIRED", "BLOCKED_MISSING_LLM", "FAILED"}
RefinementStatus == {"PENDING", "RUNNING", "COMPLETED"} \cup Stop

Run ==
  [status : {"PLANNED_RESEARCH"} \cup Stop,
   refinement : RefinementStatus, feasibility : RefinementStatus,
   budgetStop : BOOLEAN,                       \* feasibility was stopped by the budget
   recorded : SUBSET {"refinement", "feasibility"},  \* nodes with a budget-block record
   asked : 0..MaxDecisions,                    \* decisions 1..asked exist
   open : SUBSET Ids, atomic : SUBSET Ids,
   answer : [Ids -> {"none"} \cup AnswerKind],
   continuation : [Ids -> Continuation],       \* external_decision_continuations
   used : SUBSET Ids,                          \* allowance used up
   failed : SUBSET Ids,                        \* with a runtime failure among the events
   recovery : 0..MaxDecisions,                 \* answer that the recovery carries, 0 for none
   active : 0..MaxDecisions,                   \* active_external_continuation
   request : BOOLEAN,                          \* open request for the local runtime
   left : 0..MaxLeft]                          \* agent iterations left

ContinuationTypeOK ==
  answered \in Run /\ asking \in {"idle", "local", "observable", "informativeness"}

-----------------------------------------------------------------------------
\* The first atomic question is open: a local reselection found no measurement.
ContinuationInit ==
  /\ asking = "idle"
  /\ \E left \in 0..MaxLeft :
       answered = [status |-> "WAITING_FOR_HUMAN", refinement |-> "WAITING_FOR_HUMAN", feasibility |-> "PENDING",
              budgetStop |-> FALSE, recorded |-> {}, asked |-> 1, open |-> {1}, atomic |-> {1},
              answer |-> [d \in Ids |-> "none"], continuation |-> [d \in Ids |-> "none"],
              used |-> {}, failed |-> {}, recovery |-> 0, active |-> 0, request |-> FALSE, left |-> left]

PlannedOnceClosed(s) == [s EXCEPT !.status = IF s.open = {} THEN "PLANNED_RESEARCH" ELSE @]

CloseQuestion(s, d) == PlannedOnceClosed([s EXCEPT !.open = @ \ {d}])

\* continue_atomic_decision_response
Install(s, d) == [s EXCEPT !.recovery = d, !.refinement = "PENDING"]

-----------------------------------------------------------------------------
(* The human. *)

\* Option A: the answer of an atomic question is continued, that of a node replaces
\* its result.
SubmitAnswer(d, a) ==
  /\ asking = "idle" /\ d \in answered.open
  /\ answered' = IF d \in answered.atomic
            THEN CloseQuestion([Install(answered, d) EXCEPT !.answer[d] = a, !.continuation[d] = "PENDING"], d)
            ELSE CloseQuestion([answered EXCEPT !.refinement = "COMPLETED"], d)
  /\ UNCHANGED asking

\* Mutant of Dismiss: the node goes on waiting.
DismissOnly(d) == asking = "idle" /\ d \in answered.open /\ answered' = CloseQuestion(answered, d) /\ UNCHANGED asking

\* Another option.
Dismiss(d) ==
  /\ asking = "idle" /\ d \in answered.open
  /\ answered' = CloseQuestion([answered EXCEPT !.refinement = IF @ = "WAITING_FOR_HUMAN" THEN "PENDING" ELSE @], d)
  /\ UNCHANGED asking

ExtendIterations ==
  /\ asking = "idle" /\ answered.left < MaxLeft
  /\ LET Reopened(name, status) ==
           IF name \in answered.recorded /\ status = "BLOCKED_BUDGET" THEN "PENDING" ELSE status
         refinement == Reopened("refinement", answered.refinement)
         feasibility == Reopened("feasibility", answered.feasibility)
         reopened == answered.refinement # refinement \/ answered.feasibility # feasibility
     IN answered' = [answered EXCEPT !.left = MaxLeft, !.refinement = refinement, !.feasibility = feasibility,
                           !.budgetStop = @ /\ answered.feasibility = feasibility,
                           !.status = IF reopened /\ @ = "BLOCKED_BUDGET" THEN "PLANNED_RESEARCH" ELSE @]
  /\ UNCHANGED asking

-----------------------------------------------------------------------------
(* How a handling of question_refinement stops. *)

BlockRefinement(s, status) == [s EXCEPT !.refinement = status, !.status = status]

\* _external_reasoning_required
Ask(s, isAtomic) ==
  LET d == s.asked + 1 IN
    [BlockRefinement(s, "WAITING_FOR_HUMAN") EXCEPT !.asked = d, !.open = @ \cup {d},
                                          !.atomic = IF isAtomic THEN @ \cup {d} ELSE @]

\* Marks the entry of the list; without one there is nothing to mark.
Mark(s, status) ==
  IF s.active = 0 THEN s ELSE [s EXCEPT !.continuation[s.active] = status]

\* Mutant of InfrastructureFailure: the allowance stays used up.
FailureKeepsUsed(s) ==
  [BlockRefinement(Mark(s, "BLOCKED_ENGINEERING"), "BLOCKED_ENGINEERING_REQUIRED") EXCEPT
     !.failed = @ \cup ({s.active} \cap Ids), !.request = TRUE, !.active = 0]

InfrastructureFailure(s) ==
  [BlockRefinement(Mark(s, "BLOCKED_ENGINEERING"), "BLOCKED_ENGINEERING_REQUIRED") EXCEPT
     !.failed = @ \cup ({s.active} \cap Ids), !.used = @ \ {s.active}, !.request = TRUE, !.active = 0]

BudgetExceeded(s) ==
  IF s.active # 0 THEN BlockRefinement(Mark(s, "BLOCKED_ENGINEERING"), "BLOCKED_ENGINEERING_REQUIRED")
  ELSE [BlockRefinement(s, "BLOCKED_BUDGET") EXCEPT !.recorded = @ \cup {"refinement"}]

Exception(s) ==
  IF s.active # 0 THEN BlockRefinement(Mark(s, "BLOCKED_ENGINEERING"), "BLOCKED_ENGINEERING_REQUIRED")
  ELSE BlockRefinement(s, "FAILED")

\* What an invocation that failed may come to; a decoding configuration, a missing
\* provider and malformed output leave the continuation as it is.
Failures(s) ==
  {Exception(s), BlockRefinement(s, "BLOCKED_ENGINEERING_REQUIRED"), BlockRefinement(s, "BLOCKED_MISSING_LLM"), BlockRefinement(s, "FAILED")}
    \cup (IF s.asked < MaxDecisions THEN {Ask(s, FALSE)} ELSE {})

\* Mutant of Applied: the recovery is not removed.
AppliedKeepsRecovery(s) ==
  [Mark(s, "APPLIED") EXCEPT !.refinement = "COMPLETED", !.active = 0,
                             !.request = @ /\ s.active = 0]

\* _complete_recovered_computational_refinement with a valid skeleton.
Applied(s) ==
  LET t == [Mark(s, "APPLIED") EXCEPT !.refinement = "COMPLETED"] IN
    IF s.active = 0 THEN t ELSE [t EXCEPT !.active = 0, !.recovery = 0, !.request = FALSE]

\* The skeleton is not valid; another kind of measurement is asked for.
SemanticRejected(s) == Ask(Mark(s, "SEMANTIC_REJECTED"), TRUE)

Judged(s) ==
  {Applied(s)} \cup (IF s.asked < MaxDecisions THEN {SemanticRejected(s), Ask(s, FALSE)} ELSE {})

-----------------------------------------------------------------------------
(***************************************************************************)
(* The worker.  A handling works on its own copy of the run: a worker that *)
(* dies leaves the record of before Start and a lease that expires, so a   *)
(* crash adds no state to those below.                                     *)
(***************************************************************************)

\* _guided_computational_question_refinement with a recovery.
StartRefinement ==
  /\ asking = "idle" /\ answered.refinement = "PENDING"
  /\ LET d == answered.recovery IN
       IF d = 0 THEN /\ answered' = [answered EXCEPT !.refinement = "RUNNING"]
                     /\ asking' = "local"
       ELSE /\ answered' = [answered EXCEPT !.refinement = "RUNNING", !.continuation[d] = "STARTED", !.active = d]
            /\ asking' = IF answered.answer[d] = "STANDARD" THEN "informativeness" ELSE "observable"

Stops(outcomes) == answered' \in outcomes /\ asking' = "idle"

\* The recovery carries no external answer: a model selects the kind.
ReselectLocally ==
  /\ asking = "local"
  /\ Stops(IF answered.left = 0 THEN {BudgetExceeded(answered)}
           ELSE LET s == [answered EXCEPT !.left = @ - 1] IN
                  {InfrastructureFailure(answered)} \cup Failures(s) \cup Judged(s))

NameObservable ==
  /\ asking = "observable"
  /\ \/ answered.left = 0 /\ Stops({BudgetExceeded(answered)})
     \/ answered.left > 0 /\ Stops({InfrastructureFailure(answered)} \cup Failures([answered EXCEPT !.left = @ - 1]))
     \/ answered.left > 0 /\ asking' = "informativeness" /\ answered' = [answered EXCEPT !.left = @ - 1]

\* can_spend: when no iteration is left, a started continuation has one for free.
Allowed(s) == s.left = 0 /\ s.active # 0 /\ s.active \notin s.used

\* Mutant of AskInformativeness: the budget is not looked at.
AskUnchecked ==
  /\ asking = "informativeness"
  /\ LET s == [answered EXCEPT !.left = @ - 1] IN Stops({InfrastructureFailure(answered)} \cup Failures(s) \cup Judged(s))

AskInformativeness ==
  /\ asking = "informativeness"
  /\ LET s == IF answered.left > 0 THEN [answered EXCEPT !.left = @ - 1]
                              ELSE [answered EXCEPT !.used = @ \cup {answered.active}]
     IN Stops(IF answered.left = 0 /\ ~ Allowed(answered) THEN {BudgetExceeded(answered)}
              ELSE {InfrastructureFailure([s EXCEPT !.left = answered.left])} \cup Failures(s) \cup Judged(s))

FeasibilityReady == asking = "idle" /\ answered.refinement = "COMPLETED" /\ answered.feasibility = "PENDING"

FeasibilityCompletes ==
  /\ FeasibilityReady /\ answered.left > 0
  /\ answered' = [answered EXCEPT !.feasibility = "COMPLETED", !.left = @ - 1]
  /\ UNCHANGED asking

\* The same exception branches of execute, for a node that continues nothing.
FeasibilityFails ==
  /\ FeasibilityReady
  /\ LET Blocked(status) == [answered EXCEPT !.feasibility = status, !.status = status] IN
       \/ /\ answered.left = 0
          /\ answered' = IF answered.active # 0
                    THEN [Blocked("BLOCKED_ENGINEERING_REQUIRED") EXCEPT !.budgetStop = TRUE]
                    ELSE [Blocked("BLOCKED_BUDGET") EXCEPT !.budgetStop = TRUE,
                                                           !.recorded = @ \cup {"feasibility"}]
       \/ answered' = [Blocked("BLOCKED_ENGINEERING_REQUIRED") EXCEPT !.request = TRUE, !.active = 0]
       \/ /\ answered.left > 0
          /\ answered' = Blocked(IF answered.active # 0 THEN "BLOCKED_ENGINEERING_REQUIRED" ELSE "FAILED")
  /\ UNCHANGED asking

-----------------------------------------------------------------------------
(* repair-external-continuation *)

AnsweredDecisions(s) == {d \in s.atomic \ s.open : s.answer[d] # "none"}

\* Mutant of NeedsBackend: an answer that was found blocked before is not looked at.
NeedsBackendOnce(s, d) ==
  \/ s.refinement = "BLOCKED_ENGINEERING_REQUIRED" /\ s.continuation[d] = "STARTED"
  \/ s.request /\ d \in s.failed

\* The backend is looked at again when a runtime failure is what stopped the answer.
NeedsBackend(s, d) ==
  \/ s.refinement = "BLOCKED_ENGINEERING_REQUIRED" /\ s.continuation[d] \in {"STARTED", "BLOCKED_ENGINEERING"}
  \/ s.request /\ d \in s.failed

Reinstalled(s, d) == [Install(s, d) EXCEPT !.continuation[d] = "PENDING", !.status = "PLANNED_RESEARCH"]

Rechecked(s, d, available) ==
  LET t == [s EXCEPT !.used = @ \ {d}, !.active = 0] IN
    IF available THEN Reinstalled(t, d)
    ELSE [t EXCEPT !.continuation[d] = "BLOCKED_ENGINEERING", !.refinement = "BLOCKED_ENGINEERING_REQUIRED",
                   !.status = "BLOCKED_ENGINEERING_REQUIRED"]

\* Mutant of ReconcileOne: an applied answer is restored like any other.
ReconcileApplied(s, d, available) ==
  IF NeedsBackend(s, d) THEN Rechecked(s, d, available) ELSE Reinstalled(s, d)

ReconcileOne(s, d, available) ==
  IF s.continuation[d] = "APPLIED" THEN s
  ELSE IF NeedsBackend(s, d) THEN Rechecked(s, d, available)
  ELSE Reinstalled(s, d)

\* The answers are gone through in the order of their decisions.
ReconcileAll(s, D, available) ==
  MapThenFoldSet(LAMBDA d, t : ReconcileOne(t, d, available), s, LAMBDA d : d,
                 LAMBDA S : CHOOSE d \in S : \A e \in S : d >= e, D)

Reconcile ==
  /\ asking = "idle"
  /\ \E D \in {AnsweredDecisions(answered)} \cup {{d} : d \in AnsweredDecisions(answered)}, available \in BOOLEAN :
       D # {} /\ answered' = ReconcileAll(answered, D, available)
  /\ UNCHANGED asking

-----------------------------------------------------------------------------
Human == ExtendIterations \/ \E d \in Ids : Dismiss(d) \/ \E a \in AnswerKind : SubmitAnswer(d, a)
Worker == StartRefinement \/ ReselectLocally \/ NameObservable \/ AskInformativeness
            \/ FeasibilityCompletes \/ FeasibilityFails

ContinuationNext == Human \/ Worker \/ Reconcile

ContinuationSpec == ContinuationInit /\ [][ContinuationNext]_continuationVars

-----------------------------------------------------------------------------
\* A node never waits for a human without an open decision that would reopen it,
\* whichever of several answers was restored in between.
WaitingRefinementHasDecision == answered.refinement = "WAITING_FOR_HUMAN" => answered.open # {}

\* A recovery never carries an answer that was applied already: it would start the
\* continuation of a node that is complete.
RecoveryIsUnapplied == answered.recovery # 0 => answered.continuation[answered.recovery] # "APPLIED"

\* Repairing one answer twice does what repairing it once does, whether or not the
\* backend is back and whatever the node became in between.
ReconcileIsIdempotent ==
  asking = "idle" => \A d \in AnsweredDecisions(answered), available \in BOOLEAN :
    LET once == ReconcileOne(answered, d, available) IN ReconcileOne(once, d, available) = once

\* What a failure or a repair leaves of an answer can be taken up again: a refinement
\* that waits has a decision, and repairing an answer twice is repairing it once.
AnswersAreRecoverable == WaitingRefinementHasDecision /\ ReconcileIsIdempotent

\* The same of the command without a decision, which goes through all answers.
ReconcileAllIsIdempotent ==
  asking = "idle" => \A available \in BOOLEAN :
    LET once == ReconcileAll(answered, AnsweredDecisions(answered), available) IN
      ReconcileAll(once, AnsweredDecisions(once), available) = once

\* An applied continuation stays applied: neither a repair nor a later failure of
\* another node reaches it.
AppliedIsFinal ==
  \A d \in Ids : answered.continuation[d] = "APPLIED" => answered'.continuation[d] = "APPLIED"

\* A runtime failure never uses up the allowance of the answer it interrupts: the
\* retry can validate the answer even when no iteration is left.
InterruptedKeepsAllowance ==
  \A d \in Ids : d \in answered'.failed \ answered.failed => d \notin answered'.used

\* An answer that was applied stays applied, through repairs and later answers; one
\* that was not is the only one a recovery names, and a handling that dies uses up no
\* call of its allowance.
AnswersAreFinal ==
  [][AppliedIsFinal /\ InterruptedKeepsAllowance /\ RecoveryIsUnapplied']_continuationVars

\* A node that the budget stopped has a block record, by which extend-budget finds it.
BudgetStopIsRecorded ==
  answered.budgetStop => answered.feasibility = "BLOCKED_BUDGET" /\ "feasibility" \in answered.recorded

\* Restoring a continuation does not reopen a node that was completed.
ReconcileKeepsCompleted ==
  [][answered.refinement = "COMPLETED" /\ answered.open = {} /\ answered'.open = {} => answered'.refinement = "COMPLETED"]_continuationVars

\* An accepted answer is continued without a call that the budget has to pay.
ContinuationNeedsNoBudget ==
  [][asking # "idle" /\ answered.recovery # 0 /\ answered.left = 0 => answered' # BudgetExceeded(answered)]_continuationVars
=============================================================================
