---------------------------- MODULE V9Controller ----------------------------
(***************************************************************************)
(* The supervisor of ProofBench V9, tools/proofbench/v9_controller.py: one *)
(* task after the other, each a ProofEngine that a local model edits one   *)
(* intent per turn, and that a remote model may repair after a plateau.    *)
(* The escalation policy is created once and outlives the tasks.           *)
(***************************************************************************)
EXTENDS ProofEngine, Sequences

CONSTANTS
  Tasks,            \* how many tasks are selected
  MaxActions,       \* turns of one task (96)
  PlateauMin,       \* control_plateau: minimum (8)
  PlateauWindow,    \* control_plateau: window (5)
  InfraLimit,       \* infrastructure retries per model (1)
  HasTransport      \* whether remote repair is enabled

ASSUME ControllerAssumption ==
  /\ Tasks \in Nat \ {0} /\ MaxActions \in Nat \ {0}
  /\ PlateauMin \in Nat \ {0} /\ PlateauWindow \in 1 .. PlateauMin
  /\ InfraLimit \in Nat /\ HasTransport \in BOOLEAN

VARIABLES
  control,   \* "turn", "escalate" or "done"
  task,      \* the task at work
  turn,      \* turns taken in it
  history,   \* the last PlateauMin entries of control_history
  policy,    \* EscalationPolicy
  status,    \* the result of each task
  since      \* turns since the task began or a remote model last answered

supervisorVars == <<control, task, turn, history, policy, status, since>>
controllerVars == <<engine, supervisorVars>>

Model == {"luna", "terra"}
CallLimit == 1
Entry == [rank : 0 .. 44, progress : BOOLEAN]
Policy == [calls : [Model -> 0 .. CallLimit], infra : [Model -> 0 .. InfraLimit],
           lunaProgress : BOOLEAN, disabled : BOOLEAN]
TaskStatus == {"UNKNOWN", "LEAN_SPEC_BUILD_FAILURE", "PASS",
               "HIDDEN_GENERALIZATION_FAILURE", "MUTATION_SOURCES_EXHAUSTED",
               "PUBLIC_INCOMPLETE"}

ControllerTypeOK ==
  /\ EngineTypeOK
  /\ control \in {"turn", "escalate", "done"}
  /\ task \in 1 .. Tasks /\ turn \in 0 .. MaxActions
  /\ history \in Seq(Entry) /\ Len(history) <= PlateauMin
  /\ policy \in Policy
  /\ status \in [1 .. Tasks -> TaskStatus]
  /\ since \in 0 .. MaxActions

-----------------------------------------------------------------------------
\* prepare: a program that finds nothing, a proof that only imports the spec.
Scaffold == [n \in AllowedFiles |->
               IF n = Python THEN "PUBLIC_RUNTIME_FAILURE" ELSE "COMPILE_PASS"]

\* Check until the phase stays as it is; there are only two to pass.
ValidateUntilStable(e) ==
  IF e.phase = "PUBLIC_COMPLETE" THEN e
  ELSE IF Check(e).phase \in {e.phase, "PUBLIC_COMPLETE"} THEN Check(e)
  ELSE Check(Check(e))

FreshEngine == ValidateUntilStable(NewEngine(Scaffold))

\* What the local model may make of the engine in a turn, besides nothing:
\* an accepted edit is checked at once.
Edited(e) == {Check(ApplyPatch(e, n, text)) :
                n \in Editable(e), text \in PyText \cup LeanText}
EditedInPhase(e) == {f \in Edited(e) : f.files \in Files}

\* A regression is answered by a revert and a check of the phase's file.
AfterEdit(e, f) == IF Rank(f) < Rank(e) THEN Check(Revert(f)) ELSE f

\* A baseline is established after a revert and on entering a phase.
Settled(e, g) == IF g.phase # e.phase THEN ValidateUntilStable(g) ELSE g

Outcomes(e) ==
  {ValidateUntilStable(Revert(e)), e, Settled(e, Check(e))} \cup
  {Settled(e, AfterEdit(e, f)) : f \in EditedInPhase(e)}

\* Mutant of LastOf: every entry is kept.
AllOf(s) == s

LastOf(s) == IF Len(s) > PlateauMin THEN Tail(s) ELSE s

Plateau(h) ==
  /\ Len(h) >= PlateauMin
  /\ \A i \in Len(h) - PlateauWindow + 1 .. Len(h) :
       ~ h[i].progress /\ h[i].rank = h[Len(h)].rank

\* Mutant of Allow: Terra does not wait for Luna.
AllowEither(p, m) == ~ p.disabled /\ p.calls[m] < CallLimit

Allow(p, m) ==
  /\ ~ p.disabled /\ p.calls[m] < CallLimit
  /\ m = "terra" => p.calls["luna"] > 0 /\ ~ p.lunaProgress

\* The model the next repair goes to: Luna before Terra.
Chosen(p) == IF Allow(p, "luna") THEN {"luna"}
             ELSE IF Allow(p, "terra") THEN {"terra"} ELSE {}

RecordCall(p, m, progress) ==
  [p EXCEPT !.calls[m] = @ + 1,
            !.lunaProgress = @ \/ (m = "luna" /\ progress)]

-----------------------------------------------------------------------------
SupervisorStart ==
  /\ control = "turn" /\ task = 1 /\ turn = 0 /\ history = <<>>
  /\ policy = [calls |-> [m \in Model |-> 0], infra |-> [m \in Model |-> 0],
               lunaProgress |-> FALSE, disabled |-> FALSE]
  /\ status = [t \in 1 .. Tasks |-> "UNKNOWN"]
  /\ since = 0

ControllerStart == engine = FreshEngine /\ SupervisorStart

\* planner_prompt, execute_plan and what follows it up to the plateau test.  An
\* invalid reply, a rejected edit and an intent that only looks leave the
\* engine as it is.
Turn ==
  /\ control = "turn" /\ engine.phase # "PUBLIC_COMPLETE" /\ turn < MaxActions
  /\ turn' = turn + 1 /\ since' = since + 1
  /\ engine' \in Outcomes(engine)
  /\ LET entry == [rank |-> Rank(engine'),
                   progress |-> Rank(engine') > Rank(engine)]
     IN history' = LastOf(Append(history, entry))
  /\ control' = IF engine'.phase # "PUBLIC_COMPLETE" /\ Plateau(history')
                  THEN "escalate" ELSE "turn"
  /\ UNCHANGED <<task, policy, status>>

\* The status of the task at work is recorded and the next one prepared.
NextTask(st) ==
  /\ status' = [status EXCEPT ![task] = st]
  /\ IF task = Tasks
       THEN /\ control' = "done"
            /\ UNCHANGED <<engine, task, turn, history, since>>
       ELSE /\ control' = "turn" /\ task' = task + 1 /\ turn' = 0 /\ since' = 0
            /\ engine' = FreshEngine /\ history' = <<>>

\* The hidden evaluation of a public pass, or the end of the turns.
TaskEnds ==
  /\ control = "turn"
  /\ \/ /\ engine.phase = "PUBLIC_COMPLETE"
        /\ \E st \in {"PASS", "HIDDEN_GENERALIZATION_FAILURE"} : NextTask(st)
     \/ /\ engine.phase # "PUBLIC_COMPLETE" /\ turn = MaxActions
        /\ NextTask("PUBLIC_INCOMPLETE")
  /\ UNCHANGED policy

\* activate_lean_workspace fails: the task is skipped before its first turn.
SpecBuildFails ==
  /\ control = "turn" /\ turn = 0
  /\ NextTask("LEAN_SPEC_BUILD_FAILURE")
  /\ UNCHANGED policy

\* escalation_step finds nobody to ask, or the last retry is spent.
SourcesExhausted ==
  /\ control = "escalate"
  /\ \/ Chosen(policy) = {}
     \/ \E m \in Chosen(policy) : policy.infra[m] = InfraLimit
  /\ NextTask("MUTATION_SOURCES_EXHAUSTED")
  /\ UNCHANGED policy

\* A timeout, a missing program, or no transport at all.
InfrastructureFails ==
  /\ control = "escalate"
  /\ \E m \in Chosen(policy) :
       /\ policy.infra[m] < InfraLimit
       /\ policy' = [policy EXCEPT !.infra[m] = @ + 1]
  /\ control' = "turn"
  /\ UNCHANGED <<engine, task, turn, history, status, since>>

AccountFails ==
  /\ control = "escalate" /\ HasTransport /\ Chosen(policy) # {}
  /\ policy' = [policy EXCEPT !.disabled = TRUE]
  /\ control' = "turn"
  /\ UNCHANGED <<engine, task, turn, history, status, since>>

\* Mutant of RemoteAnswers: the plateau that led to the call is remembered.
RemoteAnswersOnPlateau ==
  /\ control = "escalate" /\ HasTransport
  /\ \E m \in Chosen(policy), e \in {engine} \cup EditedInPhase(engine) :
       /\ engine' = e
       /\ policy' = RecordCall(policy, m, Rank(e) > Rank(engine))
  /\ control' = "turn" /\ since' = 0
  /\ UNCHANGED <<task, turn, history, status>>

\* A substantive answer is counted and the plateau forgotten.  An unusable or
\* unchanged candidate changes nothing; another one is patched and checked,
\* and stays even if its rank is lower.
RemoteAnswers ==
  /\ control = "escalate" /\ HasTransport
  /\ \E m \in Chosen(policy), e \in {engine} \cup EditedInPhase(engine) :
       /\ engine' = e
       /\ policy' = RecordCall(policy, m, Rank(e) > Rank(engine))
  /\ history' = <<>>
  /\ control' = "turn" /\ since' = 0
  /\ UNCHANGED <<task, turn, status>>

ControllerNext ==
  \/ Turn \/ TaskEnds \/ SpecBuildFails \/ SourcesExhausted
  \/ InfrastructureFails \/ AccountFails \/ RemoteAnswers

ControllerSpec == ControllerStart /\ [][ControllerNext]_controllerVars

-----------------------------------------------------------------------------
\* Terra is asked only after Luna failed to improve the rank, whatever tasks,
\* plateaus and infrastructure failures lie between the two calls.
TerraFollowsLuna ==
  policy.calls["terra"] > 0 => policy.calls["luna"] > 0 /\ ~ policy.lunaProgress

\* A remote model is asked after a plateau of its own: enough turns have passed
\* since the task began or the other model answered, and failed retries of the
\* infrastructure do not count as answers.
RepairAfterFreshPlateau ==
  policy'.calls # policy.calls => since >= PlateauMin

\* A remote model is asked after a plateau of its own, and Terra only after Luna
\* failed to improve the rank.
RemoteRepairIsEarned ==
  [][RepairAfterFreshPlateau /\ TerraFollowsLuna']_controllerVars

\* A turn never leaves the engine with a lower rank than it found
\* (tools/proofbench/v9_controller.py:706: a rank regression never displaces
\* the best validated candidate).
RegressionIsReverted == [][Turn => Rank(engine') >= Rank(engine)]_controllerVars
=============================================================================
