------------------------------- MODULE LLMGateway -------------------------------
(***************************************************************************)
(* One node whose handler asks a language model: the agent-iteration       *)
(* budget (src/budget_control.py), the gateway's repair rounds             *)
(* (src/llm_gateway.py), the local provider's retries and escalation       *)
(* (src/local_inference.py) and what GenericResearchRuntime.execute makes  *)
(* of each failure.  Prompts and answers are left out: an outcome is all   *)
(* that the control depends on.  A handling works on a copy of the run     *)
(* that is saved when it ends, so that a crash loses its charges.          *)
(***************************************************************************)
EXTENDS Integers

CONSTANTS
  Providers,     \* values of RESEARCH_LLM_PROVIDER, set for each worker
  Configs,       \* number of local configurations eligible for the task
  InfraRetries,  \* RESEARCH_LOCAL_INFRASTRUCTURE_RETRIES
  MaxRepairs,    \* repair rounds of the gateway
  Questions,     \* answers that the handler asks for, one after the other
  Catches,       \* those whose caller goes on without an answer
  InitialLimit,  \* MAX_AGENT_ITERATIONS, 0 for no limit
  Limits         \* limits that an operator authorises

ASSUME GatewayAssumption ==
  /\ Providers \subseteq {"local", "gemini", "none"}
  /\ Configs \in Nat \ {0} /\ Questions \in Nat \ {0} /\ Catches \subseteq 1..Questions
  /\ InfraRetries \in Nat /\ MaxRepairs \in Nat /\ InitialLimit \in Nat /\ Limits \subseteq Nat

VARIABLES
  node,        \* status of the node
  reason,      \* failure_reason of a node that is blocked for its budget
  charged,     \* calls in the run's record that count as agent iterations
  saved,       \* charged, as the store has it
  limit,       \* the limit in force
  authorized,  \* whether an extension was ever authorised
  blockLimit,  \* limit_at_block of the node's last block record, -1 for none
  provider,    \* the provider of the worker that handles the node
  phase,       \* where the handling is
  question,    \* the answer that is asked for
  round,       \* the gateway's repair round
  config,      \* the local configuration that is tried
  repairing,   \* whether this is the second prompt to the first configuration
  tries,       \* infrastructure retries of this invocation
  spent,       \* attempts of this provider call that count, not recorded yet
  granted      \* the largest limit that was ever in force

budget == <<charged, saved, limit, authorized, blockLimit, granted>>
call == <<provider, question, round, config, repairing, tries, spent>>
gatewayVars == <<node, reason, budget, phase, call>>

GatewayTypeOK ==
  /\ node \in {"PENDING", "RUNNING", "COMPLETED", "FAILED", "WAITING_FOR_HUMAN", "BLOCKED_BUDGET",
               "BLOCKED_MISSING_LLM", "BLOCKED_ENGINEERING_REQUIRED"}
  /\ reason \in {"none", "MAX_AGENT_ITERATIONS", "429"}
  /\ charged \in Nat /\ saved \in Nat /\ limit \in Nat /\ granted \in Nat
  /\ authorized \in BOOLEAN /\ blockLimit \in Nat \cup {-1}
  /\ provider \in Providers
  /\ phase \in {"idle", "check", "route", "try", "paid"}
  /\ question \in 1..Questions /\ round \in 1..MaxRepairs + 1 /\ config \in 1..Configs
  /\ repairing \in BOOLEAN /\ tries \in 0..InfraRetries /\ spent \in Nat

-----------------------------------------------------------------------------
\* Runs that were blocked before block records existed have none.
GatewayInit ==
  /\ \/ node = "PENDING" /\ reason = "none" /\ charged = 0
     \/ /\ node = "BLOCKED_BUDGET" /\ reason = "MAX_AGENT_ITERATIONS"
        /\ InitialLimit # 0 /\ charged \in InitialLimit..InitialLimit + Configs
  /\ saved = charged /\ limit = InitialLimit /\ granted = InitialLimit
  /\ authorized = FALSE /\ blockLimit = -1 /\ phase = "idle"
  /\ provider \in Providers
  /\ question = 1 /\ round = 1 /\ config = 1 /\ repairing = FALSE /\ tries = 0 /\ spent = 0

\* Mutant of Start: questions counted from 0.
StartZero ==
  /\ phase = "idle" /\ node = "PENDING"
  /\ node' = "RUNNING" /\ phase' = "check" /\ question' = 0 /\ round' = 1
  /\ provider' \in Providers
  /\ UNCHANGED <<reason, budget, config, repairing, tries, spent>>

Start ==
  /\ phase = "idle" /\ node = "PENDING"
  /\ node' = "RUNNING" /\ phase' = "check" /\ question' = 1 /\ round' = 1
  /\ provider' \in Providers
  /\ UNCHANGED <<reason, budget, config, repairing, tries, spent>>

\* The handling is over and the worker saves the run.
Finish(status, why, count, block) ==
  /\ node' = status /\ reason' = why /\ charged' = count /\ saved' = count /\ blockLimit' = block
  /\ phase' = "idle" /\ spent' = 0
  /\ UNCHANGED <<limit, authorized, granted, provider, question, round, config, repairing, tries>>

\* The handler has its answer, or does without it.
GoOn(count) ==
  \/ /\ question < Questions
     /\ question' = question + 1 /\ round' = 1 /\ phase' = "check" /\ charged' = count /\ spent' = 0
     /\ UNCHANGED <<node, reason, saved, limit, authorized, blockLimit, granted,
                    provider, config, repairing, tries>>
  \/ question = Questions /\ Finish("COMPLETED", "none", count, blockLimit)

\* What execute makes of an exception of the gateway, with `count' calls charged.
Raise(status, count) ==
  \/ question \in Catches /\ GoOn(count)
  \/ question \notin Catches /\ Finish(status, "none", count, blockLimit)

\* Mutant of Exhausted: the last iteration of the limit is not the last.
ExhaustedLate == limit # 0 /\ charged > limit

\* can_spend without an external continuation: the free call that an accepted
\* answer allows at the limit is the subject of module ExternalContinuation.
Exhausted == limit # 0 /\ charged + 1 > limit

CheckFails ==
  /\ phase = "check" /\ Exhausted
  /\ \/ question \in Catches /\ GoOn(charged)
     \/ question \notin Catches
        /\ Finish("BLOCKED_BUDGET", "MAX_AGENT_ITERATIONS", charged, limit)

CheckPasses ==
  /\ phase = "check" /\ ~ Exhausted
  /\ \/ provider = "none" /\ Raise("BLOCKED_MISSING_LLM", charged)
     \/ /\ provider # "none"
        /\ phase' = IF provider = "local" THEN "route" ELSE "paid"
        /\ UNCHANGED <<node, reason, budget, call>>

-----------------------------------------------------------------------------
(* The local provider. *)

Route ==
  /\ phase = "route"
  /\ phase' = "try" /\ config' = 1 /\ repairing' = FALSE /\ tries' = 0 /\ spent' = 0
  /\ UNCHANGED <<node, reason, budget, provider, question, round>>

\* No profile, or no eligible configuration: RESEARCH_ALLOW_PAID_FALLBACK decides.
RouteNowhere(status) ==
  /\ phase = "route" /\ status \in {"FAILED", "WAITING_FOR_HUMAN"}
  /\ \/ phase' = "paid" /\ UNCHANGED <<node, reason, budget, call>>
     \/ Raise(status, charged + 1)

\* No runtime for the configuration: none is installed, or the environment does
\* not allow what it needs.
NoRuntime(status) ==
  /\ phase = "route" /\ status \in {"WAITING_FOR_HUMAN", "BLOCKED_ENGINEERING_REQUIRED"}
  /\ Raise(status, charged + 1)

\* Mutant of RetryInfrastructure: no bound on the retries.
RetryInfrastructureForever ==
  /\ phase = "try"
  /\ tries' = (IF tries < InfraRetries THEN tries + 1 ELSE 0)
  /\ UNCHANGED <<node, reason, budget, phase, provider, question, round, config, repairing, spent>>

\* A failure of the runtime before anything was generated is tried again.
RetryInfrastructure ==
  /\ phase = "try" /\ tries < InfraRetries
  /\ tries' = tries + 1
  /\ UNCHANGED <<node, reason, budget, phase, provider, question, round, config, repairing, spent>>

InfrastructureFails ==
  /\ phase = "try" /\ tries = InfraRetries
  /\ Raise("BLOCKED_ENGINEERING_REQUIRED", charged + spent)

Answered == phase = "try" /\ GoOn(charged + spent + 1)

DecodingFails == phase = "try" /\ Raise("BLOCKED_ENGINEERING_REQUIRED", charged + spent + 1)

\* The first configuration gets a repair prompt, the others one prompt each.
Escalate ==
  /\ phase = "try" /\ tries' = 0 /\ spent' = spent + 1
  /\ \/ config = 1 /\ ~ repairing /\ repairing' = TRUE /\ UNCHANGED config
     \/ (config > 1 \/ repairing) /\ config < Configs /\ config' = config + 1 /\ repairing' = FALSE
  /\ UNCHANGED <<node, reason, budget, phase, provider, question, round>>

GenerationExhausted ==
  /\ phase = "try" /\ config = Configs /\ (config > 1 \/ repairing)
  /\ Raise("WAITING_FOR_HUMAN", charged + spent + 1)

-----------------------------------------------------------------------------
(* A paid provider makes one attempt per round and enforces no schema. *)

PaidAnswer == phase = "paid" /\ GoOn(charged + 1)

\* Not JSON, a required key missing, or rejected by the semantic validator.
PaidMalformed ==
  /\ phase = "paid"
  /\ \/ /\ round <= MaxRepairs
        /\ round' = round + 1 /\ phase' = "check" /\ charged' = charged + 1
        /\ UNCHANGED <<node, reason, saved, limit, authorized, blockLimit, granted,
                       provider, question, config, repairing, tries, spent>>
     \/ round > MaxRepairs /\ Raise("FAILED", charged + 1)

\* A failed call is recorded when the local provider passed it on, only.
PaidCount == charged + (IF provider = "local" THEN 1 ELSE 0)

PaidRaises ==
  /\ phase = "paid"
  /\ \/ Raise("FAILED", PaidCount)
     \/ question \notin Catches /\ Finish("BLOCKED_BUDGET", "429", PaidCount, blockLimit)

-----------------------------------------------------------------------------
\* The worker dies; its lease expires and the node is pending again.
WorkerDies ==
  /\ phase # "idle"
  /\ phase' = "idle" /\ node' = "PENDING" /\ charged' = saved /\ spent' = 0
  /\ UNCHANGED <<reason, saved, limit, authorized, blockLimit, granted,
                 provider, question, round, config, repairing, tries>>

\* Mutant of Reconciled: blocks of old runs stay without a record.
ReconciledNever == blockLimit

\* reconcile_legacy_agent_iteration_blocks.
Reconciled ==
  IF node = "BLOCKED_BUDGET" /\ reason = "MAX_AGENT_ITERATIONS" /\ blockLimit = -1
  THEN InitialLimit ELSE blockLimit

PreviousLimit ==
  IF authorized THEN limit ELSE IF Reconciled # -1 THEN Reconciled ELSE 0

\* research_cli extend-budget.
ExtendLimit(l) ==
  /\ phase = "idle" /\ l \in Limits /\ l > PreviousLimit
  /\ limit' = l /\ authorized' = TRUE /\ blockLimit' = Reconciled
  /\ granted' = IF l > granted THEN l ELSE granted
  /\ IF l > charged /\ node = "BLOCKED_BUDGET" /\ Reconciled # -1
     THEN node' = "PENDING" /\ reason' = "none" ELSE UNCHANGED <<node, reason>>
  /\ UNCHANGED <<charged, saved, phase, call>>

\* A decision, a repair command or a new environment reopens a stopped node.
Reopen ==
  /\ phase = "idle"
  /\ node \in {"FAILED", "WAITING_FOR_HUMAN", "BLOCKED_MISSING_LLM", "BLOCKED_ENGINEERING_REQUIRED"}
  /\ node' = "PENDING" /\ reason' = "none"
  /\ UNCHANGED <<budget, phase, call>>

Handling ==
  \/ CheckFails \/ CheckPasses \/ Route \/ \E status \in {"FAILED", "WAITING_FOR_HUMAN"} : RouteNowhere(status)
  \/ \E status \in {"WAITING_FOR_HUMAN", "BLOCKED_ENGINEERING_REQUIRED"} : NoRuntime(status)
  \/ RetryInfrastructure \/ InfrastructureFails \/ Answered \/ DecodingFails
  \/ Escalate \/ GenerationExhausted \/ PaidAnswer \/ PaidMalformed \/ PaidRaises

GatewayNext == Start \/ Handling \/ WorkerDies \/ Reopen \/ \E l \in Limits : ExtendLimit(l)

\* The process runs, whenever it is not killed.
Fairness == WF_gatewayVars(Handling)
GatewaySpec == GatewayInit /\ [][GatewayNext]_gatewayVars /\ Fairness

-----------------------------------------------------------------------------
\* can_spend looks at the budget once and a provider call may then charge an
\* attempt per configuration and a repair: never more than that beyond the
\* largest limit, however many workers die, nodes are reopened or limits change.
SpendIsBounded == InitialLimit # 0 => charged <= granted + Configs

\* A node is not left blocked for a budget that an extension has since covered.
BlockedNodeIsOutOfBudget ==
  node = "BLOCKED_BUDGET" /\ reason = "MAX_AGENT_ITERATIONS" => limit # 0 /\ charged >= limit

\* Retries, repairs and escalation are bounded: every handling comes to an end.
HandlingEnds == phase # "idle" ~> phase = "idle"

\* What fails before a model was run does not use up the budget.
FailuresBeforeTheModelAreFree == [][phase = "route" => charged' <= charged]_gatewayVars

\* An extension never lowers the limit.
ExtensionRaisesTheLimit == [][limit' # limit /\ limit # 0 => limit' > limit]_gatewayVars
=============================================================================
