--------------------------- MODULE Proofbench_proofs ---------------------------
(***************************************************************************)
(* What the components of tools/proofbench guarantee, each by itself and   *)
(* for every value of its parameters: the engine's tools, the supervisor   *)
(* with its escalation policy, the proof search and the proof session.     *)
(***************************************************************************)
EXTENDS V9Controller, ProofSearch, ProofSession, WellFoundedInduction, TLAPS

-----------------------------------------------------------------------------
(* The engine.  Revert writes a checkpoint over the frozen files too, and  *)
(* a checkpoint is ranked by verdicts that may be older than its texts: a  *)
(* frozen file stays what was validated because every checkpoint made      *)
(* before the freeze has a lower rank than the one made with it.           *)

EngineInv(e) ==
  /\ e \in Engine
  /\ \A n \in e.frozen : e.files[n] = Passing[n] /\ e.best.files[n] = Passing[n]
  /\ Python \in e.frozen => e.phase # "PYTHON" /\ e.py = "PUBLIC_PASS"
  /\ Python \notin e.frozen =>
       /\ e.frozen = {} /\ e.phase = "PYTHON" /\ e.lean = "ABSENT" /\ e.py # "PUBLIC_PASS"
       /\ e.best.rank <= 30
  /\ e.phase = "PUBLIC_COMPLETE" => e.frozen = AllowedFiles

LEMMA FileNames == AllowedFiles = {Python, Lean} /\ Python # Lean
BY DEF AllowedFiles, Python, Lean

LEMMA PassingTexts == Passing[Python] = "PUBLIC_PASS" /\ Passing[Lean] = "AXIOM_INTEGRITY_PASS"
BY FileNames DEF Passing

\* The ranks of the verdicts.
LEMMA Ranks ==
  /\ DOMAIN PyRank = {"ABSENT", "COMPILE_FAILURE", "COMPILE_PASS", "PUBLIC_RUNTIME_FAILURE", "PUBLIC_PASS"}
  /\ DOMAIN LeanRank = {"ABSENT", "COMPILE_FAILURE", "COMPILE_PASS", "THEOREM_SHAPE_PASS", "AXIOM_INTEGRITY_PASS"}
  /\ \A v \in DOMAIN PyRank : PyRank[v] \in 0 .. 4 /\ (v # "PUBLIC_PASS" => PyRank[v] <= 3)
  /\ \A v \in DOMAIN LeanRank : LeanRank[v] \in 0 .. 4
  /\ PyRank["PUBLIC_PASS"] = 4 /\ LeanRank["ABSENT"] = 0 /\ LeanRank["AXIOM_INTEGRITY_PASS"] = 4
BY DEF PyRank, LeanRank

LEMMA RankType ==
  ASSUME NEW e, e.py \in DOMAIN PyRank, e.lean \in DOMAIN LeanRank
  PROVE  /\ Rank(e) \in 0 .. 44
         /\ e.py # "PUBLIC_PASS" /\ e.lean = "ABSENT" => Rank(e) <= 30
         /\ e.py = "PUBLIC_PASS" => Rank(e) >= 40
         /\ e.py = "PUBLIC_PASS" /\ e.lean = "AXIOM_INTEGRITY_PASS" => Rank(e) = 44
<1>1. PyRank[e.py] \in 0 .. 4 /\ LeanRank[e.lean] \in 0 .. 4
  BY Ranks
<1> QED
  BY <1>1, Ranks DEF Rank

\* A checkpoint changes nothing but the best one, and that only for a rank that is
\* no lower.
LEMMA CheckpointIs ==
  ASSUME NEW d \in Engine
  PROVE  /\ Checkpoint(d) \in Engine /\ Checkpoint(d).frozen = d.frozen
         /\ Checkpoint(d).phase = d.phase /\ Checkpoint(d).py = d.py
         /\ Checkpoint(d).lean = d.lean /\ Checkpoint(d).files = d.files
         /\ \/ /\ Rank(d) >= d.best.rank
               /\ Checkpoint(d).best.files = d.files /\ Checkpoint(d).best.rank = Rank(d)
            \/ Rank(d) < d.best.rank /\ Checkpoint(d) = d
<1>1. Rank(d) \in 0 .. 44 /\ d.best.rank \in 0 .. 44
  BY RankType DEF Engine
<1>2. CASE Rank(d) >= d.best.rank
  BY <1>1, <1>2 DEF Checkpoint, Engine
<1>3. CASE ~ (Rank(d) >= d.best.rank)
  BY <1>1, <1>3 DEF Checkpoint
<1> QED
  BY <1>2, <1>3

\* What a tool makes of an engine keeps the invariant.
LEMMA NewEngineKeeps == ASSUME NEW f \in Files PROVE EngineInv(NewEngine(f))
<1>1. NewEngine(f) \in Engine
  BY Ranks DEF NewEngine, Engine, Phase, AllowedFiles
<1> QED
  BY <1>1 DEF NewEngine, EngineInv

\* A new text in the file that may be edited.
LEMMA PatchKeeps ==
  ASSUME NEW e, EngineInv(e), NEW n \in AllowedFiles, NEW text \in Texts(n)
  PROVE  EngineInv(ApplyPatch(e, n, text))
<1>1. CASE n \in Editable(e)
  <2> DEFINE d == [e EXCEPT !.files[n] = text]
  <2>1. e \in Engine /\ n \notin e.frozen
    BY <1>1 DEF EngineInv, Editable
  <2>2. d.files \in Files /\ d.files = [e.files EXCEPT ![n] = text]
    <3>1. text \in PyText \cup LeanText
      BY DEF Texts
    <3>2. e.files \in Files
      BY <2>1 DEF Engine
    <3>3. d.files = [e.files EXCEPT ![n] = text]
      BY <2>1 DEF Engine
    <3> QED
      BY <3>1, <3>2, <3>3 DEF Files
  <2>3. /\ d \in Engine /\ d.frozen = e.frozen /\ d.phase = e.phase /\ d.py = e.py
        /\ d.lean = e.lean /\ d.best = e.best
    BY <2>1, <2>2 DEF Engine
  <2>4. \A m \in e.frozen : d.files[m] = e.files[m]
    BY <2>1, <2>2 DEF Engine, Files
  <2>5. EngineInv(d)
    BY <2>1, <2>3, <2>4 DEF EngineInv
  <2>6. Rank(d) \in 0 .. 44 /\ (d.py # "PUBLIC_PASS" /\ d.lean = "ABSENT" => Rank(d) <= 30)
    BY <2>3, RankType DEF Engine
  <2> HIDE DEF d
  <2>7. EngineInv(Checkpoint(d))
    BY <2>3, <2>5, <2>6, CheckpointIs DEF EngineInv
  <2> QED
    BY <1>1, <2>7 DEF ApplyPatch, d
<1>2. CASE n \notin Editable(e)
  BY <1>2 DEF ApplyPatch
<1> QED
  BY <1>1, <1>2
\* Checking the program.  The freeze comes with a checkpoint of higher rank than
\* those before it, which then holds the validated program.
LEMMA CheckPythonKeeps == ASSUME NEW e, EngineInv(e) PROVE EngineInv(CheckPython(e))
<1> USE FileNames
<1>0. e \in Engine /\ e.files \in Files
  BY DEF EngineInv, Engine
<1>1. CASE e.files[Python] # "PUBLIC_PASS"
  <2> DEFINE d == [e EXCEPT !.py = e.files[Python]]
  <2>1. e.files[Python] \in {"COMPILE_FAILURE", "PUBLIC_RUNTIME_FAILURE"}
    BY <1>0, <1>1 DEF Files, Texts, PyText
  <2>2. Python \notin e.frozen
    BY <1>1 DEF EngineInv, Passing
  <2>3. /\ d \in Engine /\ d.frozen = e.frozen /\ d.phase = e.phase /\ d.py = e.files[Python]
        /\ d.lean = e.lean /\ d.files = e.files /\ d.best = e.best
    BY <1>0, <2>1, Ranks DEF Engine
  <2>4. CheckPython(e) = d
    BY <1>1 DEF CheckPython
  <2> HIDE DEF d
  <2> QED
    BY <2>1, <2>2, <2>3, <2>4 DEF EngineInv
<1>2. CASE e.files[Python] = "PUBLIC_PASS"
  <2> DEFINE d == [e EXCEPT !.py = "PUBLIC_PASS", !.phase = "LEAN", !.frozen = @ \cup {Python}]
  <2>1. /\ d \in Engine /\ d.frozen = e.frozen \cup {Python} /\ d.phase = "LEAN"
        /\ d.py = "PUBLIC_PASS" /\ d.lean = e.lean /\ d.files = e.files /\ d.best = e.best
    BY <1>0, Ranks DEF Engine, Phase
  <2>2. CheckPython(e) = Checkpoint(d)
    BY <1>2 DEF CheckPython
  <2> HIDE DEF d
  <2>3. Rank(d) \in 40 .. 44
    BY <2>1, RankType DEF Engine
  <2>4. \A n \in d.frozen : d.files[n] = Passing[n]
    <3>1. \A n \in e.frozen : e.files[n] = Passing[n]
      BY DEF EngineInv
    <3>2. e.files[Python] = Passing[Python]
      BY <1>2, PassingTexts
    <3> QED
      BY <2>1, <3>1, <3>2
  <2>5. CASE Rank(d) >= d.best.rank
    <3>1. Checkpoint(d).best.files = d.files
      BY <2>1, <2>3, <2>5, CheckpointIs DEF Engine
    <3> QED
      BY <2>1, <2>2, <2>4, <3>1, CheckpointIs DEF EngineInv
  <2>6. CASE ~ (Rank(d) >= d.best.rank)
    <3>1. Python \in e.frozen
      BY <2>1, <2>3, <2>6 DEF EngineInv, Engine
    <3>2. Checkpoint(d) = d
      BY <2>6 DEF Checkpoint
    <3> QED
      BY <2>1, <2>2, <2>4, <3>1, <3>2 DEF EngineInv
  <2> QED
    BY <2>5, <2>6
<1> QED
  BY <1>1, <1>2

\* Checking the proof.  The checkpoint of a complete engine has the highest rank.
LEMMA CheckLeanKeeps == ASSUME NEW e, EngineInv(e) PROVE EngineInv(CheckLean(e))
<1> USE FileNames
<1>0. e \in Engine /\ e.files \in Files
  BY DEF EngineInv, Engine
<1>1. CASE e.py # "PUBLIC_PASS"
  BY <1>1 DEF CheckLean
<1>2. CASE e.py = "PUBLIC_PASS" /\ e.files[Lean] # "AXIOM_INTEGRITY_PASS"
  <2> DEFINE d == [e EXCEPT !.lean = e.files[Lean]]
  <2>1. e.files[Lean] \in DOMAIN LeanRank
    BY <1>0, Ranks DEF Files, Texts, LeanText
  <2>2. /\ d \in Engine /\ d.frozen = e.frozen /\ d.phase = e.phase /\ d.py = e.py
        /\ d.files = e.files /\ d.best = e.best
    BY <1>0, <2>1 DEF Engine
  <2>3. CheckLean(e) = d
    BY <1>2 DEF CheckLean
  <2> HIDE DEF d
  <2> QED
    BY <1>2, <2>2, <2>3 DEF EngineInv
<1>3. CASE e.py = "PUBLIC_PASS" /\ e.files[Lean] = "AXIOM_INTEGRITY_PASS"
  <2> DEFINE d == [e EXCEPT !.lean = "AXIOM_INTEGRITY_PASS", !.phase = "PUBLIC_COMPLETE",
                            !.frozen = @ \cup {Lean}]
  <2>1. /\ d \in Engine /\ d.frozen = e.frozen \cup {Lean} /\ d.phase = "PUBLIC_COMPLETE"
        /\ d.py = "PUBLIC_PASS" /\ d.lean = "AXIOM_INTEGRITY_PASS" /\ d.files = e.files
        /\ d.best = e.best
    BY <1>0, <1>3, Ranks DEF Engine, Phase
  <2>2. CheckLean(e) = Checkpoint(d)
    BY <1>3 DEF CheckLean
  <2> HIDE DEF d
  <2>3. Rank(d) = 44 /\ Rank(d) >= d.best.rank
    BY <2>1, RankType DEF Engine
  <2>4. d.frozen = AllowedFiles
    <3>1. Python \in e.frozen /\ e.frozen \subseteq {Python, Lean}
      BY <1>0, <1>3 DEF EngineInv, Engine
    <3> QED
      BY <2>1, <3>1
  <2>5. \A n \in d.frozen : d.files[n] = Passing[n]
    <3>1. \A n \in e.frozen : e.files[n] = Passing[n]
      BY DEF EngineInv
    <3>2. e.files[Lean] = Passing[Lean]
      BY <1>3, PassingTexts
    <3> QED
      BY <2>1, <3>1, <3>2
  <2>6. Checkpoint(d).best.files = d.files
    BY <2>1, <2>3, CheckpointIs DEF Engine
  <2> QED
    BY <2>1, <2>2, <2>4, <2>5, <2>6, CheckpointIs DEF EngineInv
<1> QED
  BY <1>1, <1>2, <1>3

LEMMA RevertKeeps == ASSUME NEW e, EngineInv(e) PROVE EngineInv(Revert(e))
<1>1. /\ Revert(e) \in Engine /\ Revert(e).frozen = e.frozen /\ Revert(e).phase = e.phase
      /\ Revert(e).py = e.py /\ Revert(e).lean = e.lean /\ Revert(e).files = e.best.files
      /\ Revert(e).best = e.best
  BY DEF Revert, EngineInv, Engine
<1> QED
  BY <1>1 DEF EngineInv

LEMMA InvariantIsSound ==
  ASSUME EngineInv(engine)
  PROVE  EngineTypeOK /\ ToolsAreSound
<1>1. engine.phase = "PUBLIC_COMPLETE" => engine.files = Passing
  <2>1. engine.files \in [AllowedFiles -> PyText \cup LeanText]
    BY DEF EngineInv, Engine, Files
  <2> QED
    BY <2>1 DEF EngineInv, Passing
<1> QED
  BY <1>1 DEF EngineInv, EngineTypeOK, ToolsAreSound, FrozenFileIsValidated, PublicCompleteIsEarned

LEMMA EngineInit == ToolInit => EngineInv(engine)
BY NewEngineKeeps DEF ToolInit

LEMMA EngineStep == EngineInv(engine) /\ [ToolNext]_engine => EngineInv(engine)'
BY PatchKeeps, CheckPythonKeeps, CheckLeanKeeps, RevertKeeps
DEF ToolNext, Patch, CheckTool, RevertTool

LEMMA EngineInvariance == ToolSpec => []EngineInv(engine)
BY EngineInit, EngineStep, PTL DEF ToolSpec

\* Whatever tools are called, in whatever order: a frozen file is one its validators
\* passed, and a complete engine has a program and a proof that passed (patch, check
\* and revert of ProofEngine, tools/proofbench/proof_engine.py).
THEOREM ToolsStaySound == ToolSpec => []ToolsAreSound
BY EngineInvariance, InvariantIsSound, PTL
-----------------------------------------------------------------------------
(* The supervisor.  A remote call is made from "escalate", which is        *)
(* entered on a plateau; the history is no longer than the turns since the *)
(* last answer, so that the plateau is a fresh one.                        *)

LEMMA CheckKeeps == ASSUME NEW e, EngineInv(e) PROVE EngineInv(Check(e))
BY CheckPythonKeeps, CheckLeanKeeps DEF Check

LEMMA ValidateKeeps == ASSUME NEW e, EngineInv(e) PROVE EngineInv(ValidateUntilStable(e))
<1>1. EngineInv(Check(e)) /\ EngineInv(Check(Check(e)))
  BY CheckKeeps
<1> QED
  BY <1>1 DEF ValidateUntilStable

LEMMA FreshEngineHolds == EngineInv(FreshEngine)
<1>1. Scaffold \in Files
  BY FileNames DEF Scaffold, Files, Texts, PyText, LeanText
<1> QED
  BY <1>1, NewEngineKeeps, ValidateKeeps DEF FreshEngine

\* A check leaves the texts alone, so that an edit of one phase's file is a patch
\* with one of the texts of that file.
LEMMA EditedKeeps ==
  ASSUME NEW e, EngineInv(e), NEW f \in EditedInPhase(e)
  PROVE  EngineInv(f)
<1>1. PICK n \in Editable(e), text \in PyText \cup LeanText : f = Check(ApplyPatch(e, n, text))
  BY DEF EditedInPhase, Edited
<1>2. n \in AllowedFiles /\ e \in Engine
  BY DEF Editable, EngineInv
<1> DEFINE d == [e EXCEPT !.files[n] = text]
<1>3. d.files = [e.files EXCEPT ![n] = text] /\ d.files[n] = text
  BY <1>2 DEF Engine, Files
<1>4. ApplyPatch(e, n, text) = Checkpoint(d)
  BY DEF ApplyPatch
<1>5. Checkpoint(d).files = d.files
  BY DEF Checkpoint
<1> HIDE DEF d
<1>6. \A g : Check(g).files = g.files
  BY DEF Check, CheckPython, CheckLean, Checkpoint
<1>7. f.files = d.files
  BY <1>1, <1>4, <1>5, <1>6
<1>8. text \in Texts(n)
  BY <1>2, <1>3, <1>7 DEF EditedInPhase, Files
<1> QED
  BY <1>1, <1>2, <1>8, PatchKeeps, CheckKeeps

LEMMA OutcomesKeep ==
  ASSUME NEW e, EngineInv(e), NEW f \in Outcomes(e)
  PROVE  EngineInv(f)
<1>1. \A g : EngineInv(g) => EngineInv(Settled(e, g))
  BY ValidateKeeps DEF Settled
<1>2. \A g \in EditedInPhase(e) : EngineInv(AfterEdit(e, g))
  BY EditedKeeps, RevertKeeps, CheckKeeps DEF AfterEdit
<1>3. EngineInv(ValidateUntilStable(Revert(e))) /\ EngineInv(Check(e))
  BY RevertKeeps, ValidateKeeps, CheckKeeps
<1> QED
  BY <1>1, <1>2, <1>3 DEF Outcomes

SupervisorInv ==
  /\ ControllerTypeOK /\ EngineInv(engine)
  /\ Len(history) <= since /\ since <= turn
  /\ control = "escalate" => Len(history) >= PlateauMin
  /\ TerraFollowsLuna

LEMMA SupervisedState ==
  ASSUME SupervisorStart, EngineInv(engine)
  PROVE  SupervisorInv
<1> USE ControllerAssumption DEF ControllerAssumption
<1>1. EngineTypeOK
  BY DEF EngineInv, EngineTypeOK
<1>2. policy \in Policy /\ TerraFollowsLuna
  BY DEF SupervisorStart, Policy, TerraFollowsLuna, Model, CallLimit
<1>3. status \in [1 .. Tasks -> TaskStatus] /\ history \in Seq(Entry) /\ Len(history) = 0
  BY DEF SupervisorStart, TaskStatus
<1> QED
  BY <1>1, <1>2, <1>3 DEF SupervisorStart, SupervisorInv, ControllerTypeOK

LEMMA SupervisorInit == ControllerStart => SupervisorInv
BY FreshEngineHolds, SupervisedState DEF ControllerStart

\* The next task begins with a fresh engine and no history.
LEMMA NextTaskKeeps ==
  ASSUME SupervisorInv, NEW st \in TaskStatus, NextTask(st), UNCHANGED policy
  PROVE  SupervisorInv'
<1> USE ControllerAssumption DEF ControllerAssumption
<1>1. TerraFollowsLuna' /\ policy' \in Policy
  BY DEF SupervisorInv, ControllerTypeOK, TerraFollowsLuna
<1>2. status' \in [1 .. Tasks -> TaskStatus]
  BY DEF SupervisorInv, ControllerTypeOK, NextTask
<1>3. CASE task = Tasks
  BY <1>1, <1>2, <1>3 DEF NextTask, SupervisorInv, ControllerTypeOK, EngineTypeOK
<1>4. CASE task # Tasks
  <2>1. EngineInv(engine') /\ EngineTypeOK'
    BY <1>4, FreshEngineHolds DEF NextTask, EngineInv, EngineTypeOK
  <2>2. history' \in Seq(Entry) /\ Len(history') = 0
    BY <1>4 DEF NextTask
  <2> QED
    BY <1>1, <1>2, <1>4, <2>1, <2>2 DEF NextTask, SupervisorInv, ControllerTypeOK
<1> QED
  BY <1>3, <1>4

LEMMA TurnKeeps ==
  ASSUME SupervisorInv, Turn
  PROVE  SupervisorInv'
<1> USE ControllerAssumption DEF ControllerAssumption
<1>1. EngineInv(engine) /\ EngineInv(engine')
  BY OutcomesKeep DEF SupervisorInv, Turn
<1>2. EngineTypeOK' /\ Rank(engine') \in 0 .. 44
  BY <1>1, RankType DEF EngineInv, EngineTypeOK, Engine
<1> DEFINE entry == [rank |-> Rank(engine'), progress |-> Rank(engine') > Rank(engine)]
<1>3. entry \in Entry
  <2>1. (Rank(engine') > Rank(engine)) \in BOOLEAN
    OBVIOUS
  <2> QED
    BY <1>2, <2>1 DEF Entry
<1> HIDE DEF entry
<1>4. history' = LastOf(Append(history, entry))
  BY DEF Turn, entry
<1>5. /\ Append(history, entry) \in Seq(Entry)
      /\ Len(Append(history, entry)) = Len(history) + 1 /\ Len(history) \in Nat
      /\ Len(history) <= PlateauMin
  BY <1>3 DEF SupervisorInv, ControllerTypeOK
<1>6. /\ history' \in Seq(Entry) /\ Len(history') <= PlateauMin
      /\ Len(history') <= Len(history) + 1
  <2>1. CASE Len(Append(history, entry)) > PlateauMin
    <3>1. Append(history, entry) # <<>>
      BY <1>5
    <3>2. /\ Tail(Append(history, entry)) \in Seq(Entry)
          /\ Len(Tail(Append(history, entry))) = Len(Append(history, entry)) - 1
      BY <1>5, <3>1
    <3> QED
      BY <1>4, <1>5, <2>1, <3>2 DEF LastOf
  <2>2. CASE ~ (Len(Append(history, entry)) > PlateauMin)
    BY <1>4, <1>5, <2>2 DEF LastOf
  <2> QED
    BY <2>1, <2>2
<1>7. /\ turn \in 0 .. MaxActions /\ turn < MaxActions /\ turn' = turn + 1 /\ since' = since + 1
      /\ since \in 0 .. MaxActions /\ since <= turn /\ Len(history) <= since
  BY DEF SupervisorInv, ControllerTypeOK, Turn
<1>8. since' \in 0 .. MaxActions /\ since' <= turn' /\ turn' \in 0 .. MaxActions /\ Len(history') <= since'
  <2>1. Len(history') \in Nat
    BY <1>6
  <2> QED
    BY <1>5, <1>6, <1>7, <2>1
<1>9. control' \in {"turn", "escalate"} /\ (control' = "escalate" => Len(history') >= PlateauMin)
  BY DEF Turn, Plateau
<1>10. UNCHANGED <<task, policy, status>>
  BY DEF Turn
<1> QED
  BY <1>1, <1>2, <1>6, <1>8, <1>9, <1>10 DEF SupervisorInv, ControllerTypeOK, TerraFollowsLuna

LEMMA SetAt ==
  ASSUME NEW S, NEW T, NEW f \in [S -> T], NEW x, NEW v \in T
  PROVE  [f EXCEPT ![x] = v] \in [S -> T]
OBVIOUS

\* A substantive answer is a call of a model that may be asked.
LEMMA RecordKeeps ==
  ASSUME SupervisorInv, NEW m \in Chosen(policy), NEW progress \in BOOLEAN,
         policy' = RecordCall(policy, m, progress)
  PROVE  policy' \in Policy /\ TerraFollowsLuna'
<1>1. policy \in Policy /\ TerraFollowsLuna
  BY DEF SupervisorInv, ControllerTypeOK
<1>2. m \in Model /\ Allow(policy, m)
  BY DEF Chosen, Model
<1>3. policy.calls[m] = 0 /\ policy.calls \in [Model -> 0 .. 1]
  BY <1>1, <1>2 DEF Policy, Allow, CallLimit
<1>4. /\ policy'.calls = [policy.calls EXCEPT ![m] = 1]
      /\ policy'.lunaProgress = (policy.lunaProgress \/ (m = "luna" /\ progress))
      /\ policy'.infra = policy.infra /\ policy'.disabled = policy.disabled
  BY <1>1, <1>3 DEF RecordCall, Policy
<1>5. policy'.calls \in [Model -> 0 .. CallLimit] /\ policy'.lunaProgress \in BOOLEAN
  <2>1. policy'.calls \in [Model -> 0 .. CallLimit]
    <3>1. [policy.calls EXCEPT ![m] = 1] \in [Model -> 0 .. 1]
      <4>1. policy.calls \in [Model -> 0 .. 1] /\ 1 \in 0 .. 1
        BY <1>3
      <4> QED
        BY <4>1, SetAt
    <3> QED
      BY <1>4, <3>1 DEF CallLimit
  <2>2. policy'.lunaProgress \in BOOLEAN
    BY <1>4, Zenon
  <2> QED
    BY <2>1, <2>2
<1>6. policy' \in Policy
  BY <1>1, <1>5 DEF RecordCall, Policy
<1>7. TerraFollowsLuna'
  <2>1. CASE m = "luna"
    <3>1. policy.calls["terra"] = 0
      BY <1>1, <1>3, <2>1 DEF TerraFollowsLuna, Model
    <3> QED
      BY <1>3, <1>4, <2>1, <3>1 DEF TerraFollowsLuna, Model
  <2>2. CASE m = "terra"
    <3>1. policy.calls["luna"] > 0 /\ ~ policy.lunaProgress
      BY <1>2, <2>2 DEF Allow
    <3> QED
      BY <1>3, <1>4, <2>2, <3>1 DEF TerraFollowsLuna, Model
  <2> QED
    BY <1>2, <2>1, <2>2 DEF Model
<1> QED
  BY <1>6, <1>7

LEMMA SupervisorStep ==
  ASSUME SupervisorInv, [ControllerNext]_controllerVars
  PROVE  SupervisorInv'
<1> USE ControllerAssumption DEF ControllerAssumption
<1>1. CASE Turn
  BY <1>1, TurnKeeps
<1>2. CASE TaskEnds
  BY <1>2, NextTaskKeeps DEF TaskEnds, TaskStatus
<1>3. CASE SpecBuildFails
  BY <1>3, NextTaskKeeps DEF SpecBuildFails, TaskStatus
<1>4. CASE SourcesExhausted
  BY <1>4, NextTaskKeeps DEF SourcesExhausted, TaskStatus
<1>5. CASE InfrastructureFails
  <2>1. PICK m \in Chosen(policy) : /\ policy.infra[m] < InfraLimit
                                    /\ policy' = [policy EXCEPT !.infra[m] = @ + 1]
    BY <1>5 DEF InfrastructureFails
  <2>2. m \in Model /\ policy \in Policy
    BY DEF Chosen, Model, SupervisorInv, ControllerTypeOK
  <2>3. policy' \in Policy /\ policy'.calls = policy.calls /\ policy'.lunaProgress = policy.lunaProgress
    BY <2>1, <2>2 DEF Policy
  <2> QED
    BY <1>5, <2>3 DEF InfrastructureFails, SupervisorInv, ControllerTypeOK, EngineTypeOK, TerraFollowsLuna
<1>6. CASE AccountFails
  <2>1. policy' \in Policy /\ policy'.calls = policy.calls /\ policy'.lunaProgress = policy.lunaProgress
    BY <1>6 DEF AccountFails, SupervisorInv, ControllerTypeOK, Policy
  <2> QED
    BY <1>6, <2>1 DEF AccountFails, SupervisorInv, ControllerTypeOK, EngineTypeOK, TerraFollowsLuna
<1>7. CASE RemoteAnswers
  <2>1. PICK m \in Chosen(policy), e \in {engine} \cup EditedInPhase(engine) :
          engine' = e /\ policy' = RecordCall(policy, m, Rank(e) > Rank(engine))
    BY <1>7 DEF RemoteAnswers
  <2>2. EngineInv(engine') /\ EngineTypeOK'
    BY <2>1, EditedKeeps DEF SupervisorInv, EngineInv, EngineTypeOK
  <2>3. policy' \in Policy /\ TerraFollowsLuna'
    <3>1. (Rank(e) > Rank(engine)) \in BOOLEAN
      OBVIOUS
    <3> QED
      BY <2>1, <3>1, RecordKeeps
  <2>4. history' \in Seq(Entry) /\ Len(history') = 0
    BY <1>7 DEF RemoteAnswers
  <2> QED
    BY <1>7, <2>2, <2>3, <2>4 DEF RemoteAnswers, SupervisorInv, ControllerTypeOK
<1>8. CASE UNCHANGED controllerVars
  BY <1>8 DEF controllerVars, supervisorVars, SupervisorInv, ControllerTypeOK, EngineTypeOK, TerraFollowsLuna
<1> QED
  BY <1>1, <1>2, <1>3, <1>4, <1>5, <1>6, <1>7, <1>8 DEF ControllerNext

LEMMA SupervisorInvariance == ControllerSpec => []SupervisorInv
BY SupervisorInit, SupervisorStep, PTL DEF ControllerSpec

\* The supervisor's state keeps its types.
THEOREM ControllerTypeCorrect == ControllerSpec => []ControllerTypeOK
<1>1. SupervisorInv => ControllerTypeOK
  BY DEF SupervisorInv
<1> QED
  BY SupervisorInvariance, <1>1, PTL

LEMMA SupervisedHolds == SupervisorInv => ToolsAreSound
BY InvariantIsSound DEF SupervisorInv

\* Under the supervisor too, which validates, reverts and takes remote patches in
\* its own order, frozen files and complete engines are what was validated.
THEOREM SupervisedToolsAreSound == ControllerSpec => []ToolsAreSound
BY SupervisorInvariance, SupervisedHolds, PTL

LEMMA RepairStep ==
  ASSUME SupervisorInv, [ControllerNext]_controllerVars
  PROVE  [RepairAfterFreshPlateau /\ TerraFollowsLuna']_controllerVars
<1> SUFFICES ASSUME ControllerNext PROVE RepairAfterFreshPlateau /\ TerraFollowsLuna'
  OBVIOUS
<1>1. TerraFollowsLuna'
  BY SupervisorStep DEF SupervisorInv
<1>2. policy'.calls # policy.calls => RemoteAnswers
  BY DEF ControllerNext, Turn, TaskEnds, SpecBuildFails, SourcesExhausted, InfrastructureFails,
         AccountFails, SupervisorInv, ControllerTypeOK, Policy
<1>3. RemoteAnswers => since >= PlateauMin
  BY ControllerAssumption DEF ControllerAssumption, RemoteAnswers, SupervisorInv, ControllerTypeOK
<1> QED
  BY <1>1, <1>2, <1>3 DEF RepairAfterFreshPlateau

\* A remote model is asked only after a plateau of its own, and Terra only after Luna
\* failed to improve the rank, over any number of tasks, turns and retries
\* (escalation_step and EscalationPolicy, tools/proofbench/v9_controller.py).
THEOREM RemoteRepairStaysEarned == ControllerSpec => RemoteRepairIsEarned
BY SupervisorInvariance, RepairStep, PTL DEF ControllerSpec, RemoteRepairIsEarned

-----------------------------------------------------------------------------
(* The search.                                                             *)

\* A set of naturals has a least member.
LEMMA LeastNat ==
  ASSUME NEW T \in SUBSET Nat, T # {}
  PROVE  \E m \in T : \A k \in T : m <= k
<1> DEFINE R == OpToRel(<, Nat)
<1>1. IsWellFoundedOn(R, Nat)
  BY NatLessThanWellFounded
<1>2. PICK x \in T : \A y \in T : ~ (<<y, x>> \in R)
  BY <1>1, WFMin
<1>3. \A y \in T : ~ (y < x)
  BY <1>2 DEF OpToRel
<1> QED
  BY <1>3

-----------------------------------------------------------------------------
\* Replay follows the answers along the prefix: any path of goals that steps as
\* Lean answered is the one it takes.
LEMMA ReplayFollows ==
  ASSUME NEW S, NEW p \in Seq(S), NEW T, NEW g \in [0..Len(p) -> T], g[0] = RootGoal,
         \A k \in 1..Len(p) : g[k] = Advance(g[k - 1], p[k])
  PROVE  Replay(p) = g[Len(p)]
<1> DEFINE Step(f) == [k \in 0..Len(p) |-> IF k = 0 THEN RootGoal ELSE Advance(f[k - 1], p[k])]
           h == CHOOSE f : f = Step(f)
<1>0. Replay(p) = h[Len(p)]
  BY DEF Replay
<1>1. Len(p) \in Nat
  OBVIOUS
<1>2. \A k \in 0..Len(p) : k # 0 => k \in 1..Len(p)
  BY <1>1
<1>3. \A k \in 0..Len(p) : g[k] = (IF k = 0 THEN RootGoal ELSE Advance(g[k - 1], p[k]))
  BY <1>2
<1>4. g = Step(g)
  BY <1>3
<1>5. h = Step(h)
  BY <1>4
<1> HIDE DEF h
<1>6. \A k \in 0..Len(p) : h[k] = (IF k = 0 THEN RootGoal ELSE Advance(h[k - 1], p[k]))
  BY <1>5
<1> HIDE DEF Step
<1> DEFINE Differ == {k \in 0..Len(p) : h[k] # g[k]}
<1>7. Differ = {}
  <2> SUFFICES ASSUME Differ # {} PROVE FALSE
    OBVIOUS
  <2>0. Differ \in SUBSET Nat
    BY <1>1
  <2>1. PICK m \in Differ : \A k \in Differ : m <= k
    <3> HIDE DEF Differ
    <3> QED
      BY LeastNat, <2>0
  <2>2. m # 0
    BY <1>3, <1>6, <2>1
  <2>3. m - 1 \in 0..Len(p) /\ m - 1 \notin Differ
    BY <2>1, <2>2, <1>1
  <2>4. h[m - 1] = g[m - 1]
    BY <2>3
  <2> QED
    BY <2>1, <2>2, <2>4, <1>3, <1>6
<1>8. Len(p) \in 0..Len(p)
  BY <1>1
<1> QED
  BY <1>0, <1>7, <1>8

-----------------------------------------------------------------------------
(* The invariant.  Lean's answers other than timeouts never change, so the *)
(* path along which a node was reached stays a path.                       *)

SettledIn(known, g, t, a) == <<g, t>> \in DOMAIN known /\ known[<<g, t>>] = a /\ a # "TIMEOUT"

\* By the answers known, the tactics lead from the root goal to this one.
Leads(known, prefix, a) ==
  \E g \in [0..Len(prefix) -> Answers] :
    /\ g[0] = RootGoal /\ g[Len(prefix)] = a
    /\ \A k \in 1..Len(prefix) : SettledIn(known, g[k - 1], prefix[k], g[k])

Request == [tactic : Tactics, source : Source]

SearchShape ==
  /\ pc \in {"initial", "select", "portfolio", "gather", "proposals", "done"}
  /\ nodes \in Seq(Node) /\ pending \in Seq(Request)
  /\ frontier \in SUBSET DOMAIN nodes /\ expanded \in SUBSET DOMAIN nodes
  /\ frontier \cap expanded = {}
  /\ current = 0 \/ current \in DOMAIN nodes
  /\ pc \in {"portfolio", "gather", "proposals"} => current \in expanded
  /\ pc = "initial" => nodes = <<>>
  /\ \A i \in DOMAIN nodes : nodes[i].parent # 0 => nodes[i].parent \in expanded

AnswersInv ==
  /\ DOMAIN answers \in SUBSET (Goals \X Tactics)
  /\ \A q \in DOMAIN answers : answers[q] \in Answers

BlueprintInv == blueprint \in Seq([verified : BOOLEAN, needs : SUBSET Nat]) /\ Len(blueprint) = Len(nodes)

LeadInv ==
  /\ \A i \in DOMAIN nodes : Leads(answers, nodes[i].prefix, nodes[i].goal)
  /\ result.pass => pc = "done" /\ result.prefix \in Seq(Tactics) /\ Leads(answers, result.prefix, "CLOSED")
  /\ result.output => result.terminal = "VERIFIED"

\* The children of one node: those of the portfolio exclude those of the specialist.
\* While the portfolio is tried, the current node has no child, or one of the
\* portfolio and nothing left to try.
ChildrenInv ==
  /\ SpecialistAtDeadEnds
  /\ pc = "portfolio" =>
       /\ \A k \in DOMAIN pending : pending[k].source = "deterministic"
       /\ \A i \in DOMAIN nodes : nodes[i].parent = current => nodes[i].source # "kimina"
  /\ pc = "gather" => \A i \in DOMAIN nodes : nodes[i].parent = current => nodes[i].source # "kimina"
  /\ pc = "proposals" =>
       \A k \in DOMAIN pending :
         /\ pending[k].source # "deterministic"
         /\ pending[k].source = "kimina" =>
              \A i \in DOMAIN nodes : nodes[i].parent = current => nodes[i].source # "deterministic"

SizeInv ==
  /\ pc = "portfolio" => Len(nodes) <= MaxNodes /\ (pending # <<>> => Len(nodes) < MaxNodes)
  /\ pc = "gather" => Len(nodes) <= MaxNodes
  /\ pc = "proposals" => Len(nodes) + Len(pending) <= MaxNodes + MaxProposals
  /\ SearchIsBounded

SearchInv ==
  /\ SearchShape /\ AnswersInv /\ BlueprintInv
  /\ LeadInv /\ NoGoalTwice /\ ChildrenInv /\ SizeInv

LEMMA GoalFacts ==
  /\ RootGoal \in Goals
  /\ "CLOSED" \notin Goals /\ "UNSOUND" \notin Goals /\ "ERROR" \notin Goals /\ "TIMEOUT" \notin Goals
  /\ DOMAIN GoalOrder \in SUBSET Nat
  /\ \A g \in Goals : Place(g) \in DOMAIN GoalOrder /\ GoalOrder[Place(g)] = g
<1>1. RootGoal \in Goals /\ DOMAIN GoalOrder \in SUBSET Nat
  BY SearchAssumption DEF SearchAssumption, Goals
<1>2. "CLOSED" \notin Goals /\ "UNSOUND" \notin Goals /\ "ERROR" \notin Goals /\ "TIMEOUT" \notin Goals
  BY SearchAssumption DEF SearchAssumption, Goals
<1>3. \A g \in Goals : Place(g) \in DOMAIN GoalOrder /\ GoalOrder[Place(g)] = g
  BY DEF Goals, Place
<1> QED
  BY <1>1, <1>2, <1>3

LEMMA EmptyLeads == ASSUME NEW known PROVE Leads(known, <<>>, RootGoal)
<1> DEFINE g == [k \in 0..0 |-> RootGoal]
<1>1. Len(<<>>) = 0 /\ g[0] = RootGoal /\ g \in [0..0 -> Answers]
  BY GoalFacts DEF Answers
<1>2. \A k \in 1..0 : FALSE
  OBVIOUS
<1> HIDE DEF g
<1> QED
  BY <1>1, <1>2 DEF Leads

LEMMA LeadsOn ==
  ASSUME NEW known, NEW p \in Seq(Tactics), NEW t \in Tactics, NEW g, NEW a \in Answers,
         Leads(known, p, g), SettledIn(known, g, t, a)
  PROVE  Leads(known, Append(p, t), a)
<1> DEFINE n == Len(p)
           q == Append(p, t)
<1>1. PICK path \in [0..n -> Answers] :
        /\ path[0] = RootGoal /\ path[n] = g
        /\ \A k \in 1..n : SettledIn(known, path[k - 1], p[k], path[k])
  BY DEF Leads
<1>2. n \in Nat /\ Len(q) = n + 1 /\ q[n + 1] = t /\ \A k \in 1..n : q[k] = p[k]
  OBVIOUS
<1> HIDE DEF n, q
<1> DEFINE longer == [k \in 0..(n + 1) |-> IF k = n + 1 THEN a ELSE path[k]]
<1>3. longer \in [0..Len(q) -> Answers] /\ longer[0] = RootGoal /\ longer[Len(q)] = a
  BY <1>1, <1>2
<1>4. ASSUME NEW k \in 1..Len(q) PROVE SettledIn(known, longer[k - 1], q[k], longer[k])
  <2>1. CASE k = n + 1
    <3>1. longer[k - 1] = g /\ longer[k] = a /\ q[k] = t
      BY <1>1, <1>2, <2>1
    <3> QED
      BY <3>1
  <2>2. CASE k # n + 1
    <3>1. k \in 1..n
      BY <1>2, <2>2
    <3>2. longer[k - 1] = path[k - 1] /\ longer[k] = path[k] /\ q[k] = p[k]
      BY <1>2, <3>1
    <3> QED
      BY <3>1, <3>2, <1>1
  <2> QED
    BY <2>1, <2>2
<1> HIDE DEF longer
<1>5. Leads(known, q, a)
  BY <1>3, <1>4 DEF Leads
<1> QED
  BY <1>5 DEF q

LEMMA LeadsStay ==
  ASSUME NEW known, NEW more, NEW p, NEW a, Leads(known, p, a),
         \A g, t, b : SettledIn(known, g, t, b) => SettledIn(more, g, t, b)
  PROVE  Leads(more, p, a)
BY DEF Leads

LEMMA LeadsReplay ==
  ASSUME NEW p \in Seq(Tactics), NEW a, Leads(answers, p, a)
  PROVE  Replay(p) = a
<1>1. PICK g \in [0..Len(p) -> Answers] :
        /\ g[0] = RootGoal /\ g[Len(p)] = a
        /\ \A k \in 1..Len(p) : SettledIn(answers, g[k - 1], p[k], g[k])
  BY DEF Leads
<1>2. \A k \in 1..Len(p) : g[k] = Advance(g[k - 1], p[k])
  BY <1>1 DEF SettledIn, Advance
<1> QED
  BY <1>1, <1>2, ReplayFollows

\* A probe settles what it answers, unless it timed out, and unsettles nothing.
LEMMA AttemptSettles ==
  ASSUME SearchShape, AnswersInv, NEW a \in Answers, Attempt(a)
  PROVE  /\ AnswersInv'
         /\ \A g, t, b : SettledIn(answers, g, t, b) => SettledIn(answers', g, t, b)
         /\ current \in DOMAIN nodes /\ nodes[current] \in Node /\ Candidate \in Request
         /\ a # "TIMEOUT" => SettledIn(answers', nodes[current].goal, Candidate.tactic, a)
<1> DEFINE g0 == nodes[current].goal
           t0 == Candidate.tactic
<1>1. current \in DOMAIN nodes /\ nodes[current] \in Node
  BY DEF SearchShape, Attempt
<1>2. Candidate \in Request
  BY DEF SearchShape, Attempt, Candidate
<1>3. g0 \in Goals /\ t0 \in Tactics
  BY <1>1, <1>2 DEF Node, Request
<1>4. a \in Probe(g0, t0) /\ Remember(g0, t0, a)
  BY DEF Attempt
<1> HIDE DEF g0, t0
<1>5. AnswersInv'
  BY <1>3, <1>4 DEF AnswersInv, Remember
<1>6. \A g, t, b : SettledIn(answers, g, t, b) => SettledIn(answers', g, t, b)
  <2> SUFFICES ASSUME NEW g, NEW t, NEW b, SettledIn(answers, g, t, b)
               PROVE  SettledIn(answers', g, t, b)
    OBVIOUS
  <2>1. CASE g = g0 /\ t = t0
    BY <2>1, <1>4 DEF SettledIn, Remember, Probe, Answered
  <2>2. CASE <<g, t>> # <<g0, t0>>
    BY <2>2, <1>4 DEF SettledIn, Remember
  <2> QED
    BY <2>1, <2>2
<1>7. a # "TIMEOUT" => SettledIn(answers', g0, t0, a)
  BY <1>4 DEF SettledIn, Remember
<1> QED
  BY <1>1, <1>2, <1>5, <1>6, <1>7 DEF g0, t0

\* The frontier has a best node: the place of its goal is least, and no two nodes
\* have the same goal.
LEMMA BestIsOnFrontier ==
  ASSUME SearchShape, NoGoalTwice, frontier # {}
  PROVE  Best \in frontier /\ Best \in DOMAIN nodes
<1>0. nodes \in Seq(Node) /\ frontier \in SUBSET DOMAIN nodes
  BY DEF SearchShape
<1>1. \A n \in frontier : n \in DOMAIN nodes /\ n \in Nat /\ nodes[n].goal \in Goals
  <2> SUFFICES ASSUME NEW n \in frontier
               PROVE  n \in DOMAIN nodes /\ n \in Nat /\ nodes[n].goal \in Goals
    OBVIOUS
  <2>1. n \in DOMAIN nodes /\ n \in Nat /\ nodes[n] \in Node
    BY <1>0
  <2> QED
    BY <2>1 DEF Node
<1> DEFINE Spot(n) == Place(nodes[n].goal)
           Spots == {Spot(n) : n \in frontier}
<1>2. \A n \in frontier : Spot(n) \in Nat /\ GoalOrder[Spot(n)] = nodes[n].goal
  BY <1>1, GoalFacts
<1>3. PICK s \in Spots : \A k \in Spots : s <= k
  <2>1. Spots \in SUBSET Nat /\ Spots # {}
    BY <1>2
  <2> HIDE DEF Spots
  <2> QED
    BY <2>1, LeastNat
<1>4. PICK n \in frontier : s = Spot(n)
  OBVIOUS
<1>5. ASSUME NEW m \in frontier PROVE Precedes(n, m)
  <2>1. Spot(n) <= Spot(m)
    BY <1>3, <1>4
  <2>2. CASE Spot(n) = Spot(m)
    <3>1. nodes[n].goal = nodes[m].goal
      BY <1>2, <2>2
    <3>2. n = m
      BY <3>1, <1>1 DEF NoGoalTwice
    <3> QED
      BY <3>1, <3>2, <1>1 DEF Precedes
  <2>3. CASE Spot(n) # Spot(m)
    BY <2>1, <2>3, <1>2 DEF Precedes
  <2> QED
    BY <2>2, <2>3
<1>6. Best \in frontier
  BY <1>5 DEF Best
<1> QED
  BY <1>6, <1>1

-----------------------------------------------------------------------------
LEMMA SearchInvInit == SearchInit => SearchInv
<1> SUFFICES ASSUME SearchInit PROVE SearchInv
  OBVIOUS
<1>1. SearchShape /\ AnswersInv /\ BlueprintInv
  BY DEF SearchInit, SearchShape, AnswersInv, BlueprintInv
<1>2. DOMAIN nodes = {} /\ ~ result.pass /\ ~ result.output /\ Len(nodes) = 0
  BY DEF SearchInit, NoResult
<1>3. LeadInv /\ NoGoalTwice /\ ChildrenInv
  BY <1>2 DEF SearchInit, LeadInv, NoGoalTwice, ChildrenInv, SpecialistAtDeadEnds
<1>4. SizeInv
  BY <1>2, SearchAssumption DEF SearchAssumption, SearchInit, SizeInv, SearchIsBounded
<1> QED
  BY <1>1, <1>3, <1>4 DEF SearchInv

\* Steps that leave Lean, the nodes and the result alone keep what is said of those.
LEMMA QuietKeeps ==
  ASSUME SearchInv, UNCHANGED <<answers, nodes, blueprint, result>>, pc # "done"
  PROVE  AnswersInv' /\ BlueprintInv' /\ LeadInv' /\ NoGoalTwice' /\ SpecialistAtDeadEnds' /\ SearchIsBounded'
<1>1. ~ result.pass
  BY DEF SearchInv, LeadInv
<1>2. AnswersInv' /\ BlueprintInv'
  BY DEF SearchInv, AnswersInv, BlueprintInv
<1>3. LeadInv'
  BY <1>1 DEF SearchInv, LeadInv
<1>4. NoGoalTwice' /\ SpecialistAtDeadEnds' /\ SearchIsBounded'
  BY DEF SearchInv, NoGoalTwice, ChildrenInv, SpecialistAtDeadEnds, SizeInv, SearchIsBounded
<1> QED
  BY <1>2, <1>3, <1>4

LEMMA PortfoliodRequests ==
  Portfolioed \in Seq(Request) /\ \A k \in DOMAIN Portfolioed : Portfolioed[k].source = "deterministic"
<1>1. Portfolio \in Seq(STRING)
  BY SearchAssumption DEF SearchAssumption
<1>2. \A k \in DOMAIN Portfolio : Portfolioed[k] \in Request /\ Portfolioed[k].source = "deterministic"
  BY DEF Portfolioed, Request, Tactics, Source
<1>3. DOMAIN Portfolioed = DOMAIN Portfolio /\ DOMAIN Portfolio = 1..Len(Portfolio) /\ Len(Portfolio) \in Nat
  BY <1>1 DEF Portfolioed
<1>4. Portfolioed \in [1..Len(Portfolio) -> Request]
  BY <1>2, <1>3 DEF Portfolioed
<1> QED
  BY <1>2, <1>3, <1>4

LEMMA InitialGoalKeeps == SearchInv /\ InitialGoal => SearchInv'
<1> SUFFICES ASSUME SearchInv, InitialGoal PROVE SearchInv'
  OBVIOUS
<1> DEFINE root == [prefix |-> <<>>, goal |-> RootGoal, parent |-> 0, source |-> "initial"]
<1>1. nodes' = <<root>> /\ root \in Node /\ pc' = "select" /\ frontier' = {1}
  BY GoalFacts DEF InitialGoal, Node, Source
<1>2. nodes = <<>> /\ ~ result.pass /\ (result.output => result.terminal = "VERIFIED") /\ expanded = {}
  BY DEF SearchInv, SearchShape, LeadInv, InitialGoal
<1>3. DOMAIN nodes' = {1} /\ nodes'[1] = root /\ Len(nodes') = 1
  BY <1>1
<1>4. root.prefix = <<>> /\ root.goal = RootGoal /\ root.parent = 0 /\ root.source = "initial"
  OBVIOUS
<1> HIDE DEF root
<1>5. nodes' \in Seq(Node)
  BY <1>1
<1>6. SearchShape'
  BY <1>1, <1>2, <1>3, <1>4, <1>5 DEF SearchInv, SearchShape, InitialGoal
<1>7. AnswersInv' /\ BlueprintInv'
  BY <1>3 DEF SearchInv, AnswersInv, BlueprintInv, InitialGoal
<1>8. LeadInv'
  BY <1>2, <1>3, <1>4, EmptyLeads DEF LeadInv, InitialGoal
<1>9. NoGoalTwice' /\ ChildrenInv'
  BY <1>1, <1>3, <1>4 DEF NoGoalTwice, ChildrenInv, SpecialistAtDeadEnds
<1>10. SizeInv'
  BY <1>1, <1>3, SearchAssumption DEF SearchAssumption, SizeInv, SearchIsBounded
<1> QED
  BY <1>6, <1>7, <1>8, <1>9, <1>10 DEF SearchInv

LEMMA NoInitialGoalKeeps == SearchInv /\ NoInitialGoal => SearchInv'
<1> SUFFICES ASSUME SearchInv, NoInitialGoal PROVE SearchInv'
  OBVIOUS
<1>1. pc' = "done" /\ UNCHANGED <<answers, nodes, frontier, current, pending, expanded, blueprint>>
  BY DEF NoInitialGoal
<1>2. ~ result'.pass /\ ~ result'.output
  BY DEF NoInitialGoal, NoResult
<1>3. SearchShape' /\ AnswersInv' /\ BlueprintInv'
  BY <1>1 DEF SearchInv, SearchShape, AnswersInv, BlueprintInv
<1>4. LeadInv'
  BY <1>1, <1>2 DEF SearchInv, LeadInv
<1>5. NoGoalTwice' /\ ChildrenInv' /\ SizeInv'
  BY <1>1 DEF SearchInv, NoGoalTwice, ChildrenInv, SpecialistAtDeadEnds, SizeInv, SearchIsBounded
<1> QED
  BY <1>3, <1>4, <1>5 DEF SearchInv

LEMMA ExpandKeeps == SearchInv /\ Expand => SearchInv'
<1> SUFFICES ASSUME SearchInv, Expand PROVE SearchInv'
  OBVIOUS
<1>1. frontier # {} /\ Len(nodes) < MaxNodes /\ pc = "select"
  BY DEF Expand, Selectable
<1>2. Best \in frontier /\ Best \in DOMAIN nodes
  BY <1>1, BestIsOnFrontier DEF SearchInv
<1>3. /\ pc' = "portfolio" /\ current' = Best /\ pending' = Portfolioed
      /\ frontier' = frontier \ {Best} /\ expanded' = expanded \cup {Best}
      /\ UNCHANGED <<answers, nodes, blueprint, result>>
  BY DEF Expand
<1> DEFINE best == Best
<1>4. best \in frontier /\ best \in DOMAIN nodes /\ current' = best
      /\ frontier' = frontier \ {best} /\ expanded' = expanded \cup {best}
  BY <1>2, <1>3
<1> HIDE DEF best
<1>5. SearchShape'
  BY <1>3, <1>4, PortfoliodRequests DEF SearchInv, SearchShape
<1>6. \A i \in DOMAIN nodes : nodes[i].parent # best
  <2>1. \A i \in DOMAIN nodes : nodes[i].parent # 0 => nodes[i].parent \notin frontier
    BY DEF SearchInv, SearchShape
  <2>2. 0 \notin frontier
    BY DEF SearchInv, SearchShape
  <2> QED
    BY <2>1, <2>2, <1>4
<1>7. ChildrenInv'
  BY <1>3, <1>4, <1>6, PortfoliodRequests DEF SearchInv, ChildrenInv, SpecialistAtDeadEnds
<1>8. SizeInv'
  <2>1. Len(nodes) \in Nat
    BY DEF SearchInv, SearchShape
  <2> QED
    BY <2>1, <1>1, <1>3, SearchAssumption DEF SearchAssumption, SearchInv, SizeInv, SearchIsBounded
<1> QED
  BY <1>1, <1>3, <1>5, <1>7, <1>8, QuietKeeps DEF SearchInv

LEMMA BacktrackKeeps == SearchInv /\ Backtrack => SearchInv'
<1> SUFFICES ASSUME SearchInv, Backtrack PROVE SearchInv'
  OBVIOUS
<1>1. /\ pc = "select" /\ frontier' \in SUBSET frontier
      /\ UNCHANGED <<pc, answers, nodes, current, pending, expanded, blueprint, result>>
  BY DEF Backtrack
<1>2. SearchShape'
  BY <1>1 DEF SearchInv, SearchShape
<1>3. ChildrenInv' /\ SizeInv'
  BY <1>1 DEF SearchInv, ChildrenInv, SpecialistAtDeadEnds, SizeInv, SearchIsBounded
<1> QED
  BY <1>1, <1>2, <1>3, QuietKeeps DEF SearchInv

\* What the tail of the pending tactics says, the tactics said.
LEMMA TailFacts ==
  ASSUME SearchShape, pending # <<>>
  PROVE  /\ Tail(pending) \in Seq(Request) /\ Len(Tail(pending)) = Len(pending) - 1
         /\ Len(pending) \in Nat \ {0}
         /\ \A k \in DOMAIN Tail(pending) : k + 1 \in DOMAIN pending /\ Tail(pending)[k] = pending[k + 1]
         /\ Candidate = pending[1] /\ 1 \in DOMAIN pending
BY DEF SearchShape, Candidate

LEMMA RejectedKeeps == SearchInv /\ Rejected => SearchInv'
<1> SUFFICES ASSUME SearchInv, Rejected PROVE SearchInv'
  OBVIOUS
<1>1. PICK a \in Answers : Attempt(a)
  BY DEF Rejected
<1>2. /\ pc \in {"portfolio", "proposals"} /\ pending # <<>> /\ pending' = Tail(pending)
      /\ UNCHANGED <<pc, nodes, frontier, current, expanded, blueprint, result>>
  BY DEF Rejected, Attempt
<1>3. AnswersInv' /\ \A g, t, b : SettledIn(answers, g, t, b) => SettledIn(answers', g, t, b)
  BY <1>1, AttemptSettles DEF SearchInv
<1>4. /\ pending' \in Seq(Request) /\ Len(pending') = Len(pending) - 1 /\ Len(pending) \in Nat
      /\ \A k \in DOMAIN pending' : k + 1 \in DOMAIN pending /\ pending'[k] = pending[k + 1]
  BY <1>2, TailFacts DEF SearchInv
<1>5. SearchShape' /\ BlueprintInv'
  BY <1>2, <1>4 DEF SearchInv, SearchShape, BlueprintInv
<1>6. LeadInv'
  BY <1>2, <1>3, LeadsStay DEF SearchInv, LeadInv
<1>7. NoGoalTwice' /\ SpecialistAtDeadEnds'
  BY <1>2 DEF SearchInv, NoGoalTwice, ChildrenInv, SpecialistAtDeadEnds
<1>8. ChildrenInv'
  BY <1>2, <1>4, <1>7 DEF SearchInv, ChildrenInv
<1>9. SizeInv'
  <2>1. Len(nodes) \in Nat /\ MaxNodes \in Nat /\ MaxProposals \in Nat
    BY SearchAssumption DEF SearchAssumption, SearchInv, SearchShape
  <2>2. SizeInv
    BY DEF SearchInv
  <2> QED
    BY <2>1, <2>2, <1>2, <1>4 DEF SizeInv, SearchIsBounded
<1> QED
  BY <1>3, <1>5, <1>6, <1>7, <1>8, <1>9 DEF SearchInv

LEMMA AcceptedKeeps == SearchInv /\ Accepted => SearchInv'
<1> SUFFICES ASSUME SearchInv, Accepted PROVE SearchInv'
  OBVIOUS
<1>1. PICK a \in Goals :
        /\ Attempt(a) /\ IsNew(nodes[current].goal, a)
        /\ AddChild(current, a, Candidate)
        /\ pending' = IF pc = "portfolio" THEN <<>> ELSE Tail(pending)
        /\ UNCHANGED <<pc, current, expanded, result>>
  BY DEF Accepted
<1> DEFINE child == Child(current, a, Candidate)
           new == Len(nodes) + 1
<1>2. pc \in {"portfolio", "proposals"} /\ pending # <<>> /\ pc' = pc /\ current' = current
      /\ expanded' = expanded /\ result' = result
  BY <1>1 DEF Attempt
<1>3. a \in Answers /\ a # "TIMEOUT" /\ a \notin visited
  BY <1>1, GoalFacts DEF Answers, IsNew
<1>4. /\ AnswersInv'
      /\ \A g, t, b : SettledIn(answers, g, t, b) => SettledIn(answers', g, t, b)
      /\ current \in DOMAIN nodes /\ nodes[current] \in Node /\ Candidate \in Request
      /\ SettledIn(answers', nodes[current].goal, Candidate.tactic, a)
  BY <1>1, <1>3, AttemptSettles DEF SearchInv
<1>5. /\ nodes[current].prefix \in Seq(Tactics)
      /\ Candidate.tactic \in Tactics /\ Candidate.source \in Source
  BY <1>4 DEF Node, Request
<1>6. /\ child.prefix = Append(nodes[current].prefix, Candidate.tactic) /\ child.goal = a
      /\ child.parent = current /\ child.source = Candidate.source
  BY DEF Child
<1>7. child \in Node
  <2>1. current \in Nat /\ Append(nodes[current].prefix, Candidate.tactic) \in Seq(Tactics)
    BY <1>4, <1>5 DEF SearchInv, SearchShape
  <2> QED
    BY <2>1, <1>5 DEF Child, Node
<1>8. nodes' = Append(nodes, child) /\ frontier' = frontier \cup {new}
  BY <1>1 DEF AddChild
<1>9. nodes \in Seq(Node) /\ Len(nodes) \in Nat
  BY DEF SearchInv, SearchShape
<1> HIDE DEF child, new
<1>10. /\ nodes' \in Seq(Node) /\ Len(nodes') = Len(nodes) + 1
       /\ DOMAIN nodes = 1..Len(nodes) /\ DOMAIN nodes' = 1..(Len(nodes) + 1)
       /\ new \in DOMAIN nodes' /\ nodes'[new] = child /\ new \notin DOMAIN nodes /\ new # 0
       /\ \A i \in DOMAIN nodes' : i # new => i \in DOMAIN nodes /\ nodes'[i] = nodes[i]
       /\ \A i \in DOMAIN nodes : i \in DOMAIN nodes'
  BY <1>7, <1>8, <1>9 DEF new
<1>11. /\ Tail(pending) \in Seq(Request) /\ Len(Tail(pending)) = Len(pending) - 1
       /\ Len(pending) \in Nat \ {0}
       /\ \A k \in DOMAIN Tail(pending) : k + 1 \in DOMAIN pending /\ Tail(pending)[k] = pending[k + 1]
       /\ Candidate = pending[1] /\ 1 \in DOMAIN pending
  BY <1>2, TailFacts DEF SearchInv
<1>12. /\ pc = "portfolio" => pending' = <<>>
       /\ pc = "proposals" => pending' = Tail(pending)
  BY <1>1, <1>2
<1>13. SearchShape'
  <2>0. <<>> \in Seq(Request)
    OBVIOUS
  <2>1. pending' \in Seq(Request)
    BY <2>0, <1>2, <1>11, <1>12
  <2>2. current \in expanded
    BY <1>2 DEF SearchInv, SearchShape
  <2>3. \A i \in DOMAIN nodes' : nodes'[i].parent # 0 => nodes'[i].parent \in expanded
    BY <2>2, <1>6, <1>10 DEF SearchInv, SearchShape
  <2>4. frontier' \in SUBSET DOMAIN nodes' /\ expanded \in SUBSET DOMAIN nodes' /\ frontier' \cap expanded = {}
    BY <1>8, <1>10 DEF SearchInv, SearchShape
  <2>5. pc' # "initial"
    BY <1>2
  <2> QED
    BY <2>1, <2>2, <2>3, <2>4, <2>5, <1>2, <1>4, <1>10 DEF SearchInv, SearchShape
<1>14. BlueprintInv'
  <2> DEFINE Part == [verified : BOOLEAN, needs : SUBSET Nat]
  <2>1. blueprint \in Seq(Part) /\ Len(blueprint) = Len(nodes) /\ DOMAIN blueprint = DOMAIN nodes
    BY <1>10 DEF SearchInv, BlueprintInv
  <2>2. blueprint[current] \in Part
    <3> HIDE DEF Part
    <3> QED
      BY <2>1, <1>4
  <2> DEFINE parent == [blueprint[current] EXCEPT !.needs = @ \cup {new}]
             older == [blueprint EXCEPT ![current] = parent]
  <2>3. parent \in Part
    BY <2>2, <1>9 DEF new
  <2>4. blueprint' = Append(older, [verified |-> FALSE, needs |-> {}])
    BY <1>1 DEF AddChild, new
  <2> HIDE DEF parent, Part
  <2>5. older \in Seq(Part) /\ Len(older) = Len(blueprint)
    BY <2>1, <2>3, <1>4
  <2>6. [verified |-> FALSE, needs |-> {}] \in Part
    BY DEF Part
  <2> HIDE DEF older
  <2>7. blueprint' \in Seq(Part) /\ Len(blueprint') = Len(blueprint) + 1
    BY <2>4, <2>5, <2>6
  <2> QED
    BY <2>1, <2>7, <1>10 DEF BlueprintInv, Part
<1>15. LeadInv'
  <2>1. Leads(answers', child.prefix, child.goal)
    <3>1. Leads(answers, nodes[current].prefix, nodes[current].goal)
      BY <1>4 DEF SearchInv, LeadInv
    <3>2. Leads(answers', nodes[current].prefix, nodes[current].goal)
      BY <3>1, <1>4, LeadsStay
    <3> QED
      BY <3>2, <1>3, <1>4, <1>5, <1>6, LeadsOn
  <2>2. \A i \in DOMAIN nodes : Leads(answers', nodes[i].prefix, nodes[i].goal)
    BY <1>4, LeadsStay DEF SearchInv, LeadInv
  <2>3. \A i \in DOMAIN nodes' : Leads(answers', nodes'[i].prefix, nodes'[i].goal)
    BY <2>1, <2>2, <1>10
  <2>4. ~ result.pass
    BY <1>2 DEF SearchInv, LeadInv
  <2> QED
    BY <2>3, <2>4, <1>2 DEF SearchInv, LeadInv
<1>16. NoGoalTwice'
  <2>1. \A i \in DOMAIN nodes : nodes[i].goal # child.goal
    BY <1>3, <1>6 DEF visited
  <2> QED
    BY <2>1, <1>10 DEF SearchInv, NoGoalTwice
<1>17. pc = "portfolio" => child.source = "deterministic"
  BY <1>6, <1>11 DEF SearchInv, ChildrenInv
<1>18. pc = "proposals" =>
         /\ child.source # "deterministic"
         /\ child.source = "kimina" => \A i \in DOMAIN nodes : nodes[i].parent = current => nodes[i].source # "deterministic"
  BY <1>6, <1>11 DEF SearchInv, ChildrenInv
<1>19. SpecialistAtDeadEnds'
  <2>1. ASSUME NEW i \in DOMAIN nodes', NEW j \in DOMAIN nodes',
               nodes'[i].parent = nodes'[j].parent, nodes'[i].source = "kimina"
        PROVE  nodes'[j].source # "deterministic"
    <3>1. CASE i # new /\ j # new
      BY <3>1, <2>1, <1>10 DEF SearchInv, ChildrenInv, SpecialistAtDeadEnds
    <3>2. CASE i = new
      <4>1. pc = "proposals" /\ child.source = "kimina"
        BY <3>2, <2>1, <1>2, <1>10, <1>17
      <4> QED
        BY <4>1, <3>2, <2>1, <1>6, <1>10, <1>18
    <3>3. CASE i # new /\ j = new
      <4>1. nodes[i].parent = current /\ nodes[i].source = "kimina" /\ i \in DOMAIN nodes
        BY <3>3, <2>1, <1>6, <1>10
      <4>2. pc # "portfolio"
        BY <4>1 DEF SearchInv, ChildrenInv
      <4> QED
        BY <4>2, <3>3, <1>2, <1>10, <1>18
    <3> QED
      BY <3>1, <3>2, <3>3
  <2> QED
    BY <2>1 DEF SpecialistAtDeadEnds
<1>20. ChildrenInv'
  <2>1. CASE pc = "portfolio"
    <3>1. pending' = <<>> /\ DOMAIN pending' = {}
      BY <2>1, <1>12
    <3>2. \A i \in DOMAIN nodes' : nodes'[i].parent = current => nodes'[i].source # "kimina"
      BY <2>1, <1>10, <1>17 DEF SearchInv, ChildrenInv
    <3> QED
      BY <2>1, <3>1, <3>2, <1>2, <1>19 DEF ChildrenInv
  <2>2. CASE pc = "proposals"
    <3>1. pending' = Tail(pending)
      BY <2>2, <1>12
    <3>2. \A k \in DOMAIN pending :
            /\ pending[k].source # "deterministic"
            /\ pending[k].source = "kimina" =>
                 \A i \in DOMAIN nodes : nodes[i].parent = current => nodes[i].source # "deterministic"
      BY <2>2 DEF SearchInv, ChildrenInv
    <3>3. \A k \in DOMAIN pending' :
            /\ pending'[k].source # "deterministic"
            /\ pending'[k].source = "kimina" =>
                 \A i \in DOMAIN nodes' : nodes'[i].parent = current => nodes'[i].source # "deterministic"
      BY <2>2, <3>1, <3>2, <1>10, <1>11, <1>18
    <3> QED
      BY <2>2, <3>3, <1>2, <1>19 DEF ChildrenInv
  <2> QED
    BY <2>1, <2>2, <1>2
<1>21. SizeInv'
  <2>1. MaxNodes \in Nat /\ MaxProposals \in Nat
    BY SearchAssumption DEF SearchAssumption
  <2>2. SizeInv
    BY DEF SearchInv
  <2>3. CASE pc = "portfolio"
    BY <2>1, <2>2, <2>3, <1>2, <1>9, <1>10, <1>12 DEF SizeInv, SearchIsBounded
  <2>4. CASE pc = "proposals"
    BY <2>1, <2>2, <2>4, <1>2, <1>9, <1>10, <1>11, <1>12 DEF SizeInv, SearchIsBounded
  <2> QED
    BY <2>3, <2>4, <1>2
<1> QED
  BY <1>4, <1>13, <1>14, <1>15, <1>16, <1>20, <1>21 DEF SearchInv

LEMMA ClosedKeeps == SearchInv /\ Closed => SearchInv'
<1> SUFFICES ASSUME SearchInv, Closed PROVE SearchInv'
  OBVIOUS
<1>1. PICK a \in {"CLOSED", "UNSOUND"} :
        /\ Attempt(a)
        /\ Finish(a = "CLOSED", IF a = "CLOSED" THEN "PASS" ELSE "INTEGRITY_FAILURE",
                  Append(nodes[current].prefix, Candidate.tactic), FALSE)
  BY DEF Closed
<1>2. /\ blueprint' = [blueprint EXCEPT ![current].verified = TRUE]
      /\ UNCHANGED <<nodes, frontier, current, pending, expanded>>
  BY DEF Closed
<1>3. a \in Answers /\ a # "TIMEOUT"
  BY DEF Answers
<1>4. /\ AnswersInv'
      /\ \A g, t, b : SettledIn(answers, g, t, b) => SettledIn(answers', g, t, b)
      /\ current \in DOMAIN nodes /\ nodes[current] \in Node /\ Candidate \in Request
      /\ SettledIn(answers', nodes[current].goal, Candidate.tactic, a)
  BY <1>1, <1>3, AttemptSettles DEF SearchInv
<1> DEFINE last == Append(nodes[current].prefix, Candidate.tactic)
<1>5. nodes[current].prefix \in Seq(Tactics) /\ Candidate.tactic \in Tactics
  BY <1>4 DEF Node, Request
<1>6. last \in Seq(Tactics) /\ Leads(answers', last, a)
  <2>1. Leads(answers, nodes[current].prefix, nodes[current].goal)
    BY <1>4 DEF SearchInv, LeadInv
  <2>2. Leads(answers', nodes[current].prefix, nodes[current].goal)
    BY <2>1, <1>4, LeadsStay
  <2>3. Leads(answers', last, a)
    BY <2>2, <1>3, <1>4, <1>5, LeadsOn
  <2> QED
    BY <2>3, <1>5
<1> HIDE DEF last
<1>7. pc' = "done" /\ result'.prefix = last
      /\ (result'.pass => a = "CLOSED") /\ (result'.output => result'.terminal = "VERIFIED")
  BY <1>1 DEF Finish, last
<1>8. SearchShape' /\ NoGoalTwice' /\ ChildrenInv' /\ SizeInv'
  BY <1>2, <1>7 DEF SearchInv, SearchShape, NoGoalTwice, ChildrenInv, SpecialistAtDeadEnds, SizeInv,
                    SearchIsBounded
<1>9. LeadInv'
  BY <1>2, <1>4, <1>6, <1>7, LeadsStay DEF SearchInv, LeadInv
<1>10. BlueprintInv'
  <2> DEFINE Part == [verified : BOOLEAN, needs : SUBSET Nat]
  <2>1. blueprint \in Seq(Part) /\ Len(blueprint) = Len(nodes)
    BY DEF SearchInv, BlueprintInv
  <2>2. DOMAIN blueprint = DOMAIN nodes
    BY <2>1 DEF SearchInv, SearchShape
  <2> DEFINE closed == [blueprint[current] EXCEPT !.verified = TRUE]
  <2>3. blueprint[current] \in Part
    <3> HIDE DEF Part
    <3> QED
      BY <2>1, <2>2, <1>4
  <2>4. closed \in Part
    BY <2>3
  <2>5. blueprint' = [blueprint EXCEPT ![current] = closed]
    BY <1>2
  <2> HIDE DEF closed, Part
  <2>6. blueprint' \in Seq(Part) /\ Len(blueprint') = Len(blueprint)
    BY <2>1, <2>2, <2>4, <2>5, <1>4
  <2> QED
    BY <2>1, <2>6, <1>2 DEF BlueprintInv, Part
<1> QED
  BY <1>4, <1>8, <1>9, <1>10 DEF SearchInv

LEMMA PortfolioDoneKeeps == SearchInv /\ PortfolioDone => SearchInv'
<1> SUFFICES ASSUME SearchInv, PortfolioDone PROVE SearchInv'
  OBVIOUS
<1>1. /\ pc = "portfolio" /\ pc' = "gather"
      /\ UNCHANGED <<answers, nodes, frontier, current, pending, expanded, blueprint, result>>
  BY DEF PortfolioDone
<1>2. SearchShape' /\ ChildrenInv' /\ SizeInv'
  BY <1>1 DEF SearchInv, SearchShape, ChildrenInv, SpecialistAtDeadEnds, SizeInv, SearchIsBounded
<1> QED
  BY <1>1, <1>2, QuietKeeps DEF SearchInv

LEMMA GatherKeeps == SearchInv /\ Gather => SearchInv'
<1> SUFFICES ASSUME SearchInv, Gather PROVE SearchInv'
  OBVIOUS
<1>1. /\ pc = "gather" /\ pc' = "proposals" /\ pending' \in Candidates(current)
      /\ UNCHANGED <<answers, nodes, frontier, current, expanded, blueprint, result>>
  BY DEF Gather
<1> DEFINE Offers == [tactic : Proposed, source : {"kimina", "model"}]
<1>2. \E m \in 0..MaxProposals : pending' \in [1..m -> Offers]
  BY <1>1 DEF Candidates, SeqOf
<1>3. \A o \in Offers : o \in Request /\ o.source # "deterministic"
  BY DEF Request, Tactics, Source
<1> HIDE DEF Offers
<1>4. pending' \in Seq(Request) /\ Len(pending') <= MaxProposals /\ Len(pending') \in Nat
      /\ \A k \in DOMAIN pending' : pending'[k].source # "deterministic"
  <2>1. PICK m \in 0..MaxProposals : pending' \in [1..m -> Offers]
    BY <1>2
  <2>2. m \in Nat /\ m <= MaxProposals /\ pending' \in [1..m -> Request]
    BY <2>1, <1>3, SearchAssumption DEF SearchAssumption
  <2> QED
    BY <2>1, <2>2, <1>3
<1>5. \A k \in DOMAIN pending' : pending'[k].source = "kimina" => ~ Progressed(current)
  BY <1>1 DEF Candidates, MayPropose
<1>6. SearchShape'
  BY <1>1, <1>4 DEF SearchInv, SearchShape
<1>7. ChildrenInv'
  <2>1. SpecialistAtDeadEnds'
    BY <1>1 DEF SearchInv, ChildrenInv, SpecialistAtDeadEnds
  <2>2. \A k \in DOMAIN pending' : pending'[k].source = "kimina" =>
          \A i \in DOMAIN nodes : nodes[i].parent = current => nodes[i].source # "deterministic"
    BY <1>5 DEF Progressed
  <2> QED
    BY <2>1, <2>2, <1>1, <1>4 DEF ChildrenInv
<1>8. SizeInv'
  <2>1. Len(nodes) \in Nat /\ MaxNodes \in Nat /\ MaxProposals \in Nat
    BY SearchAssumption DEF SearchAssumption, SearchInv, SearchShape
  <2> QED
    BY <2>1, <1>1, <1>4 DEF SearchInv, SizeInv, SearchIsBounded
<1> QED
  BY <1>1, <1>6, <1>7, <1>8, QuietKeeps DEF SearchInv

LEMMA ProposalsDoneKeeps == SearchInv /\ ProposalsDone => SearchInv'
<1> SUFFICES ASSUME SearchInv, ProposalsDone PROVE SearchInv'
  OBVIOUS
<1>1. /\ pc = "proposals" /\ pc' = "select"
      /\ UNCHANGED <<answers, nodes, frontier, current, pending, expanded, blueprint, result>>
  BY DEF ProposalsDone
<1>2. SearchShape' /\ ChildrenInv' /\ SizeInv'
  BY <1>1 DEF SearchInv, SearchShape, ChildrenInv, SpecialistAtDeadEnds, SizeInv, SearchIsBounded
<1> QED
  BY <1>1, <1>2, QuietKeeps DEF SearchInv

LEMMA ExhaustedKeeps == SearchInv /\ SearchExhausted => SearchInv'
<1> SUFFICES ASSUME SearchInv, SearchExhausted PROVE SearchInv'
  OBVIOUS
<1>1. /\ pc' = "done" /\ ~ result'.pass /\ ~ result'.output
      /\ UNCHANGED <<answers, nodes, frontier, current, pending, expanded, blueprint>>
  BY DEF SearchExhausted, Finish
<1>2. SearchShape' /\ AnswersInv' /\ BlueprintInv' /\ NoGoalTwice'
  BY <1>1 DEF SearchInv, SearchShape, AnswersInv, BlueprintInv, NoGoalTwice
<1>3. LeadInv'
  BY <1>1 DEF SearchInv, LeadInv
<1>4. ChildrenInv' /\ SizeInv'
  BY <1>1 DEF SearchInv, ChildrenInv, SpecialistAtDeadEnds, SizeInv, SearchIsBounded
<1> QED
  BY <1>2, <1>3, <1>4 DEF SearchInv

LEMMA SearchStep == SearchInv /\ [SearchNext]_searchVars => SearchInv'
<1> SUFFICES ASSUME SearchInv, [SearchNext]_searchVars PROVE SearchInv'
  OBVIOUS
<1>1. CASE UNCHANGED searchVars
  <2>1. UNCHANGED <<pc, answers, nodes, frontier, current, pending, expanded, blueprint, result>>
    BY <1>1 DEF searchVars
  <2>2. SearchShape' /\ AnswersInv' /\ BlueprintInv' /\ NoGoalTwice' /\ LeadInv'
    BY <2>1 DEF SearchInv, SearchShape, AnswersInv, BlueprintInv, NoGoalTwice, LeadInv
  <2>3. ChildrenInv' /\ SizeInv'
    BY <2>1 DEF SearchInv, ChildrenInv, SpecialistAtDeadEnds, SizeInv, SearchIsBounded
  <2> QED
    BY <2>2, <2>3 DEF SearchInv
<1>2. CASE SearchNext
  BY <1>2, InitialGoalKeeps, NoInitialGoalKeeps, ExpandKeeps, BacktrackKeeps, RejectedKeeps,
     AcceptedKeeps, ClosedKeeps, PortfolioDoneKeeps, GatherKeeps, ProposalsDoneKeeps, ExhaustedKeeps
     DEF SearchNext
<1> QED
  BY <1>1, <1>2

LEMMA SearchInvariance == SearchSpec => []SearchInv
BY SearchInvInit, SearchStep, PTL DEF SearchSpec

LEMMA SearchTypes == SearchInv => SearchTypeOK
<1> SUFFICES ASSUME SearchInv PROVE SearchTypeOK
  OBVIOUS
<1>1. DOMAIN blueprint = DOMAIN nodes
  BY DEF SearchInv, BlueprintInv, SearchShape
<1>2. \A i \in DOMAIN pending : pending[i] \in Request
  BY DEF SearchInv, SearchShape
<1> QED
  BY <1>1, <1>2 DEF SearchInv, SearchShape, AnswersInv, SearchTypeOK, Request

\* The state of a search has its type (solve, tools/proofbench/proof_orchestrator.py).
THEOREM SearchTypeCorrect == SearchSpec => []SearchTypeOK
BY SearchTypes, SearchInvariance, PTL

LEMMA SearchHolds == SearchInv => SearchIsSound
<1> SUFFICES ASSUME SearchInv PROVE SearchIsSound
  OBVIOUS
<1>1. \A i \in DOMAIN nodes : Replay(nodes[i].prefix) = nodes[i].goal
  <2> SUFFICES ASSUME NEW i \in DOMAIN nodes PROVE Replay(nodes[i].prefix) = nodes[i].goal
    OBVIOUS
  <2>1. nodes[i] \in Node
    BY DEF SearchInv, SearchShape
  <2>2. nodes[i].prefix \in Seq(Tactics) /\ Leads(answers, nodes[i].prefix, nodes[i].goal)
    BY <2>1 DEF SearchInv, LeadInv, Node
  <2> QED
    BY <2>2, LeadsReplay
<1>2. result.pass => Replay(result.prefix) = "CLOSED"
  BY LeadsReplay DEF SearchInv, LeadInv
<1>3. result.output => result.terminal = "VERIFIED"
  BY DEF SearchInv, LeadInv
<1> QED
  BY <1>1, <1>2, <1>3
     DEF SearchInv, SearchIsSound, PrefixesReplay, ChildrenInv, SizeInv

\* Whatever Lean answers and the models propose, replaying the tactics of a node
\* leads to its goal, what passes replays to a closed goal, no goal is searched
\* twice, the specialist is asked at dead ends only and the bound on the nodes is
\* passed by the children of one expansion at most (solve, _attempt and _finish,
\* tools/proofbench/proof_orchestrator.py).
THEOREM SearchStaysSound == SearchSpec => []SearchIsSound
BY SearchHolds, SearchInvariance, PTL

-----------------------------------------------------------------------------
(* The session.  The checkpoint and the copy that a command works on are   *)
(* kept alike: the artifacts of verified lemmas are those Lean accepted,   *)
(* the DAG has one node for each lemma and agrees with it, and the         *)
(* conclusion is added once, on verified parents.  A new lemma takes a     *)
(* number that no lemma of the checkpoint has, so a death leaves it whole. *)

Dags == UNION {[S -> DagNode] : S \in SUBSET (LemmaId \cup {FINAL})}
SessionRecord ==
  [status : Status, lemmas : Seq(Lemma), dag : Dags, certificate : 0..MaxLemmas,
   handoff : Bundle \cup {NoBundle}, frozen : BOOLEAN]
Command ==
  [pc : Steps, cmd : {"start", "resume"}, closer : BOOLEAN, todo : Seq(Statements),
   mem : SessionRecord]
SessionFiles ==
  [lemma : [LemmaId -> Statements \cup {None}], certificate : -1..MaxLemmas,
   handoff : Bundle \cup {NoBundle}]

Concluded(x) ==
  /\ x.dag[FINAL].verified
  /\ \A d \in x.dag[FINAL].deps :
       d \in DOMAIN x.dag /\ x.dag[d].verified /\ (kind = "finite" => d \in VerifiedIn(x))

Replays(x, artifacts) ==
  \A i \in VerifiedIn(x) : x.lemmas[i].statement \in Provable /\ artifacts[i] = x.lemmas[i].statement

DagAgrees(x) ==
  /\ kind = "adapter" => x.lemmas = <<>>
  /\ kind # "adapter" =>
       /\ DOMAIN x.dag \ {FINAL} = DOMAIN x.lemmas
       /\ \A i \in DOMAIN x.lemmas : x.dag[i].verified <=> x.lemmas[i].verified

LemmaKept(x, artifacts) ==
  /\ x \in SessionRecord /\ Len(x.lemmas) <= MaxLemmas
  /\ Replays(x, artifacts) /\ DagAgrees(x)
  /\ FINAL \in DOMAIN x.dag => Concluded(x)
  /\ x.status = "VERIFIED" /\ kind # "boolean" => FINAL \in DOMAIN x.dag

CommandInv ==
  /\ proc \in Command
  /\ LemmaKept(proc.mem, file.lemma)
  /\ Saved => Len(disk.lemmas) <= Len(proc.mem.lemmas)
  /\ proc.pc = "lemmas" => kind # "adapter" /\ Len(proc.mem.lemmas) + Len(proc.todo) < MaxLemmas
  /\ proc.pc = "import" => Len(proc.mem.lemmas) < MaxLemmas
  /\ proc.pc \in {"imported", "close"} => kind # "adapter"

SessionOutcomes == {"none", "saved", "died", "RESUME_INTEGRITY_ERROR", "NameError", "ValueError"}

SessionInv ==
  /\ kind \in Kinds /\ file \in SessionFiles /\ outcome \in SessionOutcomes
  /\ Saved => LemmaKept(disk, file.lemma)
  /\ proc # Idle => CommandInv

LEMMA SessionParameters ==
  /\ Kinds \subseteq {"finite", "boolean", "adapter"}
  /\ Provable \subseteq Statements /\ Scouted \in Seq(Provable) /\ Scouted \in Seq(Statements)
  /\ MaxLemmas \in Nat /\ HandoffPrefix \in 0..Len(Scouted) /\ None # Torn /\ FINAL \notin LemmaId
<1>1. /\ Kinds \subseteq {"finite", "boolean", "adapter"} /\ Provable \subseteq Statements
      /\ Scouted \in Seq(Provable) /\ MaxLemmas \in Nat /\ HandoffPrefix \in 0..Len(Scouted) /\ None # Torn
  BY SessionAssumption DEF SessionAssumption
<1> QED
  BY <1>1 DEF FINAL, LemmaId

LEMMA DagDomain ==
  ASSUME NEW dag \in Dags
  PROVE  /\ DOMAIN dag \in SUBSET (LemmaId \cup {FINAL})
         /\ \A i \in DOMAIN dag : dag[i] \in DagNode
BY DEF Dags

\* A node is added, or replaced, and the others stay.
Grown(dag, id, node) == [i \in DOMAIN dag \cup {id} |-> IF i = id THEN node ELSE dag[i]]

LEMMA DagGrows ==
  ASSUME NEW dag \in Dags, NEW id \in LemmaId \cup {FINAL}, NEW node \in DagNode
  PROVE  /\ Grown(dag, id, node) \in Dags
         /\ DOMAIN Grown(dag, id, node) = DOMAIN dag \cup {id}
         /\ Grown(dag, id, node)[id] = node
         /\ \A i \in DOMAIN dag : i # id => Grown(dag, id, node)[i] = dag[i]
<1> DEFINE S == DOMAIN dag \cup {id}
<1>1. Grown(dag, id, node) \in [S -> DagNode] /\ S \in SUBSET (LemmaId \cup {FINAL})
  BY DagDomain DEF Grown
<1>2. Grown(dag, id, node) \in Dags
  BY <1>1 DEF Dags
<1> QED
  BY <1>2 DEF Grown

LEMMA SessionInvInit == SessionInit => SessionInv
<1> SUFFICES ASSUME SessionInit PROVE SessionInv
  OBVIOUS
<1>1. file \in SessionFiles /\ MaxLemmas \in Nat
  BY SessionParameters DEF SessionInit, SessionFiles
<1> QED
  BY <1>1 DEF SessionInit, SessionInv, Saved, SessionOutcomes

\* A death, or an exception, leaves the checkpoint and the artifacts.
LEMMA FreshIsKept == LemmaKept(Fresh, file.lemma)
<1> DEFINE none == Fresh.dag
<1>1. Fresh.lemmas = <<>> /\ Len(Fresh.lemmas) = 0 /\ DOMAIN Fresh.lemmas = {}
  BY DEF Fresh
<1>2. DOMAIN Fresh.dag = {} /\ Fresh.dag \in [{} -> DagNode]
  BY DEF Fresh
<1>3. Fresh.dag \in Dags
  BY <1>2 DEF Dags
<1>4. Fresh \in SessionRecord
  BY <1>3, SessionParameters DEF Fresh, SessionRecord, Status
<1>5. Fresh.status # "VERIFIED"
  BY DEF Fresh
<1> HIDE DEF none
<1> QED
  BY <1>1, <1>2, <1>4, <1>5, SessionParameters DEF LemmaKept, Replays, DagAgrees, VerifiedIn

\* A change of the status, the hashes or the version keeps a session, unless it
\* declares a conclusion that the DAG does not have.
LEMMA RelabelledIsKept ==
  ASSUME NEW x, NEW y \in SessionRecord, NEW artifacts, LemmaKept(x, artifacts),
         y.lemmas = x.lemmas, y.dag = x.dag,
         y.status = "VERIFIED" /\ kind # "boolean" => x.status = "VERIFIED"
  PROVE  LemmaKept(y, artifacts)
<1>1. VerifiedIn(y) = VerifiedIn(x)
  BY DEF VerifiedIn
<1> QED
  BY <1>1 DEF LemmaKept, Replays, DagAgrees, Concluded

\* Processes come and go: a command begins on a session that is kept.
LEMMA BeginKeeps ==
  ASSUME SessionInv, NEW cmd \in {"start", "resume"}, NEW step \in Steps, NEW closer \in BOOLEAN,
         NEW todo \in Seq(Statements), NEW mem, Begin(cmd, step, closer, todo, mem),
         LemmaKept(mem, file.lemma), UNCHANGED <<kind, disk, file, outcome>>,
         Saved => Len(disk.lemmas) <= Len(mem.lemmas),
         step = "lemmas" => kind # "adapter" /\ Len(mem.lemmas) + Len(todo) < MaxLemmas,
         step = "import" => Len(mem.lemmas) < MaxLemmas,
         step \notin {"imported", "close"}
  PROVE  SessionInv'
<1>1. proc' = [pc |-> step, cmd |-> cmd, closer |-> closer, todo |-> todo, mem |-> mem]
  BY DEF Begin
<1>2. proc' \in Command /\ proc'.mem = mem /\ proc'.pc = step /\ proc'.todo = todo
  BY <1>1 DEF LemmaKept, Command
<1>3. CommandInv'
  BY <1>2 DEF CommandInv, LemmaKept, Replays, DagAgrees, Concluded, VerifiedIn, Saved
<1>4. (Saved => LemmaKept(disk, file.lemma))'
  BY DEF SessionInv, LemmaKept, Replays, DagAgrees, Concluded, VerifiedIn, Saved
<1> QED
  BY <1>3, <1>4 DEF SessionInv

LEMMA RaiseKeeps ==
  ASSUME SessionInv, NEW ending \in SessionOutcomes, Raise(ending), UNCHANGED <<kind, disk>>,
         file' \in SessionFiles, file'.lemma = file.lemma
  PROVE  SessionInv'
<1>1. proc' = Idle /\ outcome' \in SessionOutcomes
  BY DEF Raise
<1>2. (Saved => LemmaKept(disk, file.lemma))'
  BY DEF SessionInv, LemmaKept, Replays, DagAgrees, Concluded, VerifiedIn, Saved
<1>3. kind' \in Kinds /\ (proc # Idle => CommandInv)'
  BY <1>1 DEF SessionInv
<1> QED
  BY <1>1, <1>2, <1>3 DEF SessionInv

\* A command goes on with a copy that is kept; it has no fewer lemmas.
LEMMA ContinueKeeps ==
  ASSUME SessionInv, CommandInv, NEW step \in Steps, NEW mem, Continue(step, mem),
         LemmaKept(mem, file.lemma), Len(proc.mem.lemmas) <= Len(mem.lemmas),
         file' \in SessionFiles, file'.lemma = file.lemma, UNCHANGED <<kind, disk, outcome>>,
         step \notin {"lemmas", "import"}, step \in {"imported", "close"} => kind # "adapter"
  PROVE  SessionInv'
<1>1. proc' \in Command /\ proc'.mem = mem /\ proc'.pc = step
  BY DEF Continue, CommandInv, Command, LemmaKept
<1>2. Saved => Len(disk.lemmas) <= Len(mem.lemmas)
  <2>1. Saved => Len(disk.lemmas) <= Len(proc.mem.lemmas)
    BY DEF CommandInv
  <2>2. Saved => disk.lemmas \in Seq(Lemma)
    BY DEF SessionInv, LemmaKept, SessionRecord
  <2>3. proc.mem.lemmas \in Seq(Lemma) /\ mem.lemmas \in Seq(Lemma)
    BY DEF CommandInv, LemmaKept, SessionRecord
  <2>4. (Saved => Len(disk.lemmas) \in Nat) /\ Len(proc.mem.lemmas) \in Nat /\ Len(mem.lemmas) \in Nat
    BY <2>2, <2>3
  <2> QED
    BY <2>1, <2>4
<1>3. CommandInv'
  BY <1>1, <1>2 DEF CommandInv, LemmaKept, Replays, DagAgrees, Concluded, VerifiedIn, Saved
<1>4. (Saved => LemmaKept(disk, file.lemma))'
  BY DEF SessionInv, LemmaKept, Replays, DagAgrees, Concluded, VerifiedIn, Saved
<1> QED
  BY <1>3, <1>4 DEF SessionInv

LEMMA InCommand == ASSUME SessionInv, NEW step, At(step) PROVE CommandInv /\ proc.pc = step
BY DEF SessionInv, At

\* A new lemma has a number of its own, in the copy and in the checkpoint, and a node.
LEMMA AddLemmaKeeps ==
  ASSUME SessionInv, CommandInv, NEW statement \in Statements, NEW human \in BOOLEAN, NEW ok \in BOOLEAN,
         NEW step \in {"lemmas", "imported"}, NEW todo \in Seq(Statements),
         AddLemma(statement, human, ok, step, todo), UNCHANGED <<kind, disk, outcome>>,
         kind # "adapter", Len(proc.mem.lemmas) < MaxLemmas,
         step = "lemmas" => Len(proc.mem.lemmas) + 1 + Len(todo) < MaxLemmas
  PROVE  SessionInv'
<1> DEFINE mem == proc.mem
           id == Len(mem.lemmas) + 1
           good == Checked(statement, ok)
           lemma == [statement |-> statement, human |-> human, verified |-> good]
           lemmas == Append(mem.lemmas, lemma)
           dag == DagWith(mem.dag, id, {}, good)
           new == [mem EXCEPT !.lemmas = lemmas, !.dag = dag]
<1>1. mem \in SessionRecord /\ mem.lemmas \in Seq(Lemma) /\ Len(mem.lemmas) \in Nat /\ mem.dag \in Dags
  BY DEF CommandInv, LemmaKept, SessionRecord
<1>2. id \in LemmaId /\ id # FINAL /\ id \in Nat /\ id <= MaxLemmas
  BY <1>1, SessionParameters DEF LemmaId, FINAL
<1>3. good \in BOOLEAN /\ (good => statement \in Provable)
  BY DEF Checked
<1>4. file' = [file EXCEPT !.lemma[id] = statement]
  BY DEF AddLemma, NewId
<1>5. proc' = [proc EXCEPT !.pc = step, !.todo = todo, !.mem = new]
  BY DEF AddLemma, NewId, CommandInv, Command
<1> HIDE DEF good
<1>6. lemma \in Lemma /\ lemma.statement = statement /\ (lemma.verified <=> good)
  BY <1>3 DEF Lemma
<1> HIDE DEF lemma
<1>7. /\ lemmas \in Seq(Lemma) /\ Len(lemmas) = id /\ lemmas[id] = lemma
      /\ DOMAIN lemmas = DOMAIN mem.lemmas \cup {id} /\ id \notin DOMAIN mem.lemmas
      /\ \A i \in DOMAIN mem.lemmas : lemmas[i] = mem.lemmas[i]
  BY <1>1, <1>6
<1>8. /\ dag \in Dags /\ DOMAIN dag = DOMAIN mem.dag \cup {id} /\ (dag[id].verified <=> good)
      /\ \A i \in DOMAIN mem.dag : i # id => dag[i] = mem.dag[i]
  <2> DEFINE node == [deps |-> {}, verified |-> good /\ \A d \in {} : mem.dag[d].verified]
  <2>1. node \in DagNode /\ (node.verified <=> good)
    BY <1>3 DEF DagNode
  <2>2. dag = Grown(mem.dag, id, node)
    BY DEF DagWith, Grown
  <2> HIDE DEF mem, id, node, dag
  <2>3. /\ dag \in Dags /\ DOMAIN dag = DOMAIN mem.dag \cup {id} /\ dag[id] = node
        /\ \A i \in DOMAIN mem.dag : i # id => dag[i] = mem.dag[i]
    <3> DEFINE old == mem.dag
    <3>1. old \in Dags /\ id \in LemmaId \cup {FINAL} /\ node \in DagNode /\ dag = Grown(old, id, node)
      BY <1>1, <1>2, <2>1, <2>2
    <3> HIDE DEF old
    <3>2. Grown(old, id, node) \in Dags
      BY <3>1, DagGrows
    <3>3. DOMAIN Grown(old, id, node) = DOMAIN old \cup {id}
      BY <3>1, DagGrows
    <3>4. Grown(old, id, node)[id] = node /\ \A i \in DOMAIN old : i # id => Grown(old, id, node)[i] = old[i]
      BY <3>1, DagGrows
    <3> QED
      BY <3>1, <3>2, <3>3, <3>4 DEF old
  <2>4. dag[id].verified <=> good
    BY <2>1, <2>3
  <2> QED
    BY <2>3, <2>4
<1> HIDE DEF lemmas, dag
<1>9. new \in SessionRecord /\ new.lemmas = lemmas /\ new.dag = dag /\ new.status = mem.status
  BY <1>1, <1>7, <1>8 DEF SessionRecord
<1>10. /\ file' \in SessionFiles /\ file'.lemma[id] = statement
       /\ \A i \in LemmaId : i # id => file'.lemma[i] = file.lemma[i]
  BY <1>2, <1>4 DEF SessionInv, SessionFiles
<1>11. proc' \in Command /\ proc'.mem = new /\ proc'.pc = step /\ proc'.todo = todo
  BY <1>5, <1>9 DEF CommandInv, Command, Steps
<1> HIDE DEF new
<1>12. LemmaKept(mem, file.lemma)
  BY DEF CommandInv
<1>13. LemmaKept(new, file'.lemma)
  <2>1. Len(new.lemmas) <= MaxLemmas
    BY <1>2, <1>7, <1>9
  <2>2. VerifiedIn(new) = VerifiedIn(mem) \cup (IF good THEN {id} ELSE {})
    BY <1>6, <1>7, <1>9 DEF VerifiedIn
  <2>3. \A i \in VerifiedIn(mem) : i \in DOMAIN mem.lemmas /\ i # id /\ i \in LemmaId
    BY <1>1, <1>2, <1>7, <1>12, SessionParameters DEF VerifiedIn, LemmaKept, LemmaId
  <2>4. Replays(new, file'.lemma)
    <3> SUFFICES ASSUME NEW i \in VerifiedIn(new)
                 PROVE  new.lemmas[i].statement \in Provable /\ file'.lemma[i] = new.lemmas[i].statement
      BY DEF Replays
    <3>1. CASE i \in VerifiedIn(mem)
      BY <3>1, <2>3, <1>7, <1>9, <1>10, <1>12 DEF LemmaKept, Replays
    <3>2. CASE i \notin VerifiedIn(mem)
      BY <3>2, <2>2, <1>3, <1>6, <1>7, <1>9, <1>10
    <3> QED
      BY <3>1, <3>2
  <2>5. DagAgrees(new)
    <3>1. DOMAIN mem.dag \ {FINAL} = DOMAIN mem.lemmas /\ id \notin DOMAIN mem.dag
          /\ \A i \in DOMAIN mem.lemmas : mem.dag[i].verified <=> mem.lemmas[i].verified
      BY <1>2, <1>7, <1>12 DEF LemmaKept, DagAgrees
    <3>2. DOMAIN dag \ {FINAL} = DOMAIN lemmas
      BY <3>1, <1>2, <1>7, <1>8
    <3>3. ASSUME NEW i \in DOMAIN lemmas PROVE dag[i].verified <=> lemmas[i].verified
      <4>1. CASE i = id
        BY <4>1, <1>6, <1>7, <1>8
      <4>2. CASE i # id
        <5>1. i \in DOMAIN mem.lemmas /\ lemmas[i] = mem.lemmas[i] /\ dag[i] = mem.dag[i]
          BY <4>2, <3>1, <1>7, <1>8
        <5> QED
          BY <5>1, <3>1
      <4> QED
        BY <4>1, <4>2
    <3> QED
      BY <3>2, <3>3, <1>9 DEF DagAgrees
  <2>6. FINAL \in DOMAIN new.dag => Concluded(new)
    <3> SUFFICES ASSUME FINAL \in DOMAIN dag PROVE Concluded(new)
      BY <1>9
    <3>1. FINAL \in DOMAIN mem.dag /\ Concluded(mem) /\ dag[FINAL] = mem.dag[FINAL]
      BY <1>2, <1>8, <1>12 DEF LemmaKept
    <3>2. ASSUME NEW d \in mem.dag[FINAL].deps
          PROVE  d \in DOMAIN dag /\ dag[d].verified /\ (kind = "finite" => d \in VerifiedIn(new))
      <4>1. d \in DOMAIN mem.dag /\ mem.dag[d].verified /\ (kind = "finite" => d \in VerifiedIn(mem))
        BY <3>1 DEF Concluded
      <4>2. d # id
        BY <4>1, <1>2, <1>7, <1>12 DEF LemmaKept, DagAgrees
      <4> QED
        BY <4>1, <4>2, <1>8, <2>2
    <3> QED
      BY <3>1, <3>2, <1>9 DEF Concluded
  <2>7. new.status = "VERIFIED" /\ kind # "boolean" => FINAL \in DOMAIN new.dag
    BY <1>8, <1>9, <1>12 DEF LemmaKept
  <2> QED
    BY <1>9, <2>1, <2>4, <2>5, <2>6, <2>7 DEF LemmaKept
<1>14. Saved => Len(disk.lemmas) < id /\ LemmaKept(disk, file'.lemma)
  <2> SUFFICES ASSUME Saved PROVE Len(disk.lemmas) < id /\ LemmaKept(disk, file'.lemma)
    OBVIOUS
  <2>1. LemmaKept(disk, file.lemma) /\ Len(disk.lemmas) <= Len(mem.lemmas)
    BY DEF SessionInv, CommandInv
  <2>2. disk.lemmas \in Seq(Lemma) /\ Len(disk.lemmas) \in Nat
    BY <2>1 DEF LemmaKept, SessionRecord
  <2>3. Len(disk.lemmas) < id
    BY <2>1, <2>2, <1>1
  <2>4. \A i \in VerifiedIn(disk) : i # id /\ i \in LemmaId
    BY <2>1, <2>2, <2>3, <1>2, SessionParameters DEF VerifiedIn, LemmaId, LemmaKept
  <2>5. Replays(disk, file'.lemma)
    BY <2>1, <2>4, <1>10 DEF LemmaKept, Replays
  <2> QED
    BY <2>1, <2>3, <2>5 DEF LemmaKept
<1> HIDE DEF mem, id
<1>15. CommandInv'
  <2>1. LemmaKept(proc.mem, file.lemma)'
    BY <1>11, <1>13 DEF LemmaKept, Replays, DagAgrees, Concluded, VerifiedIn
  <2>2. (Saved => Len(disk.lemmas) <= Len(proc.mem.lemmas))'
    <3>1. Saved => disk.lemmas \in Seq(Lemma)
      BY <1>14 DEF LemmaKept, SessionRecord
    <3> QED
      BY <3>1, <1>2, <1>7, <1>9, <1>11, <1>14 DEF Saved
  <2>3. step = "lemmas" => Len(new.lemmas) + Len(todo) < MaxLemmas
    BY <1>7, <1>9 DEF id, mem
  <2> QED
    BY <2>1, <2>2, <2>3, <1>11 DEF CommandInv
<1>16. (Saved => LemmaKept(disk, file.lemma))'
  BY <1>14 DEF Saved, LemmaKept, Replays, DagAgrees, Concluded, VerifiedIn
<1> QED
  BY <1>10, <1>15, <1>16 DEF SessionInv

LEMMA StartKeeps == SessionInv /\ Start => SessionInv'
<1> SUFFICES ASSUME SessionInv, Start PROVE SessionInv'
  OBVIOUS
<1> DEFINE mem == IF disk = None THEN Fresh ELSE disk
           labelled == [mem EXCEPT !.status = "WORKING", !.frozen = TRUE]
           frozen == [mem EXCEPT !.frozen = TRUE]
<1>1. disk # Torn /\ UNCHANGED <<kind, disk, file, outcome>> /\ kind \in {"finite", "boolean", "adapter"}
  BY SessionParameters DEF Start, SessionInv
<1>2. PICK closer \in BOOLEAN :
        LET todo == IF closer THEN Scouted ELSE SubSeq(Scouted, 1, HandoffPrefix) IN
        CASE kind = "finite" ->
               /\ Len(mem.lemmas) + Len(todo) < MaxLemmas
               /\ Begin("start", "lemmas", closer, todo, labelled)
          [] kind = "boolean" ->
               /\ Len(mem.lemmas) + Len(Scouted) < MaxLemmas
               /\ Begin("start", "lemmas", closer, Scouted, mem)
          [] kind = "adapter" ->
               Begin("start", "handoff", FALSE, <<>>, frozen)
  BY DEF Start
<1>3. LemmaKept(mem, file.lemma) /\ (Saved => mem = disk)
  BY <1>1, FreshIsKept DEF SessionInv, Saved
<1>4. mem \in SessionRecord
  BY <1>3 DEF LemmaKept
<1> HIDE DEF mem
<1>5. /\ labelled \in SessionRecord /\ labelled.lemmas = mem.lemmas /\ labelled.dag = mem.dag
      /\ labelled.status = "WORKING"
  BY <1>4 DEF SessionRecord, Status
<1>6. /\ frozen \in SessionRecord /\ frozen.lemmas = mem.lemmas /\ frozen.dag = mem.dag
      /\ frozen.status = mem.status
  BY <1>4 DEF SessionRecord
<1> HIDE DEF labelled, frozen
<1>7. LemmaKept(labelled, file.lemma) /\ LemmaKept(frozen, file.lemma)
  BY <1>3, <1>5, <1>6, RelabelledIsKept
<1>8. Saved => Len(disk.lemmas) <= Len(mem.lemmas)
  <2>1. mem.lemmas \in Seq(Lemma)
    BY <1>4 DEF SessionRecord
  <2> QED
    BY <2>1, <1>3
<1>9. CASE kind = "finite"
  <2> DEFINE todo == IF closer THEN Scouted ELSE SubSeq(Scouted, 1, HandoffPrefix)
  <2>1. todo \in Seq(Statements)
    BY SessionParameters
  <2>2. Len(mem.lemmas) + Len(todo) < MaxLemmas /\ Begin("start", "lemmas", closer, todo, labelled)
    BY <1>2, <1>9
  <2> HIDE DEF todo
  <2> QED
    BY <1>1, <1>5, <1>7, <1>8, <1>9, <2>1, <2>2, BeginKeeps DEF Steps
<1>10. CASE kind = "boolean"
  <2>1. Len(mem.lemmas) + Len(Scouted) < MaxLemmas /\ Begin("start", "lemmas", closer, Scouted, mem)
    BY <1>2, <1>10
  <2> QED
    BY <1>1, <1>3, <1>8, <1>10, <2>1, SessionParameters, BeginKeeps DEF Steps
<1>11. CASE kind = "adapter"
  <2>1. Begin("start", "handoff", FALSE, <<>>, frozen)
    BY <1>2, <1>11, Zenon
  <2>2. <<>> \in Seq(Statements) /\ FALSE \in BOOLEAN
    OBVIOUS
  <2> QED
    BY <2>2, <1>1, <1>6, <1>7, <1>8, <1>11, <2>1, BeginKeeps DEF Steps
<1> QED
  BY <1>1, <1>9, <1>10, <1>11

LEMMA FormaliseScoutedKeeps == SessionInv /\ FormaliseScouted => SessionInv'
<1> SUFFICES ASSUME SessionInv, FormaliseScouted PROVE SessionInv'
  OBVIOUS
<1>1. CommandInv /\ proc.pc = "lemmas" /\ proc.todo # <<>> /\ UNCHANGED <<kind, disk, outcome>>
  BY InCommand DEF FormaliseScouted
<1>2. PICK ok \in BOOLEAN : AddLemma(Head(proc.todo), FALSE, ok, "lemmas", Tail(proc.todo))
  BY DEF FormaliseScouted
<1>3. proc.todo \in Seq(Statements) /\ proc.mem.lemmas \in Seq(Lemma)
  BY <1>1 DEF CommandInv, Command, LemmaKept, SessionRecord
<1>4. /\ Head(proc.todo) \in Statements /\ Tail(proc.todo) \in Seq(Statements)
      /\ Len(Tail(proc.todo)) = Len(proc.todo) - 1 /\ Len(proc.todo) \in Nat \ {0}
      /\ Len(proc.mem.lemmas) \in Nat
  BY <1>1, <1>3
<1>5. kind # "adapter" /\ Len(proc.mem.lemmas) + Len(proc.todo) < MaxLemmas
  BY <1>1 DEF CommandInv
<1>6. /\ Len(proc.mem.lemmas) < MaxLemmas
      /\ Len(proc.mem.lemmas) + 1 + Len(Tail(proc.todo)) < MaxLemmas
  <2> DEFINE a == Len(proc.mem.lemmas)
             b == Len(proc.todo)
             c == Len(Tail(proc.todo))
  <2>1. MaxLemmas \in Nat /\ a \in Nat /\ b \in Nat \ {0} /\ c = b - 1 /\ a + b < MaxLemmas
    BY SessionParameters, <1>4, <1>5
  <2> HIDE DEF a, b, c
  <2>2. a < MaxLemmas /\ a + 1 + c < MaxLemmas
    BY <2>1
  <2> QED
    BY <2>2 DEF a, c
<1> QED
  BY <1>1, <1>2, <1>4, <1>5, <1>6, AddLemmaKeeps

\* Steps that change only the status, the hashes or the version of the copy.
LEMMA RelabelKeeps ==
  ASSUME SessionInv, CommandInv, NEW step \in Steps, NEW mem \in SessionRecord, Continue(step, mem),
         mem.lemmas = proc.mem.lemmas, mem.dag = proc.mem.dag,
         mem.status = "VERIFIED" /\ kind # "boolean" => proc.mem.status = "VERIFIED",
         file' \in SessionFiles, file'.lemma = file.lemma, UNCHANGED <<kind, disk, outcome>>,
         step \notin {"lemmas", "import"}, step \in {"imported", "close"} => kind # "adapter"
  PROVE  SessionInv'
<1>1. LemmaKept(proc.mem, file.lemma)
  BY DEF CommandInv
<1>2. LemmaKept(mem, file.lemma)
  BY <1>1, RelabelledIsKept
<1>3. Len(proc.mem.lemmas) <= Len(mem.lemmas)
  <2>1. mem.lemmas \in Seq(Lemma)
    BY DEF SessionRecord
  <2> QED
    BY <2>1
<1> QED
  BY <1>2, <1>3, ContinueKeeps

LEMMA ExhaustedSession ==
  ASSUME NEW mem \in SessionRecord
  PROVE  /\ Exhausted(mem) \in SessionRecord /\ Exhausted(mem).lemmas = mem.lemmas
         /\ Exhausted(mem).dag = mem.dag /\ Exhausted(mem).status # "VERIFIED"
BY DEF Exhausted, SessionRecord, Status

LEMMA CommandRecord ==
  ASSUME CommandInv
  PROVE  proc.mem \in SessionRecord /\ proc.mem.lemmas \in Seq(Lemma) /\ Len(proc.mem.lemmas) \in Nat
BY DEF CommandInv, LemmaKept, SessionRecord

LEMMA AfterScoutingKeeps == SessionInv /\ AfterScouting => SessionInv'
<1> SUFFICES ASSUME SessionInv, AfterScouting PROVE SessionInv'
  OBVIOUS
<1>1. CommandInv /\ proc.pc = "lemmas" /\ UNCHANGED <<kind, disk, file, outcome>> /\ kind # "adapter"
  BY InCommand DEF AfterScouting, CommandInv
<1>2. proc.mem \in SessionRecord /\ file' \in SessionFiles
  BY <1>1, CommandRecord DEF SessionInv
<1>3. \/ Continue("handoff", proc.mem) \/ Continue("close", proc.mem)
      \/ Continue("save", Exhausted(proc.mem))
  BY DEF AfterScouting
<1>4. CASE Continue("handoff", proc.mem)
  BY <1>1, <1>2, <1>4, RelabelKeeps DEF Steps
<1>5. CASE Continue("close", proc.mem)
  BY <1>1, <1>2, <1>5, RelabelKeeps DEF Steps
<1>6. CASE Continue("save", Exhausted(proc.mem))
  BY <1>1, <1>2, <1>6, RelabelKeeps, ExhaustedSession DEF Steps
<1> QED
  BY <1>3, <1>4, <1>5, <1>6

LEMMA HandoffKeeps == SessionInv /\ Handoff => SessionInv'
<1> SUFFICES ASSUME SessionInv, Handoff PROVE SessionInv'
  OBVIOUS
<1> DEFINE bundle == BundleOf(proc.mem)
           mem == [proc.mem EXCEPT !.status = "ACTIONABLE_HANDOFF", !.handoff = bundle]
<1>1. CommandInv /\ UNCHANGED <<kind, disk, outcome>> /\ file' = [file EXCEPT !.handoff = bundle]
      /\ Continue("save", mem)
  BY InCommand DEF Handoff, RecordedBundle
<1>2. proc.mem \in SessionRecord /\ proc.mem.lemmas \in Seq(Lemma) /\ Len(proc.mem.lemmas) \in Nat
      /\ Len(proc.mem.lemmas) <= MaxLemmas
  BY <1>1, CommandRecord DEF CommandInv, LemmaKept
<1>3. bundle \in Bundle
  <2>1. proc.mem.dag \in Dags
    BY <1>2 DEF SessionRecord
  <2>2. DOMAIN proc.mem.dag \in SUBSET (LemmaId \cup {FINAL})
    BY <2>1, DagDomain
  <2>3. VerifiedIn(proc.mem) \in SUBSET LemmaId
    BY <1>2, SessionParameters DEF VerifiedIn, LemmaId
  <2> QED
    BY <2>2, <2>3 DEF BundleOf, Bundle
<1> HIDE DEF bundle
<1>4. mem \in SessionRecord /\ mem.lemmas = proc.mem.lemmas /\ mem.dag = proc.mem.dag
      /\ mem.status # "VERIFIED"
  BY <1>2, <1>3 DEF SessionRecord, Status
<1>5. file' \in SessionFiles /\ file'.lemma = file.lemma
  BY <1>1, <1>3 DEF SessionInv, SessionFiles
<1> HIDE DEF mem
<1> QED
  BY <1>1, <1>4, <1>5, RelabelKeeps DEF Steps

LEMMA UsedIsVerified ==
  ASSUME NEW mem \in SessionRecord
  PROVE  Parents(mem) \subseteq VerifiedIn(mem) /\ (Used(mem) # 0 => Used(mem) \in VerifiedIn(mem))
<1>1. HumanIn(mem) \subseteq VerifiedIn(mem) /\ mem.lemmas \in Seq(Lemma)
  BY DEF HumanIn, SessionRecord
<1>2. CASE HumanIn(mem) = {}
  BY <1>2 DEF Used, Parents
<1>3. CASE HumanIn(mem) # {}
  <2> DEFINE n == Len(mem.lemmas)
             T == {n - h : h \in HumanIn(mem)}
  <2>1. n \in Nat /\ \A h \in HumanIn(mem) : h \in 1..n
    BY <1>1 DEF VerifiedIn
  <2>2. T \in SUBSET Nat /\ T # {}
    BY <2>1, <1>3
  <2>3. PICK m \in T : \A k \in T : m <= k
    <3> HIDE DEF T
    <3> QED
      BY <2>2, LeastNat
  <2>4. PICK h \in HumanIn(mem) : m = n - h
    BY <2>3
  <2>5. ASSUME NEW g \in HumanIn(mem) PROVE g <= h
    <3>1. n - g \in T
      OBVIOUS
    <3>2. m <= n - g
      BY <2>3, <3>1
    <3> HIDE DEF n, T
    <3> QED
      BY <2>1, <2>4, <3>2
  <2>6. Used(mem) \in HumanIn(mem)
    BY <1>3, <2>5 DEF Used
  <2> QED
    BY <1>1, <2>6 DEF Parents
<1> QED
  BY <1>2, <1>3

LEMMA VerifiedAreLemmas ==
  ASSUME NEW mem, NEW artifacts, LemmaKept(mem, artifacts)
  PROVE  VerifiedIn(mem) \subseteq LemmaId /\ VerifiedIn(mem) \subseteq DOMAIN mem.lemmas
<1>1. mem.lemmas \in Seq(Lemma) /\ Len(mem.lemmas) \in Nat /\ Len(mem.lemmas) <= MaxLemmas
  BY DEF LemmaKept, SessionRecord
<1> QED
  BY <1>1, SessionParameters DEF VerifiedIn, LemmaId

\* The conclusion is added once, on verified parents.
LEMMA CloseFiniteKeeps == SessionInv /\ CloseFinite => SessionInv'
<1> SUFFICES ASSUME SessionInv, CloseFinite PROVE SessionInv'
  OBVIOUS
<1> DEFINE mem == proc.mem
           deps == Parents(mem)
           dag == DagWith(mem.dag, FINAL, deps, TRUE)
           new == [mem EXCEPT !.status = "VERIFIED", !.certificate = Used(mem), !.dag = dag]
<1>1. CommandInv /\ proc.pc = "close" /\ kind = "finite" /\ UNCHANGED <<kind, disk>>
      /\ file' = [file EXCEPT !.certificate = Used(mem)]
  BY InCommand DEF CloseFinite
<1>2. \/ Continue("save", Exhausted(mem)) /\ UNCHANGED outcome
      \/ Raise("ValueError")
      \/ ~ InvalidDependency(mem.dag, FINAL, deps) /\ Continue("save", new) /\ UNCHANGED outcome
  BY DEF CloseFinite
<1>3. mem \in SessionRecord /\ LemmaKept(mem, file.lemma) /\ mem.dag \in Dags
  BY <1>1, CommandRecord DEF CommandInv, SessionRecord
<1>4. deps \subseteq VerifiedIn(mem) /\ deps \subseteq LemmaId /\ Used(mem) \in 0..MaxLemmas
      /\ \A d \in deps : d \in DOMAIN mem.lemmas /\ mem.lemmas[d].verified
  <2>1. VerifiedIn(mem) \subseteq LemmaId
    BY <1>3, VerifiedAreLemmas
  <2>2. deps \subseteq VerifiedIn(mem) /\ (Used(mem) # 0 => Used(mem) \in VerifiedIn(mem))
    BY <1>3, UsedIsVerified
  <2> QED
    BY <2>1, <2>2, SessionParameters DEF LemmaId, VerifiedIn
<1>5. file' \in SessionFiles /\ file'.lemma = file.lemma
  BY <1>1, <1>4 DEF SessionInv, SessionFiles
<1> HIDE DEF deps
<1>6. CASE Continue("save", Exhausted(mem)) /\ UNCHANGED outcome
  BY <1>1, <1>3, <1>5, <1>6, RelabelKeeps, ExhaustedSession DEF Steps
<1>7. CASE Raise("ValueError")
  BY <1>1, <1>5, <1>7, RaiseKeeps DEF SessionOutcomes
<1>8. CASE ~ InvalidDependency(mem.dag, FINAL, deps) /\ Continue("save", new) /\ UNCHANGED outcome
  <2> DEFINE node == [deps |-> deps, verified |-> TRUE /\ \A d \in deps : mem.dag[d].verified]
  <2>1. FINAL \notin DOMAIN mem.dag
    BY <1>8 DEF InvalidDependency
  <2>2. /\ DOMAIN mem.dag \ {FINAL} = DOMAIN mem.lemmas
        /\ \A i \in DOMAIN mem.lemmas : mem.dag[i].verified <=> mem.lemmas[i].verified
    BY <1>1, <1>3 DEF LemmaKept, DagAgrees
  <2>3. \A d \in deps : d \in DOMAIN mem.dag /\ mem.dag[d].verified /\ d # FINAL
    BY <2>2, <1>4
  <2>4. node \in DagNode /\ node.verified /\ node.deps = deps
    BY <2>3, <1>4 DEF DagNode
  <2>5. dag = Grown(mem.dag, FINAL, node)
    BY DEF DagWith, Grown
  <2> HIDE DEF node, dag
  <2>6. /\ dag \in Dags /\ DOMAIN dag = DOMAIN mem.dag \cup {FINAL} /\ dag[FINAL] = node
        /\ \A i \in DOMAIN mem.dag : dag[i] = mem.dag[i]
    <3> DEFINE old == mem.dag
    <3>1. old \in Dags /\ FINAL \in LemmaId \cup {FINAL} /\ dag = Grown(old, FINAL, node)
          /\ FINAL \notin DOMAIN old
      BY <1>3, <2>1, <2>5
    <3> HIDE DEF old, mem
    <3>2. Grown(old, FINAL, node) \in Dags
      BY <3>1, <2>4, DagGrows
    <3>3. DOMAIN Grown(old, FINAL, node) = DOMAIN old \cup {FINAL}
      BY <3>1, <2>4, DagGrows
    <3>4. Grown(old, FINAL, node)[FINAL] = node
          /\ \A i \in DOMAIN old : i # FINAL => Grown(old, FINAL, node)[i] = old[i]
      BY <3>1, <2>4, DagGrows
    <3> QED
      BY <3>1, <3>2, <3>3, <3>4 DEF old
  <2>7. new \in SessionRecord /\ new.lemmas = mem.lemmas /\ new.dag = dag
    BY <1>3, <1>4, <2>6 DEF SessionRecord, Status
  <2> HIDE DEF new
  <2>8. VerifiedIn(new) = VerifiedIn(mem)
    BY <2>7 DEF VerifiedIn
  <2>9. Concluded(new)
    BY <2>3, <2>4, <2>6, <2>7, <2>8, <1>4 DEF Concluded
  <2>10. DagAgrees(new)
    BY <1>1, <2>1, <2>2, <2>6, <2>7 DEF DagAgrees
  <2>11. LemmaKept(new, file.lemma)
    BY <2>6, <2>7, <2>8, <2>9, <2>10, <1>3 DEF LemmaKept, Replays
  <2>12. Len(proc.mem.lemmas) <= Len(new.lemmas)
    BY <1>1, <2>7, CommandRecord
  <2> QED
    BY <1>1, <1>5, <1>8, <2>11, <2>12, ContinueKeeps DEF Steps
<1> QED
  BY <1>2, <1>6, <1>7, <1>8

LEMMA CloseBooleanKeeps == SessionInv /\ CloseBoolean => SessionInv'
<1> SUFFICES ASSUME SessionInv, CloseBoolean PROVE SessionInv'
  OBVIOUS
<1>1. CommandInv /\ kind = "boolean" /\ UNCHANGED <<kind, disk, outcome>>
      /\ file' = [file EXCEPT !.certificate = 0]
  BY InCommand DEF CloseBoolean
<1>2. PICK verdict \in {"VERIFIED", "PROOF_RECOVERY_EXHAUSTED"} :
        Continue("save", [proc.mem EXCEPT !.status = verdict])
  BY DEF CloseBoolean
<1> DEFINE mem == [proc.mem EXCEPT !.status = verdict]
<1>3. mem \in SessionRecord /\ mem.lemmas = proc.mem.lemmas /\ mem.dag = proc.mem.dag
  BY <1>1, CommandRecord DEF SessionRecord, Status
<1>4. file' \in SessionFiles /\ file'.lemma = file.lemma
  BY <1>1, SessionParameters DEF SessionInv, SessionFiles
<1> QED
  BY <1>1, <1>2, <1>3, <1>4, RelabelKeeps DEF Steps

LEMMA SaveKeeps == SessionInv /\ Save => SessionInv'
<1> SUFFICES ASSUME SessionInv, Save PROVE SessionInv'
  OBVIOUS
<1>1. CommandInv /\ disk' = proc.mem /\ proc' = Idle /\ outcome' \in SessionOutcomes /\ UNCHANGED <<kind, file>>
  BY InCommand DEF Save, Raise, SessionOutcomes
<1>2. LemmaKept(disk, file.lemma)'
  BY <1>1 DEF CommandInv, LemmaKept, Replays, DagAgrees, Concluded, VerifiedIn
<1> QED
  BY <1>1, <1>2 DEF SessionInv

LEMMA ResumeStepKeeps == SessionInv /\ Resume => SessionInv'
<1> SUFFICES ASSUME SessionInv, Resume PROVE SessionInv'
  OBVIOUS
<1>1. disk \notin {None, Torn} /\ UNCHANGED <<kind, disk, file>> /\ LemmaKept(disk, file.lemma) /\ file \in SessionFiles
  BY DEF Resume, SessionInv, Saved
<1>2. CASE Raise("RESUME_INTEGRITY_ERROR")
  BY <1>1, <1>2, RaiseKeeps DEF SessionOutcomes
<1>3. CASE Len(disk.lemmas) < MaxLemmas /\ UNCHANGED outcome
           /\ \E closer \in BOOLEAN : Begin("resume", "import", closer, <<>>, disk)
  <2>1. PICK closer \in BOOLEAN : Begin("resume", "import", closer, <<>>, disk)
    BY <1>3
  <2>2. <<>> \in Seq(Statements) /\ Len(disk.lemmas) <= Len(disk.lemmas)
    <3>1. disk.lemmas \in Seq(Lemma)
      BY <1>1 DEF LemmaKept, SessionRecord
    <3> QED
      BY <3>1
  <2> QED
    BY <1>1, <1>3, <2>1, <2>2, BeginKeeps DEF Steps
<1> QED
  BY <1>2, <1>3 DEF Resume

LEMMA ImportNothingKeeps == SessionInv /\ ImportNothing => SessionInv'
<1> SUFFICES ASSUME SessionInv, ImportNothing PROVE SessionInv'
  OBVIOUS
<1>1. CommandInv /\ kind # "adapter" /\ Continue("imported", proc.mem) /\ UNCHANGED <<kind, disk, file, outcome>>
  BY InCommand DEF ImportNothing
<1>2. file' \in SessionFiles /\ proc.mem \in SessionRecord
  BY <1>1, CommandRecord DEF SessionInv
<1> QED
  BY <1>1, <1>2, RelabelKeeps DEF Steps

LEMMA ImportStatementKeeps == SessionInv /\ ImportStatement => SessionInv'
<1> SUFFICES ASSUME SessionInv, ImportStatement PROVE SessionInv'
  OBVIOUS
<1>1. CommandInv /\ proc.pc = "import" /\ kind # "adapter" /\ UNCHANGED <<kind, disk, outcome>>
  BY InCommand DEF ImportStatement
<1>2. PICK statement \in Statements, ok \in BOOLEAN : AddLemma(statement, TRUE, ok, "imported", <<>>)
  BY DEF ImportStatement
<1>3. Len(proc.mem.lemmas) < MaxLemmas /\ <<>> \in Seq(Statements)
  BY <1>1 DEF CommandInv
<1> QED
  BY <1>1, <1>2, <1>3, AddLemmaKeeps

LEMMA ImportLeanKeeps == SessionInv /\ ImportLean => SessionInv'
<1> SUFFICES ASSUME SessionInv, ImportLean PROVE SessionInv'
  OBVIOUS
<1>1. Raise("NameError") /\ UNCHANGED <<kind, disk, file>> /\ file' \in SessionFiles
  BY DEF ImportLean, SessionInv
<1> QED
  BY <1>1, RaiseKeeps DEF SessionOutcomes

LEMMA SaveImportKeeps == SessionInv /\ SaveImport => SessionInv'
<1> SUFFICES ASSUME SessionInv, SaveImport PROVE SessionInv'
  OBVIOUS
<1>1. /\ CommandInv /\ proc.pc = "imported" /\ kind # "adapter" /\ disk' = proc.mem
      /\ UNCHANGED <<kind, file, outcome>>
  BY InCommand DEF SaveImport, CommandInv
<1>2. PICK step \in {"close", "save"} : proc' = [proc EXCEPT !.pc = step, !.mem = proc.mem]
  BY DEF SaveImport, Continue
<1>3. proc \in Command
  BY <1>1 DEF CommandInv
<1>4. proc' \in Command /\ proc'.pc = step /\ proc'.mem = proc.mem
  BY <1>2, <1>3 DEF Command, Steps
<1>5. LemmaKept(disk, file.lemma)' /\ LemmaKept(proc.mem, file.lemma)'
  BY <1>1, <1>4 DEF CommandInv, LemmaKept, Replays, DagAgrees, Concluded, VerifiedIn
<1>6. Len(disk'.lemmas) <= Len(proc'.mem.lemmas)
  BY <1>1, <1>4, CommandRecord
<1>7. CommandInv'
  BY <1>1, <1>2, <1>4, <1>5, <1>6 DEF CommandInv
<1> QED
  BY <1>1, <1>5, <1>7 DEF SessionInv

LEMMA AdapterRejectsKeeps == SessionInv /\ AdapterRejects => SessionInv'
<1> SUFFICES ASSUME SessionInv, AdapterRejects PROVE SessionInv'
  OBVIOUS
<1>1. CommandInv /\ Continue("save", Exhausted(proc.mem)) /\ UNCHANGED <<kind, disk, file, outcome>>
  BY InCommand DEF AdapterRejects
<1>2. file' \in SessionFiles /\ proc.mem \in SessionRecord
  BY <1>1, CommandRecord DEF SessionInv
<1> QED
  BY <1>1, <1>2, RelabelKeeps, ExhaustedSession DEF Steps

\* Its two nodes are added together, and none of them was there.
LEMMA AdapterClosesKeeps == SessionInv /\ AdapterCloses => SessionInv'
<1> SUFFICES ASSUME SessionInv, AdapterCloses PROVE SessionInv'
  OBVIOUS
<1> DEFINE mem == proc.mem
           first == DagWith(mem.dag, 1, {}, TRUE)
           dag == DagWith(first, FINAL, {1}, TRUE)
           new == [mem EXCEPT !.status = "VERIFIED", !.dag = dag]
<1>1. CommandInv /\ proc.pc = "import" /\ kind = "adapter" /\ UNCHANGED <<kind, disk>>
      /\ file' = [file EXCEPT !.certificate = 0]
  BY InCommand DEF AdapterCloses
<1>2. Raise("ValueError") \/ (Continue("save", new) /\ UNCHANGED outcome)
  BY DEF AdapterCloses
<1>3. mem \in SessionRecord /\ LemmaKept(mem, file.lemma) /\ mem.dag \in Dags /\ mem.lemmas = <<>>
  BY <1>1, CommandRecord DEF CommandInv, SessionRecord, LemmaKept, DagAgrees
<1>4. file' \in SessionFiles /\ file'.lemma = file.lemma
  BY <1>1, SessionParameters DEF SessionInv, SessionFiles
<1>5. CASE Raise("ValueError")
  BY <1>1, <1>4, <1>5, RaiseKeeps DEF SessionOutcomes
<1>6. CASE Continue("save", new) /\ UNCHANGED outcome
  <2> DEFINE node == [deps |-> {}, verified |-> TRUE /\ \A d \in {} : mem.dag[d].verified]
             last == [deps |-> {1}, verified |-> TRUE /\ \A d \in {1} : first[d].verified]
  <2>1. 1 \in LemmaId /\ 1 # FINAL
    <3>1. Len(mem.lemmas) < MaxLemmas /\ Len(mem.lemmas) \in Nat /\ MaxLemmas \in Nat
      BY <1>1, CommandRecord, SessionParameters DEF CommandInv
    <3> QED
      BY <3>1 DEF LemmaId, FINAL
  <2>2. node \in DagNode /\ node.verified
    BY DEF DagNode
  <2>3. first = Grown(mem.dag, 1, node)
    BY DEF DagWith, Grown
  <2> HIDE DEF node
  <2>4. first \in Dags /\ 1 \in DOMAIN first /\ first[1] = node
    <3> DEFINE old == mem.dag
    <3>1. old \in Dags /\ 1 \in LemmaId \cup {FINAL} /\ first = Grown(old, 1, node)
      BY <1>3, <2>1, <2>3
    <3> HIDE DEF old, mem, first
    <3>2. Grown(old, 1, node) \in Dags
      BY <3>1, <2>2, DagGrows
    <3>3. DOMAIN Grown(old, 1, node) = DOMAIN old \cup {1}
      BY DEF Grown
    <3>4. Grown(old, 1, node)[1] = node
      BY DEF Grown
    <3> QED
      BY <3>1, <3>2, <3>3, <3>4
  <2>5. first[1].verified
    BY <2>2, <2>4
  <2>6. last \in DagNode /\ last.verified /\ last.deps = {1}
    BY <2>1, <2>5 DEF DagNode
  <2>7. dag = Grown(first, FINAL, last)
    BY DEF DagWith, Grown
  <2> HIDE DEF first, last
  <2>8. /\ dag \in Dags /\ FINAL \in DOMAIN dag /\ dag[FINAL] = last
        /\ 1 \in DOMAIN dag /\ dag[1].verified
    <3>1. FINAL \in LemmaId \cup {FINAL}
      OBVIOUS
    <3> HIDE DEF dag
    <3>2. Grown(first, FINAL, last) \in Dags
      BY <3>1, <2>4, <2>6, DagGrows
    <3>3. DOMAIN Grown(first, FINAL, last) = DOMAIN first \cup {FINAL}
      BY DEF Grown
    <3>4. Grown(first, FINAL, last)[FINAL] = last
          /\ \A i \in DOMAIN first : i # FINAL => Grown(first, FINAL, last)[i] = first[i]
      BY DEF Grown
    <3> QED
      BY <2>1, <2>4, <2>5, <2>7, <3>2, <3>3, <3>4
  <2> HIDE DEF dag
  <2>9. new \in SessionRecord /\ new.lemmas = mem.lemmas /\ new.dag = dag
    BY <1>3, <2>8 DEF SessionRecord, Status
  <2> HIDE DEF new
  <2>10. VerifiedIn(new) = VerifiedIn(mem)
    BY <2>9 DEF VerifiedIn
  <2>11. Concluded(new)
    BY <2>6, <2>8, <2>9, <1>1 DEF Concluded
  <2>12. DagAgrees(new)
    BY <1>1, <1>3, <2>9 DEF DagAgrees
  <2>13. LemmaKept(new, file.lemma)
    BY <2>8, <2>9, <2>10, <2>11, <2>12, <1>3 DEF LemmaKept, Replays
  <2>14. Len(proc.mem.lemmas) <= Len(new.lemmas)
    BY <1>1, <2>9, CommandRecord
  <2> QED
    BY <1>1, <1>4, <1>6, <2>13, <2>14, ContinueKeeps DEF Steps
<1> QED
  BY <1>2, <1>5, <1>6

LEMMA DieKeeps == SessionInv /\ Die => SessionInv'
<1> SUFFICES ASSUME SessionInv, Die PROVE SessionInv'
  OBVIOUS
<1>1. Raise("died") /\ UNCHANGED <<kind, disk, file>> /\ file' \in SessionFiles
  BY DEF Die, SessionInv
<1> QED
  BY <1>1, RaiseKeeps DEF SessionOutcomes

LEMMA DieInSaveKeeps == SessionInv /\ DieInSave => SessionInv'
<1> SUFFICES ASSUME SessionInv, DieInSave PROVE SessionInv'
  OBVIOUS
<1>1. disk' = Torn /\ proc' = Idle /\ outcome' \in SessionOutcomes /\ UNCHANGED <<kind, file>>
  BY DEF DieInSave, Raise, SessionOutcomes
<1> QED
  BY <1>1 DEF SessionInv, Saved

LEMMA SessionStep == SessionInv /\ [SessionNext]_sessionVars => SessionInv'
<1> SUFFICES ASSUME SessionInv, [SessionNext]_sessionVars PROVE SessionInv'
  OBVIOUS
<1>1. CASE UNCHANGED sessionVars
  BY <1>1 DEF sessionVars, SessionInv, CommandInv, LemmaKept, Replays, DagAgrees, Concluded, VerifiedIn, Saved
<1>2. CASE SessionNext
  BY <1>2, StartKeeps, FormaliseScoutedKeeps, AfterScoutingKeeps, HandoffKeeps, CloseFiniteKeeps,
     CloseBooleanKeeps, SaveKeeps, ResumeStepKeeps, ImportNothingKeeps, ImportStatementKeeps,
     ImportLeanKeeps, SaveImportKeeps, AdapterRejectsKeeps, AdapterClosesKeeps, DieKeeps,
     DieInSaveKeeps DEF SessionNext
<1> QED
  BY <1>1, <1>2

LEMMA SessionInvariance == SessionSpec => []SessionInv
BY SessionInvInit, SessionStep, PTL DEF SessionSpec

LEMMA RecordsAreSessions == ASSUME NEW x \in SessionRecord PROVE IsSession(x)
<1>1. DOMAIN x = {"status", "lemmas", "dag", "certificate", "handoff", "frozen"}
  BY DEF SessionRecord
<1>2. x.dag \in Dags
  BY DEF SessionRecord
<1> QED
  BY <1>1, <1>2, DagDomain DEF SessionRecord, IsSession

LEMMA SessionTypes == SessionInv => SessionTypeOK
<1> SUFFICES ASSUME SessionInv PROVE SessionTypeOK
  OBVIOUS
<1>1. disk \notin {None, Torn} => IsSession(disk)
  BY RecordsAreSessions DEF SessionInv, Saved, LemmaKept
<1>2. proc # Idle => proc \in Command /\ IsSession(proc.mem)
  BY RecordsAreSessions DEF SessionInv, CommandInv, LemmaKept
<1> QED
  BY <1>1, <1>2 DEF SessionInv, SessionTypeOK, SessionFiles, Command, SessionOutcomes

\* The checkpoint and the copy of a command have every field with its type.
THEOREM SessionTypeCorrect == SessionSpec => []SessionTypeOK
BY SessionInvariance, SessionTypes, PTL

LEMMA SessionHolds == SessionInv => SessionIsSound
BY DEF SessionInv, SessionIsSound, VerifiedLemmasReplay, VerifiedIsClosed, LemmaKept, Replays, Concluded

\* Whatever starts a session, resumes it or dies in it, what its checkpoint calls
\* verified has the artifact that Lean accepted, and a verified session has its
\* conclusion in its DAG on verified parents (ProofSession,
\* tools/proofbench/proof_session.py).
THEOREM SessionStaysSound == SessionSpec => []SessionIsSound
BY SessionInvariance, SessionHolds, PTL

-----------------------------------------------------------------------------
(* A finite session that is started once.  What the checkpoint and the     *)
(* copy of a command say agrees with the files beside them, which change   *)
(* only where the checkpoint does not say anything yet: a bundle is        *)
(* written before there is a checkpoint, a certificate while the session   *)
(* is not verified.                                                        *)

Resumable(x, files) ==
  /\ x.frozen
  /\ x.handoff # NoBundle => files.handoff = x.handoff
  /\ FINAL \in DOMAIN x.dag => x.status = "VERIFIED" /\ files.certificate = x.certificate

OnceCommand ==
  /\ Resumable(proc.mem, file)
  /\ proc.cmd = "start" => disk = None
  /\ proc.cmd = "resume" /\ Saved /\ disk.status = "VERIFIED" => proc.mem.status = "VERIFIED"
  /\ proc.pc \in {"lemmas", "handoff"} => proc.cmd = "start"
  /\ proc.pc \in {"import", "imported"} => proc.cmd = "resume"
  /\ proc.pc \in {"lemmas", "handoff", "close"} => proc.mem.status # "VERIFIED"

OnceInv ==
  /\ Saved => Resumable(disk, file)
  /\ proc # Idle => OnceCommand

\* A command that ends leaves the checkpoint as it was, or saves its copy.
LEMMA RaiseOnce ==
  ASSUME OnceInv, NEW ending, Raise(ending), Resumable(disk, file) \/ ~ Saved,
         disk' = disk, file'.handoff = file.handoff,
         file'.certificate = file.certificate \/ (Saved => FINAL \notin DOMAIN disk.dag)
  PROVE  OnceInv'
BY DEF OnceInv, Raise, Resumable, Saved

\* A command goes on, with the files as they were.
LEMMA ContinueOnce ==
  ASSUME OnceInv, OnceCommand, CommandInv, NEW step \in Steps, NEW mem \in SessionRecord,
         proc'.pc = step, proc'.mem = mem, proc'.cmd = proc.cmd,
         file'.handoff = file.handoff, file'.certificate = file.certificate, disk' = disk,
         mem.frozen = proc.mem.frozen, mem.handoff = proc.mem.handoff, mem.certificate = proc.mem.certificate,
         FINAL \in DOMAIN mem.dag => FINAL \in DOMAIN proc.mem.dag, mem.status = proc.mem.status,
         step \in {"lemmas", "handoff"} => proc.cmd = "start",
         step \in {"import", "imported"} => proc.cmd = "resume",
         step \in {"lemmas", "handoff", "close"} => mem.status # "VERIFIED"
  PROVE  OnceInv'
<1>1. Resumable(mem, file')
  BY DEF OnceCommand, Resumable
<1>2. OnceCommand'
  BY <1>1 DEF OnceCommand, Saved
<1> QED
  BY <1>2 DEF OnceInv, Saved, Resumable

\* A command at its end has nothing more to look at than its copy and the checkpoint.
LEMMA EndOnce ==
  ASSUME OnceInv, OnceCommand, NEW mem, proc'.pc = "save", proc'.mem = mem, proc'.cmd = proc.cmd,
         disk' = disk, Resumable(mem, file'), Saved => Resumable(disk, file'),
         proc.cmd = "resume" /\ Saved /\ disk.status = "VERIFIED" => mem.status = "VERIFIED"
  PROVE  OnceInv'
<1>1. OnceCommand'
  BY DEF OnceCommand, Saved
<1> QED
  BY <1>1 DEF OnceInv, Saved

LEMMA ContinuedCommand ==
  ASSUME CommandInv, NEW step, NEW mem, Continue(step, mem)
  PROVE  proc'.pc = step /\ proc'.mem = mem /\ proc'.cmd = proc.cmd
BY DEF Continue, CommandInv, Command

\* While the copy is not verified, no conclusion is in it, nor in the checkpoint.
LEMMA UnverifiedHasNoFinal ==
  ASSUME OnceInv, OnceCommand, proc.cmd \in {"start", "resume"}, proc.mem.status # "VERIFIED"
  PROVE  FINAL \notin DOMAIN proc.mem.dag /\ (Saved => FINAL \notin DOMAIN disk.dag)
BY DEF OnceInv, OnceCommand, Resumable, Saved

LEMMA AddLemmaOnce ==
  ASSUME SessionInv, OnceInv, OnceCommand, CommandInv, NEW statement \in Statements, NEW human \in BOOLEAN,
         NEW ok \in BOOLEAN, NEW step \in {"lemmas", "imported"}, NEW todo,
         AddLemma(statement, human, ok, step, todo), UNCHANGED disk, Len(proc.mem.lemmas) < MaxLemmas,
         step = "lemmas" => proc.pc = "lemmas", step = "imported" => proc.pc = "import"
  PROVE  OnceInv'
<1> DEFINE mem == proc.mem
           id == NewId(mem)
           good == Checked(statement, ok)
           lemmas == Append(mem.lemmas, [statement |-> statement, human |-> human, verified |-> good])
           dag == DagWith(mem.dag, id, {}, good)
           new == [mem EXCEPT !.lemmas = lemmas, !.dag = dag]
<1>1. mem \in SessionRecord /\ Len(mem.lemmas) \in Nat /\ mem.dag \in Dags
  BY CommandRecord DEF SessionRecord
<1>2. id # FINAL
  BY <1>1 DEF NewId, FINAL
<1>3. file' = [file EXCEPT !.lemma[id] = statement] /\ proc' = [proc EXCEPT !.pc = step, !.todo = todo, !.mem = new]
  BY DEF AddLemma, CommandInv, Command
<1>4. DOMAIN dag = DOMAIN mem.dag \cup {id}
  BY DEF DagWith
<1> HIDE DEF id, lemmas, dag, good
<1>5. /\ new.frozen = mem.frozen /\ new.handoff = mem.handoff /\ new.certificate = mem.certificate
      /\ new.status = mem.status /\ new.dag = dag
  BY <1>1 DEF SessionRecord
<1>6. proc'.pc = step /\ proc'.mem = new /\ proc'.cmd = proc.cmd
  BY <1>3 DEF CommandInv, Command
<1>7. file'.handoff = file.handoff /\ file'.certificate = file.certificate
  BY <1>3 DEF SessionInv, SessionFiles
<1> HIDE DEF new
<1>8. Resumable(new, file')
  BY <1>2, <1>4, <1>5, <1>7 DEF OnceCommand, Resumable
<1>9. OnceCommand'
  BY <1>5, <1>6, <1>8 DEF OnceCommand, Saved
<1> QED
  BY <1>7, <1>9 DEF OnceInv, Saved, Resumable

-----------------------------------------------------------------------------
\* The first start finds no checkpoint, and leaves before there is one.
LEMMA StartOnce ==
  ASSUME SessionInv, OnceInv, kind = "finite", ~ Restarts, Start
  PROVE  OnceInv'
<1> DEFINE mem == [Fresh EXCEPT !.status = "WORKING", !.frozen = TRUE]
<1>1. disk = None /\ UNCHANGED <<disk, file>>
  BY DEF Start
<1>2. \E closer, todo : Begin("start", "lemmas", closer, todo, mem)
  BY <1>1 DEF Start
<1>3. proc'.pc = "lemmas" /\ proc'.cmd = "start" /\ proc'.mem = mem
  BY <1>2 DEF Begin
<1>4. /\ mem.frozen /\ mem.handoff = NoBundle /\ mem.status = "WORKING" /\ mem.dag = << >>
  BY DEF Fresh
<1> HIDE DEF mem
<1>5. FINAL \notin DOMAIN mem.dag
  BY <1>4
<1>6. OnceCommand'
  BY <1>1, <1>3, <1>4, <1>5 DEF OnceCommand, Resumable
<1> QED
  BY <1>1, <1>6 DEF OnceInv, Saved

LEMMA FormaliseScoutedOnce == ASSUME SessionInv, OnceInv, FormaliseScouted PROVE OnceInv'
<1>1. proc # Idle /\ OnceCommand /\ CommandInv /\ proc.pc = "lemmas" /\ proc.todo # <<>> /\ UNCHANGED disk
  BY InCommand DEF FormaliseScouted, OnceInv, At
<1>2. PICK ok \in BOOLEAN : AddLemma(Head(proc.todo), FALSE, ok, "lemmas", Tail(proc.todo))
  BY DEF FormaliseScouted
<1>3. proc.todo \in Seq(Statements) /\ Len(proc.mem.lemmas) \in Nat
  BY <1>1, CommandRecord DEF CommandInv, Command
<1>4. Head(proc.todo) \in Statements /\ Len(proc.todo) \in Nat \ {0}
  BY <1>1, <1>3
<1>5. Len(proc.mem.lemmas) < MaxLemmas
  <2> DEFINE a == Len(proc.mem.lemmas)
             b == Len(proc.todo)
  <2>1. a \in Nat /\ b \in Nat \ {0} /\ a + b < MaxLemmas /\ MaxLemmas \in Nat
    BY <1>1, <1>3, <1>4, SessionParameters DEF CommandInv
  <2> HIDE DEF a, b
  <2>2. a < MaxLemmas
    BY <2>1
  <2> QED
    BY <2>2 DEF a
<1> QED
  BY <1>1, <1>2, <1>4, <1>5, AddLemmaOnce

LEMMA ExhaustedOnce ==
  ASSUME NEW mem \in SessionRecord
  PROVE  /\ Exhausted(mem).frozen = mem.frozen /\ Exhausted(mem).handoff = mem.handoff
         /\ Exhausted(mem).certificate = mem.certificate /\ Exhausted(mem).dag = mem.dag
BY DEF Exhausted, SessionRecord

LEMMA AfterScoutingOnce == ASSUME SessionInv, OnceInv, AfterScouting PROVE OnceInv'
<1>1. OnceCommand /\ CommandInv /\ proc.pc = "lemmas" /\ UNCHANGED <<disk, file>>
  BY InCommand DEF AfterScouting, OnceInv, At
<1>2. proc.mem \in SessionRecord /\ proc.cmd = "start" /\ disk = None /\ proc.mem.status # "VERIFIED"
  BY <1>1, CommandRecord DEF OnceCommand
<1>3. ASSUME NEW step \in {"handoff", "close"}, Continue(step, proc.mem) PROVE OnceInv'
  BY <1>1, <1>2, <1>3, ContinuedCommand, ContinueOnce DEF Steps
<1>4. CASE Continue("save", Exhausted(proc.mem))
  <2> DEFINE mem == Exhausted(proc.mem)
  <2>1. proc'.pc = "save" /\ proc'.mem = mem /\ proc'.cmd = proc.cmd
    BY <1>1, <1>4, ContinuedCommand
  <2>2. FINAL \notin DOMAIN proc.mem.dag
    BY <1>1, <1>2, UnverifiedHasNoFinal
  <2>3. Resumable(mem, file')
    BY <1>1, <1>2, <2>2, ExhaustedOnce DEF OnceCommand, Resumable
  <2> HIDE DEF mem
  <2> QED
    BY <1>1, <1>2, <2>1, <2>3, EndOnce DEF Saved
<1> QED
  BY <1>3, <1>4 DEF AfterScouting

\* The bundle is written while there is no checkpoint that could name another.
LEMMA HandoffOnce == ASSUME SessionInv, OnceInv, Handoff PROVE OnceInv'
<1> DEFINE bundle == BundleOf(proc.mem)
           mem == [proc.mem EXCEPT !.status = "ACTIONABLE_HANDOFF", !.handoff = bundle]
<1>1. OnceCommand /\ CommandInv /\ proc.pc = "handoff" /\ UNCHANGED disk
      /\ file' = [file EXCEPT !.handoff = bundle] /\ Continue("save", mem)
  BY InCommand DEF Handoff, OnceInv, At, RecordedBundle
<1>2. proc.mem \in SessionRecord /\ proc.cmd = "start" /\ disk = None /\ proc.mem.status # "VERIFIED"
  BY <1>1, CommandRecord DEF OnceCommand
<1>3. proc'.pc = "save" /\ proc'.mem = mem /\ proc'.cmd = proc.cmd
  BY <1>1, ContinuedCommand
<1>4. FINAL \notin DOMAIN proc.mem.dag
  BY <1>1, <1>2, UnverifiedHasNoFinal
<1>5. file'.handoff = bundle
  BY <1>1 DEF SessionInv, SessionFiles
<1> HIDE DEF bundle
<1>6. mem.frozen = proc.mem.frozen /\ mem.handoff = bundle /\ mem.dag = proc.mem.dag
  BY <1>2 DEF SessionRecord
<1> HIDE DEF mem
<1>7. Resumable(mem, file')
  BY <1>1, <1>4, <1>5, <1>6 DEF OnceCommand, Resumable
<1> QED
  BY <1>1, <1>2, <1>3, <1>7, EndOnce DEF Saved

\* The certificate is written while neither the copy nor the checkpoint has a conclusion.
LEMMA CloseFiniteOnce == ASSUME SessionInv, OnceInv, CloseFinite PROVE OnceInv'
<1> DEFINE mem == proc.mem
           used == Used(mem)
           deps == Parents(mem)
           dag == DagWith(mem.dag, FINAL, deps, TRUE)
           new == [mem EXCEPT !.status = "VERIFIED", !.certificate = used, !.dag = dag]
<1>1. OnceCommand /\ CommandInv /\ proc.pc = "close" /\ UNCHANGED disk
      /\ file' = [file EXCEPT !.certificate = used]
  BY InCommand DEF CloseFinite, OnceInv, At
<1>2. \/ Continue("save", Exhausted(mem)) \/ Raise("ValueError") \/ Continue("save", new)
  BY DEF CloseFinite
<1>3. mem \in SessionRecord /\ mem.status # "VERIFIED" /\ proc.cmd \in {"start", "resume"}
  BY <1>1, CommandRecord DEF OnceCommand, CommandInv, Command
<1>4. FINAL \notin DOMAIN mem.dag /\ (Saved => FINAL \notin DOMAIN disk.dag)
  BY <1>1, <1>3, UnverifiedHasNoFinal
<1>5. file'.handoff = file.handoff /\ file'.certificate = used
  BY <1>1 DEF SessionInv, SessionFiles
<1> HIDE DEF used, deps, dag
<1>6. Saved => Resumable(disk, file) /\ Resumable(disk, file')
  BY <1>4, <1>5 DEF OnceInv, Resumable
<1>7. proc.cmd = "resume" /\ Saved => disk.status # "VERIFIED"
  BY <1>1, <1>3 DEF OnceCommand
<1>8. CASE Continue("save", Exhausted(mem))
  <2> DEFINE out == Exhausted(mem)
  <2>1. proc'.pc = "save" /\ proc'.mem = out /\ proc'.cmd = proc.cmd
    BY <1>1, <1>8, ContinuedCommand
  <2>2. Resumable(out, file')
    BY <1>1, <1>3, <1>4, <1>5, ExhaustedOnce DEF OnceCommand, Resumable
  <2> HIDE DEF out, mem
  <2> QED
    BY <1>1, <1>6, <1>7, <2>1, <2>2, EndOnce
<1>9. CASE Raise("ValueError")
  BY <1>1, <1>4, <1>5, <1>6, <1>9, RaiseOnce
<1>10. CASE Continue("save", new)
  <2>1. proc'.pc = "save" /\ proc'.mem = new /\ proc'.cmd = proc.cmd
    BY <1>1, <1>10, ContinuedCommand
  <2>2. new.frozen = mem.frozen /\ new.handoff = mem.handoff /\ new.certificate = used
        /\ new.status = "VERIFIED"
    BY <1>3 DEF SessionRecord
  <2> HIDE DEF new
  <2>3. Resumable(new, file')
    BY <1>1, <1>5, <2>2 DEF OnceCommand, Resumable
  <2> QED
    BY <1>1, <1>6, <1>7, <2>1, <2>3, EndOnce
<1> QED
  BY <1>2, <1>8, <1>9, <1>10

LEMMA SaveOnce == ASSUME SessionInv, OnceInv, Save PROVE OnceInv'
<1>1. OnceCommand /\ CommandInv /\ disk' = proc.mem /\ proc' = Idle /\ UNCHANGED file
  BY InCommand DEF Save, Raise, OnceInv, At
<1> QED
  BY <1>1 DEF OnceInv, OnceCommand, Resumable, Saved

LEMMA ResumeOnce == ASSUME SessionInv, OnceInv, Resume PROVE OnceInv'
<1>1. disk \notin {None, Torn} /\ UNCHANGED <<disk, file>> /\ Resumable(disk, file)
  BY DEF Resume, OnceInv, Saved
<1>2. CASE Raise("RESUME_INTEGRITY_ERROR")
  BY <1>1, <1>2, RaiseOnce
<1>3. CASE \E closer \in BOOLEAN : Begin("resume", "import", closer, <<>>, disk)
  <2>1. proc'.pc = "import" /\ proc'.cmd = "resume" /\ proc'.mem = disk
    BY <1>3 DEF Begin
  <2>2. OnceCommand'
    BY <1>1, <2>1 DEF OnceCommand, Saved
  <2> QED
    BY <1>1, <2>2 DEF OnceInv
<1> QED
  BY <1>2, <1>3 DEF Resume

LEMMA ImportNothingOnce == ASSUME SessionInv, OnceInv, ImportNothing PROVE OnceInv'
<1>1. OnceCommand /\ CommandInv /\ proc.pc = "import" /\ UNCHANGED <<disk, file>>
      /\ Continue("imported", proc.mem)
  BY InCommand DEF ImportNothing, OnceInv, At
<1>2. proc.mem \in SessionRecord /\ proc.cmd = "resume"
  BY <1>1, CommandRecord DEF OnceCommand
<1> QED
  BY <1>1, <1>2, ContinuedCommand, ContinueOnce DEF Steps

LEMMA ImportStatementOnce == ASSUME SessionInv, OnceInv, ImportStatement PROVE OnceInv'
<1>1. OnceCommand /\ CommandInv /\ proc.pc = "import" /\ UNCHANGED disk /\ Len(proc.mem.lemmas) < MaxLemmas
  BY InCommand DEF ImportStatement, OnceInv, At, CommandInv
<1>2. PICK statement \in Statements, ok \in BOOLEAN : AddLemma(statement, TRUE, ok, "imported", <<>>)
  BY DEF ImportStatement
<1> QED
  BY <1>1, <1>2, AddLemmaOnce

\* What is saved before the closer runs is the copy.
LEMMA SaveImportOnce == ASSUME SessionInv, OnceInv, SaveImport PROVE OnceInv'
<1>1. OnceCommand /\ CommandInv /\ proc.pc = "imported" /\ disk' = proc.mem /\ UNCHANGED file
  BY InCommand DEF SaveImport, OnceInv, At
<1>2. PICK step \in {"close", "save"} :
        Continue(step, proc.mem) /\ (step = "close" => proc.mem.status # "VERIFIED")
  BY DEF SaveImport, ClosesAfterImport
<1>3. proc'.pc = step /\ proc'.mem = proc.mem /\ proc'.cmd = proc.cmd
  BY <1>1, <1>2, ContinuedCommand
<1>4. proc.cmd = "resume"
  BY <1>1 DEF OnceCommand
<1>5. OnceCommand'
  BY <1>1, <1>2, <1>3, <1>4 DEF OnceCommand, Saved
<1> QED
  BY <1>1, <1>5 DEF OnceInv, OnceCommand, Saved

LEMMA EndsOnce ==
  ASSUME SessionInv, OnceInv, ImportLean \/ Die \/ DieInSave
  PROVE  OnceInv'
<1>1. CASE ImportLean \/ Die
  BY <1>1, RaiseOnce DEF ImportLean, Die, OnceInv
<1>2. CASE DieInSave
  BY <1>2 DEF DieInSave, Raise, OnceInv, Saved
<1> QED
  BY <1>1, <1>2

\* The actions of sessions of another kind are not taken.
LEMMA OnceNext ==
  ASSUME SessionInv, OnceInv, kind = "finite", ~ Restarts, [SessionNext]_sessionVars
  PROVE  OnceInv'
<1>1. CASE UNCHANGED sessionVars
  BY <1>1 DEF sessionVars, OnceInv, OnceCommand, Resumable, Saved
<1>2. ~ CloseBoolean /\ ~ AdapterRejects /\ ~ AdapterCloses
  BY DEF CloseBoolean, AdapterRejects, AdapterCloses
<1> QED
  BY <1>1, <1>2, StartOnce, FormaliseScoutedOnce, AfterScoutingOnce, HandoffOnce, CloseFiniteOnce, SaveOnce,
     ResumeOnce, ImportNothingOnce, ImportStatementOnce, SaveImportOnce, EndsOnce DEF SessionNext

\* A resumption saves a copy that is verified where the checkpoint is.
LEMMA SavesKeep == ASSUME SessionInv, OnceInv, ~ TornWrites, SessionNext PROVE ResumeKeeps
<1> SUFFICES ASSUME proc # Idle, proc.cmd = "resume", Saved, disk.status = "VERIFIED"
             PROVE  disk'.status = "VERIFIED"
  BY DEF ResumeKeeps
<1>1. proc.mem.status = "VERIFIED"
  BY DEF OnceInv, OnceCommand
<1>2. disk' = disk \/ disk' = proc.mem
  BY DEF SessionNext, Start, FormaliseScouted, AfterScouting, Handoff, CloseFinite, CloseBoolean, Save,
         Resume, ImportNothing, ImportStatement, ImportLean, SaveImport, AdapterRejects, AdapterCloses,
         Die, DieInSave
<1> QED
  BY <1>1, <1>2

LEMMA OnceInit == SessionInit => OnceInv
BY DEF SessionInit, OnceInv, Saved

LEMMA OnceHolds == SessionInv /\ OnceInv => HandoffResumes /\ CertificateIsKept
BY DEF SessionInv, OnceInv, Resumable, HandoffResumes, CertificateIsKept, ResumeIntegrity, LemmaKept, Replays

LEMMA OnceInvariance ==
  ASSUME Kinds \subseteq {"finite"}, ~ Restarts
  PROVE  SessionSpec => []OnceInv
<1>1. SessionInv => kind = "finite"
  BY DEF SessionInv
<1>2. SessionInv /\ OnceInv /\ [SessionNext]_sessionVars => OnceInv'
  BY <1>1, OnceNext
<1> QED
  BY <1>2, OnceInit, SessionInvariance, PTL DEF SessionSpec

\* A finite session that is started once can be resumed from what it saves, wherever
\* its commands die: a handoff passes its own integrity check, and the certificate
\* that a conclusion was verified with is the one on disk (_verify_resume_integrity,
\* tools/proofbench/proof_session.py).
THEOREM CheckpointsStayResumable ==
  ASSUME Kinds \subseteq {"finite"}, ~ Restarts
  PROVE  SessionSpec => [](HandoffResumes /\ CertificateIsKept)
BY OnceHolds, OnceInvariance, SessionInvariance, PTL

\* If its checkpoints are also written whole, no resumption of such a session takes
\* its verification back.
THEOREM VerifiedSessionsStay ==
  ASSUME Kinds \subseteq {"finite"}, ~ Restarts, ~ TornWrites
  PROVE  SessionSpec => [][ResumeKeeps]_sessionVars
<1>1. SessionInv /\ OnceInv /\ [SessionNext]_sessionVars => [ResumeKeeps]_sessionVars
  <2> SUFFICES ASSUME SessionInv, OnceInv, SessionNext PROVE ResumeKeeps
    OBVIOUS
  <2> QED
    BY SavesKeep
<1> QED
  BY <1>1, OnceInvariance, SessionInvariance, PTL DEF SessionSpec
=============================================================================
