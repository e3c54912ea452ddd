----------------------------- MODULE ProofEngine -----------------------------
(***************************************************************************)
(* The patch-and-validate engine of ProofBench V9,                         *)
(* tools/proofbench/proof_engine.py, as functions on an engine record, and *)
(* the engine as a machine driven by tool calls in any order.              *)
(*                                                                         *)
(* A candidate text is abstracted to what the validators say of it: two    *)
(* texts on which they agree are one.  An engine keeps                     *)
(*   phase         the file that may be edited, or PUBLIC_COMPLETE         *)
(*   py, lean      the validators' last verdicts, not those of the files   *)
(*   frozen        the files no patch may touch                            *)
(*   files         the candidate texts                                     *)
(*   best          the checkpoint revert restores: its texts and its rank  *)
(***************************************************************************)
EXTENDS Integers

VARIABLE engine

Python == "solution.py"
Lean   == "Solution.lean"
AllowedFiles == {Python, Lean}

Phase == {"PYTHON", "LEAN", "PUBLIC_COMPLETE"}

PyRank ==
  [ABSENT |-> 0, COMPILE_FAILURE |-> 1, COMPILE_PASS |-> 2,
   PUBLIC_RUNTIME_FAILURE |-> 3, PUBLIC_PASS |-> 4]
LeanRank ==
  [ABSENT |-> 0, COMPILE_FAILURE |-> 1, COMPILE_PASS |-> 2,
   THEOREM_SHAPE_PASS |-> 3, AXIOM_INTEGRITY_PASS |-> 4]

\* What check_python and check_lean may find a text to be.
PyText   == {"COMPILE_FAILURE", "PUBLIC_RUNTIME_FAILURE", "PUBLIC_PASS"}
LeanText == {"COMPILE_FAILURE", "COMPILE_PASS", "THEOREM_SHAPE_PASS",
             "AXIOM_INTEGRITY_PASS"}

Texts(n) == IF n = Python THEN PyText ELSE LeanText
Passing == [n \in AllowedFiles |->
              IF n = Python THEN "PUBLIC_PASS" ELSE "AXIOM_INTEGRITY_PASS"]

Files  == {f \in [AllowedFiles -> PyText \cup LeanText] :
             \A n \in AllowedFiles : f[n] \in Texts(n)}
Engine ==
  [phase : Phase, py : DOMAIN PyRank, lean : DOMAIN LeanRank,
   frozen : SUBSET AllowedFiles, files : Files,
   best : [files : Files, rank : 0 .. 44]]

Rank(e) == PyRank[e.py] * 10 + LeanRank[e.lean]

Checkpoint(e) ==
  IF Rank(e) >= e.best.rank
    THEN [e EXCEPT !.best = [files |-> e.files, rank |-> Rank(e)]] ELSE e

NewEngine(files) ==
  [phase |-> "PYTHON", py |-> "ABSENT", lean |-> "ABSENT", frozen |-> {},
   files |-> files, best |-> [files |-> files, rank |-> 0]]

\* The file of the current phase, if one may be edited.
Editable(e) ==
  {n \in AllowedFiles \ e.frozen :
     \/ e.phase = "PYTHON" /\ n = Python
     \/ e.phase = "LEAN" /\ n = Lean}

\* The text is replaced and a checkpoint made before anything has judged it.
ApplyPatch(e, n, text) ==
  IF n \in Editable(e) THEN Checkpoint([e EXCEPT !.files[n] = text]) ELSE e

\* Mutant of CheckPython: no checkpoint is made when the file is frozen.
CheckPythonNoCheckpoint(e) ==
  IF e.files[Python] # "PUBLIC_PASS" THEN [e EXCEPT !.py = e.files[Python]]
  ELSE [e EXCEPT !.py = "PUBLIC_PASS", !.frozen = @ \cup {Python},
                 !.phase = "LEAN"]

CheckPython(e) ==
  IF e.files[Python] # "PUBLIC_PASS" THEN [e EXCEPT !.py = e.files[Python]]
  ELSE Checkpoint([e EXCEPT !.py = "PUBLIC_PASS", !.phase = "LEAN",
                            !.frozen = @ \cup {Python}])

\* Mutant of CheckLean: a proof of the right shape is enough.
CheckLeanShape(e) ==
  IF e.py # "PUBLIC_PASS" THEN e
  ELSE IF e.files[Lean] \notin {"THEOREM_SHAPE_PASS", "AXIOM_INTEGRITY_PASS"}
    THEN [e EXCEPT !.lean = e.files[Lean]]
  ELSE Checkpoint([e EXCEPT !.lean = e.files[Lean],
                            !.phase = "PUBLIC_COMPLETE",
                            !.frozen = @ \cup {Lean}])

\* PYTHON_GATE, then forbidden constructs and compilation, shape, axioms.
CheckLean(e) ==
  IF e.py # "PUBLIC_PASS" THEN e
  ELSE IF e.files[Lean] # "AXIOM_INTEGRITY_PASS"
    THEN [e EXCEPT !.lean = e.files[Lean]]
  ELSE Checkpoint([e EXCEPT !.lean = "AXIOM_INTEGRITY_PASS",
                            !.phase = "PUBLIC_COMPLETE",
                            !.frozen = @ \cup {Lean}])

Check(e) == IF e.phase = "PYTHON" THEN CheckPython(e) ELSE CheckLean(e)

\* Every file of the best checkpoint is written back, frozen or not.
Revert(e) == [e EXCEPT !.files = e.best.files]

Unfrozen(e, n) ==
  [e EXCEPT !.frozen = @ \ {n},
            !.phase = IF n = Python THEN "PYTHON" ELSE "LEAN"]

-----------------------------------------------------------------------------
(* Tool calls in any order: ProofEngine.execute *)

ToolInit == \E f \in Files : engine = NewEngine(f)

Patch == \E n \in AllowedFiles : \E text \in Texts(n) :
           engine' = ApplyPatch(engine, n, text)
CheckTool == \/ engine' = CheckPython(engine)
             \/ engine' = CheckLean(engine)
RevertTool == engine' = Revert(engine)

\* unfreeze, which only a supervisor may call.
Unfreeze == \E n \in engine.frozen : engine' = Unfrozen(engine, n)

ToolNext == Patch \/ CheckTool \/ RevertTool
ToolSpec == ToolInit /\ [][ToolNext]_engine
SupervisedSpec == ToolInit /\ [][ToolNext \/ Unfreeze]_engine

-----------------------------------------------------------------------------
EngineTypeOK == engine \in Engine

\* A frozen candidate is one its validators passed: neither a patch nor a
\* revert to an earlier checkpoint, which writes both files whatever is frozen,
\* puts another text in its place.
FrozenFileIsValidated ==
  \A n \in engine.frozen : engine.files[n] = Passing[n]

\* PUBLIC_COMPLETE is reached on candidates that pass: the engine never turns
\* a compiler's success, or an old verdict, into a proof.
PublicCompleteIsEarned ==
  engine.phase = "PUBLIC_COMPLETE" => engine.files = Passing

\* Both, in every order of tool calls.
ToolsAreSound == FrozenFileIsValidated /\ PublicCompleteIsEarned
=============================================================================
