------------------------------ MODULE ProofSession ------------------------------
(***************************************************************************)
(* A persistent proof session, tools/proofbench/proof_session.py.  Each    *)
(* command (`session start`, `session resume`) is a process that loads     *)
(* session.json, works on its own copy and on files beside it, and saves   *)
(* the copy at the end.  Lean accepts only provable statements but may     *)
(* time out on any of them.  A file's hash stands for its content.         *)
(***************************************************************************)
EXTENDS Integers, Sequences, FiniteSets

CONSTANTS
  Kinds,          \* kinds of session: "finite", "boolean", "adapter"
  Statements,     \* what a lemma can say
  Provable,       \* those that follow from the problem
  Scouted,        \* the statements propagation derives, in order
  HandoffPrefix,  \* how many of them are formalised when the closer is disabled
  MinVerified,    \* verified lemmas that the finite closer asks for
  MaxLemmas,      \* bound: no command begins that could add more lemmas
  Restarts,       \* whether `start` is issued on a session that exists
  Interrupts,     \* whether a process may die between two file operations
  TornWrites,     \* whether it may die inside the write of session.json
  None, Torn      \* no session.json; a truncated one

ASSUME SessionAssumption ==
  /\ Kinds \subseteq {"finite", "boolean", "adapter"}
  /\ Provable \subseteq Statements /\ Scouted \in Seq(Provable)
  /\ HandoffPrefix \in 0..Len(Scouted) /\ MinVerified \in Nat /\ MaxLemmas \in Nat
  /\ {Restarts, Interrupts, TornWrites} \subseteq BOOLEAN /\ None # Torn

VARIABLES
  kind,     \* the kind of the session
  disk,     \* session.json
  file,     \* the lemma artifacts, the certificate and the handoff bundle
  proc,     \* the command under way
  outcome   \* how the last command ended

sessionVars == <<kind, disk, file, proc, outcome>>

Status == {"WORKING", "VERIFIED", "ACTIONABLE_HANDOFF", "PROOF_RECOVERY_EXHAUSTED"}
FINAL == 0
LemmaId == 1..MaxLemmas
Lemma == [statement : Statements, human : BOOLEAN, verified : BOOLEAN]
Bundle == [verified : SUBSET LemmaId, nodes : SUBSET (LemmaId \cup {FINAL})]
NoBundle == [verified |-> {}, nodes |-> {-1}]
DagNode == [deps : SUBSET LemmaId, verified : BOOLEAN]


\* certificate: the one FINAL was verified with (the lemma it uses, 0 for none);
\* handoff: the expected hash; frozen: metrics.implementation_version is there.
IsSession(x) ==
  /\ DOMAIN x = {"status", "lemmas", "dag", "certificate", "handoff", "frozen"}
  /\ x.status \in Status /\ x.lemmas \in Seq(Lemma)
  /\ DOMAIN x.dag \subseteq LemmaId \cup {FINAL}
  /\ \A id \in DOMAIN x.dag : x.dag[id] \in DagNode
  /\ x.certificate \in 0..MaxLemmas /\ x.handoff \in Bundle \cup {NoBundle}
  /\ x.frozen \in BOOLEAN
Fresh == [status |-> "WORKING", lemmas |-> <<>>, dag |-> << >>, certificate |-> 0,
          handoff |-> NoBundle, frozen |-> FALSE]
Idle == [pc |-> "idle"]
Steps == {"lemmas", "handoff", "close", "import", "imported", "save"}

SessionTypeOK ==
  /\ kind \in Kinds
  /\ disk \notin {None, Torn} => IsSession(disk)
  /\ file.lemma \in [LemmaId -> Statements \cup {None}]
  /\ file.certificate \in -1..MaxLemmas /\ file.handoff \in Bundle \cup {NoBundle}
  /\ proc # Idle => /\ proc.pc \in Steps /\ proc.cmd \in {"start", "resume"}
                    /\ proc.closer \in BOOLEAN /\ proc.todo \in Seq(Statements)
                    /\ IsSession(proc.mem)
  /\ outcome \in {"none", "saved", "died", "RESUME_INTEGRITY_ERROR", "NameError", "ValueError"}

-----------------------------------------------------------------------------
SessionInit ==
  /\ kind \in Kinds
  /\ disk = None
  /\ file = [lemma |-> [i \in LemmaId |-> None], certificate |-> -1, handoff |-> NoBundle]
  /\ proc = Idle
  /\ outcome = "none"

VerifiedIn(mem) == {i \in DOMAIN mem.lemmas : mem.lemmas[i].verified}

\* Mutant of HumanIn: a rejected lemma is used too.
HumanInAny(mem) == {i \in DOMAIN mem.lemmas : mem.lemmas[i].human}

HumanIn(mem) == {i \in VerifiedIn(mem) : mem.lemmas[i].human}
At(pc) == proc # Idle /\ proc.pc = pc

Begin(cmd, pc, closer, todo, mem) ==
  proc' = [pc |-> pc, cmd |-> cmd, closer |-> closer, todo |-> todo, mem |-> mem]
Continue(pc, mem) == proc' = [proc EXCEPT !.pc = pc, !.mem = mem]

\* An exception leaves the command: what it did to the files stays.
Raise(result) == proc' = Idle /\ outcome' = result

\* ProofDag.add and ProofDag.verify for one node whose artifact Lean checked.
InvalidDependency(dag, id, deps) == id \in DOMAIN dag \/ ~ deps \subseteq DOMAIN dag
DagWith(dag, id, deps, ok) ==
  LET node == [deps |-> deps, verified |-> ok /\ \A d \in deps : dag[d].verified]
  IN [i \in DOMAIN dag \cup {id} |-> IF i = id THEN node ELSE dag[i]]

\* Mutant of NewId: the next number after the verified lemmas.
NewIdVerified(mem) == Cardinality(VerifiedIn(mem)) + 1

NewId(mem) == Len(mem.lemmas) + 1

\* The exit status of Lean on the lemma's artifact.
Checked(statement, ok) == ok /\ statement \in Provable

\* _add_lemma with _lean_check: the artifact, the lemma and its node.
AddLemma(statement, human, ok, pc, todo) ==
  LET mem == proc.mem  id == NewId(mem)  good == Checked(statement, ok) IN
  /\ file' = [file EXCEPT !.lemma[id] = statement]
  /\ proc' = [proc EXCEPT !.pc = pc, !.todo = todo,
       !.mem.lemmas = Append(@, [statement |-> statement, human |-> human, verified |-> good]),
       !.mem.dag = DagWith(@, id, {}, good)]

-----------------------------------------------------------------------------
\* session start.  The status of a session that exists is not looked at.
Start ==
  /\ proc = Idle /\ disk # Torn
  /\ Restarts \/ disk = None
  /\ \E closer \in BOOLEAN :
       LET mem == IF disk = None THEN Fresh ELSE disk
           todo == IF closer THEN Scouted ELSE SubSeq(Scouted, 1, HandoffPrefix) IN
       CASE kind = "finite" ->
              /\ Len(mem.lemmas) + Len(todo) < MaxLemmas
              /\ Begin("start", "lemmas", closer, todo,
                       [mem EXCEPT !.status = "WORKING", !.frozen = TRUE])
         [] kind = "boolean" ->
              /\ Len(mem.lemmas) + Len(Scouted) < MaxLemmas
              /\ Begin("start", "lemmas", closer, Scouted, mem)
         [] kind = "adapter" ->
              Begin("start", "handoff", FALSE, <<>>, [mem EXCEPT !.frozen = TRUE])
  /\ UNCHANGED <<kind, disk, file, outcome>>

FormaliseScouted ==
  /\ At("lemmas") /\ proc.todo # <<>>
  /\ \E ok \in BOOLEAN :
       AddLemma(Head(proc.todo), FALSE, ok, "lemmas", Tail(proc.todo))
  /\ UNCHANGED <<kind, disk, outcome>>

\* Mutant of Exhausted: a status that SessionStatus does not have.
ExhaustedRenamed(mem) == [mem EXCEPT !.status = "EXHAUSTED"]

Exhausted(mem) == [mem EXCEPT !.status = "PROOF_RECOVERY_EXHAUSTED"]

\* A Boolean goal that is not a variable has no closer.
AfterScouting ==
  /\ At("lemmas") /\ proc.todo = <<>>
  /\ \/ ~ proc.closer /\ Continue("handoff", proc.mem)
     \/ /\ proc.closer
        /\ kind = "finite" => Cardinality(VerifiedIn(proc.mem)) >= MinVerified
        /\ Continue("close", proc.mem)
     \/ /\ proc.closer
        /\ kind = "finite" => Cardinality(VerifiedIn(proc.mem)) < MinVerified
        /\ Continue("save", Exhausted(proc.mem))
  /\ UNCHANGED <<kind, disk, file, outcome>>

BundleOf(mem) == [verified |-> VerifiedIn(mem), nodes |-> DOMAIN mem.dag]

\* Mutant of RecordedBundle: hashed before the DAG is part of it.
BundleWithoutDag(mem) == [verified |-> VerifiedIn(mem), nodes |-> {}]

RecordedBundle(mem) == BundleOf(mem)

\* _handoff: the bundle is a file before its hash is in session.json.
Handoff ==
  /\ At("handoff")
  /\ file' = [file EXCEPT !.handoff = BundleOf(proc.mem)]
  /\ Continue("save", [proc.mem EXCEPT !.status = "ACTIONABLE_HANDOFF",
                                       !.handoff = RecordedBundle(proc.mem)])
  /\ UNCHANGED <<kind, disk, outcome>>

\* The last lemma a human gave is the parent of the certificate.
Used(mem) ==
  IF HumanIn(mem) = {} THEN 0 ELSE CHOOSE h \in HumanIn(mem) : \A g \in HumanIn(mem) : g <= h
Parents(mem) == {Used(mem)} \ {0}

\* _close: the certificate is written, checked, and added to the DAG.
CloseFinite ==
  /\ At("close") /\ kind = "finite"
  /\ LET mem == proc.mem IN
     /\ file' = [file EXCEPT !.certificate = Used(mem)]
     /\ \/ Continue("save", Exhausted(mem)) /\ UNCHANGED outcome
        \/ /\ InvalidDependency(mem.dag, FINAL, Parents(mem))
           /\ Raise("ValueError")
        \/ /\ ~ InvalidDependency(mem.dag, FINAL, Parents(mem))
           /\ Continue("save", [mem EXCEPT !.status = "VERIFIED", !.certificate = Used(mem),
                                           !.dag = DagWith(@, FINAL, Parents(mem), TRUE)])
           /\ UNCHANGED outcome
  /\ UNCHANGED <<kind, disk>>

\* _start_boolean closes without a node of its own.
CloseBoolean ==
  /\ At("close") /\ kind = "boolean"
  /\ \E status \in {"VERIFIED", "PROOF_RECOVERY_EXHAUSTED"} :
       Continue("save", [proc.mem EXCEPT !.status = status])
  /\ file' = [file EXCEPT !.certificate = 0]
  /\ UNCHANGED <<kind, disk, outcome>>

Save ==
  /\ At("save")
  /\ disk' = proc.mem
  /\ Raise("saved")
  /\ UNCHANGED <<kind, file>>

-----------------------------------------------------------------------------
\* _verify_resume_integrity, on the session that was loaded.
ResumeIntegrity(mem) ==
  /\ mem.frozen
  /\ \A i \in VerifiedIn(mem) : file.lemma[i] = mem.lemmas[i].statement
  /\ mem.handoff # NoBundle => file.handoff = mem.handoff

Resume ==
  /\ proc = Idle /\ disk \notin {None, Torn}
  /\ \/ /\ ResumeIntegrity(disk) /\ Len(disk.lemmas) < MaxLemmas
        /\ \E closer \in BOOLEAN : Begin("resume", "import", closer, <<>>, disk)
        /\ UNCHANGED outcome
     \/ ~ ResumeIntegrity(disk) /\ Raise("RESUME_INTEGRITY_ERROR")
  /\ UNCHANGED <<kind, disk, file>>

\* Notes, certificates, unknown kinds, malformed inputs and unknown statements.
ImportNothing ==
  /\ At("import") /\ kind # "adapter"
  /\ Continue("imported", proc.mem)
  /\ UNCHANGED <<kind, disk, file, outcome>>

\* A structured lemma or case split, or a hint that repeats a verified statement.
ImportStatement ==
  /\ At("import") /\ kind # "adapter"
  /\ \E statement \in Statements, ok \in BOOLEAN : AddLemma(statement, TRUE, ok, "imported", <<>>)
  /\ UNCHANGED <<kind, disk, outcome>>

\* A lean_lemma whose file exists reaches re.fullmatch, and re is not imported.
ImportLean ==
  /\ At("import") /\ kind # "adapter"
  /\ Raise("NameError")
  /\ UNCHANGED <<kind, disk, file>>

\* Mutant of ClosesAfterImport: whatever the status is.
ClosesAlways(p) == p.closer

ClosesAfterImport(p) == p.closer /\ p.mem.status # "VERIFIED"

\* import_human saves before the closer runs.
SaveImport ==
  /\ At("imported")
  /\ disk' = proc.mem
  /\ Continue(IF ClosesAfterImport(proc) THEN "close" ELSE "save", proc.mem)
  /\ UNCHANGED <<kind, file, outcome>>

\* _resume_adapter: the generator or Lean fails.
AdapterRejects ==
  /\ At("import") /\ kind = "adapter"
  /\ Continue("save", Exhausted(proc.mem))
  /\ UNCHANGED <<kind, disk, file, outcome>>

\* The two proof nodes of a receipt, FINAL after the one it rests on.
AdapterCloses ==
  /\ At("import") /\ kind = "adapter"
  /\ LET dag == proc.mem.dag IN
     \/ InvalidDependency(dag, 1, {}) /\ Raise("ValueError")
     \/ /\ ~ InvalidDependency(dag, 1, {})
        /\ Continue("save", [proc.mem EXCEPT !.status = "VERIFIED",
             !.dag = DagWith(DagWith(dag, 1, {}, TRUE), FINAL, {1}, TRUE)])
        /\ UNCHANGED outcome
  /\ file' = [file EXCEPT !.certificate = 0]
  /\ UNCHANGED <<kind, disk>>

-----------------------------------------------------------------------------
Die ==
  /\ Interrupts /\ proc # Idle
  /\ Raise("died")
  /\ UNCHANGED <<kind, disk, file>>

\* write_text truncates session.json before it writes.
DieInSave ==
  /\ TornWrites /\ (At("save") \/ At("imported"))
  /\ disk' = Torn
  /\ Raise("died")
  /\ UNCHANGED <<kind, file>>

SessionNext ==
  \/ Start \/ FormaliseScouted \/ AfterScouting \/ Handoff \/ CloseFinite \/ CloseBoolean
  \/ Save \/ Resume \/ ImportNothing \/ ImportStatement \/ ImportLean \/ SaveImport
  \/ AdapterRejects \/ AdapterCloses \/ Die \/ DieInSave

SessionSpec == SessionInit /\ [][SessionNext]_sessionVars

-----------------------------------------------------------------------------
Saved == disk \notin {None, Torn}

\* Every lemma the checkpoint calls verified is provable and has the artifact
\* that Lean accepted, whatever started, died or started again after it.
VerifiedLemmasReplay ==
  Saved => \A i \in VerifiedIn(disk) :
    disk.lemmas[i].statement \in Provable /\ file.lemma[i] = disk.lemmas[i].statement

\* A verified session that keeps a DAG has its conclusion in it, verified, on
\* parents that are verified nodes (and, where the session has them, lemmas).
VerifiedIsClosed ==
  Saved /\ kind # "boolean" /\ disk.status = "VERIFIED" =>
    /\ FINAL \in DOMAIN disk.dag /\ disk.dag[FINAL].verified
    /\ \A d \in disk.dag[FINAL].deps :
         /\ d \in DOMAIN disk.dag /\ disk.dag[d].verified
         /\ kind = "finite" => d \in VerifiedIn(disk)

\* Every lemma that the checkpoint calls verified has the artifact Lean accepted, and
\* a verified session has its conclusion in its DAG, on verified parents.
SessionIsSound == VerifiedLemmasReplay /\ VerifiedIsClosed

\* What a human proposes on resume does not undo a verified session.
ResumeKeeps ==
  proc # Idle /\ proc.cmd = "resume" /\ Saved /\ disk.status = "VERIFIED"
    => disk'.status = "VERIFIED"

\* A handoff can be resumed: the checkpoint passes its own integrity check.
HandoffResumes == Saved /\ disk.status = "ACTIONABLE_HANDOFF" => ResumeIntegrity(disk)

\* A handoff can still be closed: its conclusion is not in the DAG yet.
HandoffCloses == Saved /\ disk.status = "ACTIONABLE_HANDOFF" => FINAL \notin DOMAIN disk.dag

\* The certificate FINAL was verified with is the one on disk.
CertificateIsKept ==
  Saved /\ FINAL \in DOMAIN disk.dag => file.certificate = disk.certificate

\* A proved Lean lemma gets a verdict.
LeanLemmaIsDecided == outcome # "NameError"

\* An interruption leaves a checkpoint that loads.
CheckpointLoads == disk # Torn
=============================================================================
