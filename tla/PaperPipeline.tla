--------------------------- MODULE PaperPipeline ---------------------------
(***************************************************************************)
(* Research packages and the papers made from them.  A run writes numbered *)
(* packages (src/research_package.py); PaperPipeline (src/paper_pipeline.  *)
(* py) starts a paper from a package, executes its five nodes in a row in  *)
(* one call or in several, and writes the paper package.  The run and the  *)
(* paper commands are processes over plain files that no lock protects,    *)
(* and each may die between two of its writes, or in the middle of one.    *)
(*                                                                         *)
(* What is written to a package file is a number, which stands for its     *)
(* hash; quality says what the commands make of it: "torn" is no JSON,     *)
(* "unsound" fails the check of its formal evidence, and "supporting" has  *)
(* an unverified claim that is not a main one: the gate lets it pass and   *)
(* the lint of the paper does not.                                         *)
(***************************************************************************)
EXTENDS Naturals, Sequences

CONSTANTS
    First,         \* the packages a run has at the start
    MaxVersion,    \* bound: packages of a run
    MaxContent,    \* bound: contents written
    MaxNodes,      \* --max-nodes of resume
    Versioned,     \* the versions a start may ask for; 0 asks for the newest
    Procs,         \* the processes that run paper commands
    Crashes        \* processes may die

ASSUME PaperAssumption ==
    /\ MaxVersion \in Nat /\ MaxContent \in Nat /\ MaxNodes \in Nat
    /\ First \in 0..MaxVersion
    /\ Versioned \subseteq 0..MaxVersion
    /\ Crashes \in BOOLEAN

VARIABLES
    recorded,   \* the number of packages in the saved run record
    files,      \* the content of each package file, 0 where there is none
    writer,     \* the version a process has written and not recorded, or 0
    quality,    \* of the contents written
    fit,        \* the manifest verifies and the coverage is SUFFICIENT
    paper,      \* paper_state.json
    result,     \* paper_package.json: the package reference it names
    proc        \* the paper processes

runFiles == <<recorded, files, writer, quality, fit>>
paperVars == <<runFiles, paper, result, proc>>

PackageVersions == 1..MaxVersion
Qualities == {"good", "supporting", "unsound", "torn"}

(* The dag of create_paper_state, a chain: done counts its COMPLETED nodes, *)
(* and the fourth is claim_evidence_lint.                                  *)
Lint == 4
NodeCount == 5

NoRef == [version |-> 0, content |-> 0]
Paper(status, ref, done) == [status |-> status, ref |-> ref, done |-> done]
NoPaper == Paper("NONE", NoRef, 0)
TornPaper == Paper("TORN", NoRef, 0)
Blocked == Paper("BLOCKED_RESEARCH_NOT_READY", NoRef, 0)
IdlePaper == [pc |-> "idle", mem |-> NoPaper, executed |-> 0]

PaperInit ==
    /\ recorded = First
    /\ files = [v \in PackageVersions |-> IF v <= First THEN v ELSE 0]
    /\ writer = 0
    /\ quality = [c \in 1..First |-> "good"]
    /\ fit = TRUE
    /\ paper = NoPaper
    /\ result = NoRef
    /\ proc = [p \in Procs |-> IdlePaper]

-----------------------------------------------------------------------------
(* write_research_package: the version after the recorded ones, its file,  *)
(* and later the record.  The hash covers the time of writing.             *)

Write(q) ==
    /\ writer = 0
    /\ recorded < MaxVersion
    /\ Len(quality) < MaxContent
    /\ quality' = Append(quality, q)
    /\ files' = [files EXCEPT ![recorded + 1] = Len(quality')]
    /\ UNCHANGED <<recorded, fit, paper, result, proc>>

PublishPackage ==
    /\ fit
    /\ \E q \in Qualities \ {"torn"} : Write(q)
    /\ writer' = recorded + 1

RecordPackage ==
    /\ writer # 0
    /\ recorded' = writer
    /\ writer' = 0
    /\ UNCHANGED <<files, quality, fit, paper, result, proc>>

PackageWriterDies ==
    /\ Crashes
    /\ fit
    /\ Write("torn")
    /\ UNCHANGED writer

WriterDiesUnrecorded ==
    /\ Crashes
    /\ writer # 0
    /\ writer' = 0
    /\ UNCHANGED <<recorded, files, quality, fit, paper, result, proc>>

(* A repair makes the coverage insufficient, a file of the run is damaged, *)
(* or the run is made good again.                                          *)
FitChanges ==
    /\ fit' = ~fit
    /\ UNCHANGED <<recorded, files, writer, quality, paper, result, proc>>

-----------------------------------------------------------------------------
(* load_research_package: the newest file is the last in the order of the  *)
(* paths, v1, v10, v11, v2, ... (versions of at most two digits).          *)

LeadingDigit(v) == IF v < 10 THEN v ELSE v \div 10
PathAfter(v, w) ==
    \/ LeadingDigit(v) > LeadingDigit(w)
    \/ LeadingDigit(v) = LeadingDigit(w) /\ v >= w

Exist == {v \in PackageVersions : files[v] # 0}

LastPath == CHOOSE v \in Exist : \A w \in Exist : PathAfter(v, w)

Chosen(asked) == IF asked = 0 /\ Exist # {} THEN LastPath ELSE asked
HasFile(v) == v \in Exist

(* Of a file: json.loads raises on a torn one, and the command ends.       *)
Reads(v) == HasFile(v) => quality[files[v]] # "torn"

Passes(v) == HasFile(v) /\ quality[files[v]] # "unsound" /\ fit

Ref(v) == [version |-> v, content |-> files[v]]

-----------------------------------------------------------------------------
(* PaperPipeline.start: the package is verified, then loaded again.  mem   *)
(* holds the version that was asked for.                                   *)

PaperAt(p, pc) == proc[p].pc = pc
Goto(p, pc, mem) ==
    proc' = [proc EXCEPT ![p].pc = pc, ![p].mem = mem]
Leave(p) == proc' = [proc EXCEPT ![p] = IdlePaper]

StartRefused(p, asked) ==
    /\ PaperAt(p, "idle")
    /\ Reads(Chosen(asked)) /\ ~Passes(Chosen(asked))
    /\ paper' = Blocked
    /\ UNCHANGED <<runFiles, result, proc>>

StartAnyway(p, asked) ==
    /\ PaperAt(p, "idle")
    /\ HasFile(Chosen(asked)) /\ Reads(Chosen(asked))
    /\ Goto(p, "verified", Paper("NONE", [NoRef EXCEPT !.version = asked], 0))
    /\ UNCHANGED <<runFiles, paper, result>>

StartVerified(p, asked) ==
    /\ PaperAt(p, "idle")
    /\ Reads(Chosen(asked)) /\ Passes(Chosen(asked))
    /\ Goto(p, "verified", Paper("NONE", [NoRef EXCEPT !.version = asked], 0))
    /\ UNCHANGED <<runFiles, paper, result>>

StartLoads(p) ==
    /\ PaperAt(p, "verified")
    /\ LET v == Chosen(proc[p].mem.ref.version) IN
       paper' = IF Reads(v) THEN Paper("PLANNED_PAPER", Ref(v), 0) ELSE paper
    /\ Leave(p)
    /\ UNCHANGED <<runFiles, result>>

-----------------------------------------------------------------------------
(* PaperPipeline.resume.  The package is read once: when its hash is that  *)
(* of the reference, the reference stands for it.                          *)

ResumeBlocks(p) ==
    /\ PaperAt(p, "idle")
    /\ paper.status = "PLANNED_PAPER"
    /\ Reads(paper.ref.version)
    /\ files[paper.ref.version] # paper.ref.content
    /\ paper' = [paper EXCEPT !.status = "BLOCKED_RESEARCH_NOT_READY"]
    /\ UNCHANGED <<runFiles, result, proc>>

(* Mutant: the version is read again, the hash is not compared. *)
ResumeUnpinned(p) ==
    /\ PaperAt(p, "idle")
    /\ paper.status = "PLANNED_PAPER"
    /\ Reads(paper.ref.version)
    /\ Goto(p, "loop", [paper EXCEPT !.ref = Ref(paper.ref.version)])
    /\ UNCHANGED <<runFiles, paper, result>>

Resume(p) ==
    /\ PaperAt(p, "idle")
    /\ paper.status = "PLANNED_PAPER"
    /\ files[paper.ref.version] = paper.ref.content
    /\ Goto(p, "loop", paper)
    /\ UNCHANGED <<runFiles, paper, result>>

(* Mutant: the node after it is completed too. *)
CompleteNodeTwice(mem) == [mem EXCEPT !.done = mem.done + 2]

(* _execute_node *)
NodeExecuted(mem) ==
    IF mem.done + 1 = Lint /\ quality[mem.ref.content] = "supporting"
    THEN [mem EXCEPT !.status = "BLOCKED_RESEARCH_NOT_READY"]
    ELSE [mem EXCEPT !.done = mem.done + 1]

(* The node that a lint refused stays ready: it is executed again until    *)
(* the call has had its nodes.                                             *)
NodeUncounted(p) ==
    /\ PaperAt(p, "loop")
    /\ proc[p].executed < MaxNodes /\ proc[p].mem.done < NodeCount
    /\ LET after == NodeExecuted(proc[p].mem) IN
       /\ proc' = [proc EXCEPT ![p].mem = after,
                               ![p].executed =
                                  IF after.done = proc[p].mem.done
                                  THEN proc[p].executed
                                  ELSE proc[p].executed + 1]
       /\ paper' = after
    /\ UNCHANGED <<runFiles, result>>

PaperNode(p) ==
    /\ PaperAt(p, "loop")
    /\ proc[p].executed < MaxNodes /\ proc[p].mem.done < NodeCount
    /\ LET after == NodeExecuted(proc[p].mem) IN
       /\ proc' = [proc EXCEPT ![p].mem = after,
                               ![p].executed = proc[p].executed + 1]
       /\ paper' = after
    /\ UNCHANGED <<runFiles, result>>

LoopEnds(p) ==
    /\ PaperAt(p, "loop")
    /\ proc[p].executed = MaxNodes \/ proc[p].mem.done = NodeCount
    /\ IF proc[p].mem.done = NodeCount
       THEN Goto(p, "complete", [proc[p].mem EXCEPT !.status = "PAPER_COMPLETE"])
       ELSE Leave(p)
    /\ UNCHANGED <<runFiles, paper, result>>

(* _write_paper_package, and the save that follows.  Mutant: the save      *)
(* comes first.                                                            *)
SaveFirst(p) ==
    /\ PaperAt(p, "complete")
    /\ paper' = proc[p].mem
    /\ Goto(p, "written", proc[p].mem)
    /\ UNCHANGED <<runFiles, result>>

WritePaper(p) ==
    /\ PaperAt(p, "complete")
    /\ result' = proc[p].mem.ref
    /\ Goto(p, "written", proc[p].mem)
    /\ UNCHANGED <<runFiles, paper>>

SavePaper(p) ==
    /\ PaperAt(p, "written")
    /\ paper' = proc[p].mem
    /\ Leave(p)
    /\ UNCHANGED <<runFiles, result>>

(* A process dies between two writes, or while it saves the paper state:   *)
(* PaperStore.save empties the file before it writes it.                   *)
PaperDies(p) ==
    /\ Crashes
    /\ ~PaperAt(p, "idle")
    /\ paper' \in {paper, TornPaper}
    /\ Leave(p)
    /\ UNCHANGED <<runFiles, result>>

Command(p) ==
    StartLoads(p) \/ PaperNode(p) \/ LoopEnds(p) \/ WritePaper(p) \/ SavePaper(p)

PaperNext ==
    \/ PublishPackage \/ RecordPackage \/ PackageWriterDies \/ WriterDiesUnrecorded
    \/ FitChanges
    \/ \E p \in Procs :
          \/ \E asked \in Versioned :
                StartRefused(p, asked) \/ StartVerified(p, asked)
          \/ ResumeBlocks(p) \/ Resume(p)
          \/ Command(p)
          \/ PaperDies(p)

PaperSpec == PaperInit /\ [][PaperNext]_paperVars /\ \A p \in Procs : WF_paperVars(Command(p))

-----------------------------------------------------------------------------
(* Every file and every process is in one of the states above, a paper     *)
(* names a package that was written, and an unrecorded package has the     *)
(* version after the recorded ones.                                        *)
Refs == [version : 0..MaxVersion, content : 0..Len(quality)]
Papers == [status : {"NONE", "TORN", "PLANNED_PAPER", "PAPER_COMPLETE",
                     "BLOCKED_RESEARCH_NOT_READY"},
           ref : Refs, done : 0..NodeCount]
PaperTypeOK ==
    /\ recorded \in 0..MaxVersion
    /\ files \in [PackageVersions -> 0..Len(quality)]
    /\ writer \in {0, recorded + 1}
    /\ quality \in Seq(Qualities)
    /\ paper \in Papers /\ result \in Refs
    /\ paper.status = "PLANNED_PAPER" => paper.ref.content # 0
    /\ proc \in [Procs -> [pc : {"idle", "verified", "loop", "complete",
                                 "written"},
                           mem : Papers, executed : 0..MaxNodes]]

(* A paper that is said to be complete is the one in paper_package.json,   *)
(* wherever the last command died (resume writes the package, then the     *)
(* state; verify_paper reads both).                                        *)
CompletePaperIsWritten ==
    paper.status = "PAPER_COMPLETE" => result = paper.ref

(* What is written as a paper has passed the lint of the claims it was     *)
(* written from, whatever became of the package's file between two calls   *)
(* and between two nodes: resume compares the hash with the reference.     *)
PaperHasUsableClaims ==
    result # NoRef => quality[result.content] \notin {"supporting", "torn"}

(* A paper that is said to be complete is the one that was written, from   *)
(* claims that had passed the lint.                                        *)
PaperIsSound == CompletePaperIsWritten /\ PaperHasUsableClaims

(* Each command ends, also on a package whose claims the lint refuses at   *)
(* every node it is given (resume counts the node before it looks at it).  *)
CommandsEnd == \A p \in Procs : ~PaperAt(p, "idle") ~> PaperAt(p, "idle")

-----------------------------------------------------------------------------
(* What the tests and the README say.  "test_research_revision_produces_   *)
(* new_package_version" (tests/test_general_kernel.py:81): a paper that is *)
(* started on the newest package is started on the last revision.          *)
StartIsFromLastRevision ==
    [][\A p \in Procs :
          PaperAt(p, "verified") /\ paper'.status = "PLANNED_PAPER"
            /\ proc[p].mem.ref.version = 0 /\ paper' # paper
          => \A w \in Exist : w <= paper'.ref.version]_paperVars

(* "test_existing_paper_remains_tied_to_original_package" (tests/          *)
(* test_general_kernel.py:91): the package of a paper that is being made   *)
(* stays what it was.                                                      *)
PaperStaysTied ==
    paper.status = "PLANNED_PAPER" => files[paper.ref.version] = paper.ref.content

(* "The paper pipeline consumes verified research packages" (README.md:    *)
(* 202): a paper is planned on a package that was verified.                *)
PlannedOnVerified ==
    paper.status = "PLANNED_PAPER" => quality[paper.ref.content] # "unsound"
=============================================================================
