----------------------------- MODULE ArtifactStore -----------------------------
(***************************************************************************)
(* The artifacts of a run and their manifest, src/storage.py, as the       *)
(* handlers of src/research_runtime.py use them.  Every process of a run   *)
(* (workers, and the commands that import an answer) writes them through   *)
(* put_artifact, which is several file operations: check, replace the      *)
(* file, read the manifest, write the manifest.  Any of them may be the    *)
(* last one before the process dies.                                       *)
(***************************************************************************)
EXTENDS Integers, Sequences, SequencesExt

CONSTANTS
  Names,        \* artifact paths that handlers name
  LogNames,     \* those of execution logs, written with immutable=False
  Contents,     \* file contents; equal contents have equal checksums
  Missing,      \* no file
  Writers,      \* the processes
  PathSuffixes, \* suffixes of versioned paths (a time and a random number)
  Plain,        \* no suffix
  Backend,      \* RESEARCH_ARTIFACT_STORE: "local" or "s3"
  MaxEntries    \* bound on the manifest: no further put begins

ASSUME StoreAssumption ==
  /\ LogNames \subseteq Names /\ Missing \notin Contents /\ Plain \notin PathSuffixes
  /\ Backend \in {"local", "s3"} /\ MaxEntries \in Nat

VARIABLES
  file,      \* the content of each path
  manifest,  \* artifact_manifest.json
  op,        \* the put each process is in
  produced   \* the content that _persist_node_artifact completed a node with

storeVars == <<file, manifest, op, produced>>

Path == Names \X (PathSuffixes \cup {Plain})
Entry == [path : Path, sha256 : Contents, immutable : BOOLEAN]
\* _persist_node_artifact, a bare put_artifact, and the log of _run_script.
Kind == {"persist", "put", "log"}
Op == [pc : {"check", "replace", "load", "append"}, kind : Kind, path : Path,
       content : Contents, loaded : Seq(Entry)]
Idle == [pc |-> "idle"]

StoreTypeOK ==
  /\ file \in [Path -> Contents \cup {Missing}]
  /\ manifest \in Seq(Entry)
  /\ op \in [Writers -> Op \cup {Idle}]
  /\ produced \in [Names -> Contents \cup {Missing}]

-----------------------------------------------------------------------------
StoreInit ==
  /\ file = [p \in Path |-> Missing]
  /\ manifest = <<>>
  /\ op = [w \in Writers |-> Idle]
  /\ produced = [n \in Names |-> Missing]

At(w, step) == op[w] # Idle /\ op[w].pc = step
Immutable(o) == o.kind # "log"
EntryOf(o) == [path |-> o.path, sha256 |-> o.content, immutable |-> Immutable(o)]
GoTo(w, step) == op' = [op EXCEPT ![w].pc = step]

Begin(w) ==
  /\ op[w] = Idle /\ Len(manifest) < MaxEntries
  /\ \E k \in Kind, n \in Names, c \in Contents :
       /\ k = "log" <=> n \in LogNames
       /\ op' = [op EXCEPT ![w] = [pc |-> "check", kind |-> k, path |-> <<n, Plain>>,
                                   content |-> c, loaded |-> <<>>]]
  /\ UNCHANGED <<file, manifest, produced>>

\* Mutant of Conflict: an existing file is never compared.
NoConflict(o) == FALSE

\* Only the local store compares what it would overwrite.
Conflict(o) ==
  Backend = "local" /\ Immutable(o) /\ file[o.path] \notin {Missing, o.content}

\* ValueError: the handler fails, or _persist_node_artifact takes a new path.
Refuse(w) ==
  /\ At(w, "check") /\ Conflict(op[w]) /\ op[w].kind = "put"
  /\ op' = [op EXCEPT ![w] = Idle]
  /\ UNCHANGED <<file, manifest, produced>>

Unused(p) == file[p] = Missing /\ \A v \in Writers : op[v] # Idle => op[v].path # p

\* Mutant of Fallback: the version is put after the path, not after its stem.
FallbackNested(w) ==
  /\ At(w, "check") /\ Conflict(op[w]) /\ op[w].kind = "persist"
  /\ \E v \in PathSuffixes :
       /\ Unused(<<op[w].path[1], v>>)
       /\ op' = [op EXCEPT ![w].path = <<@, v>>]
  /\ UNCHANGED <<file, manifest, produced>>

Fallback(w) ==
  /\ At(w, "check") /\ Conflict(op[w]) /\ op[w].kind = "persist"
  /\ \E v \in PathSuffixes :
       /\ Unused(<<op[w].path[1], v>>)
       /\ op' = [op EXCEPT ![w].path = <<@[1], v>>]
  /\ UNCHANGED <<file, manifest, produced>>

Checked(w) ==
  /\ At(w, "check") /\ ~ Conflict(op[w])
  /\ GoTo(w, "replace")
  /\ UNCHANGED <<file, manifest, produced>>

Replace(w) ==
  /\ At(w, "replace")
  /\ file' = [file EXCEPT ![op[w].path] = op[w].content]
  /\ GoTo(w, "load")
  /\ UNCHANGED <<manifest, produced>>

\* Any failure of the S3 client to read counts as a manifest that is not there.
ReadManifest == {manifest} \cup (IF Backend = "s3" THEN {<<>>} ELSE {})

LoadManifest(w) ==
  /\ At(w, "load")
  /\ \E m \in ReadManifest :
       op' = [op EXCEPT ![w].pc = "append", ![w].loaded = m]
  /\ UNCHANGED <<file, manifest, produced>>

\* Mutant of Appended: the entry of the same path is replaced.
AppendedOnce(o) == Append(SelectSeq(o.loaded, LAMBDA e : e.path # o.path), EntryOf(o))

Appended(o) == Append(o.loaded, EntryOf(o))

AppendEntry(w) ==
  /\ At(w, "append")
  /\ manifest' = Appended(op[w])
  /\ produced' = IF op[w].kind = "persist"
                 THEN [produced EXCEPT ![op[w].path[1]] = op[w].content] ELSE produced
  /\ op' = [op EXCEPT ![w] = Idle]
  /\ UNCHANGED file

\* The process dies, or the handler raises; temporary files do not count.
WriterDies(w) ==
  /\ op[w] # Idle
  /\ op' = [op EXCEPT ![w] = Idle]
  /\ UNCHANGED <<file, manifest, produced>>

Step(w) ==
  \/ Begin(w) \/ Refuse(w) \/ Fallback(w) \/ Checked(w) \/ Replace(w)
  \/ LoadManifest(w) \/ AppendEntry(w) \/ WriterDies(w)

StoreNext == \E w \in Writers : Step(w)

StoreSpec == StoreInit /\ [][StoreNext]_storeVars

-----------------------------------------------------------------------------
\* An artifact that is not a log is never changed once it is there, through
\* retries with other results and crashes anywhere.
ImmutableIsKept ==
  [][\A p \in Path : p[1] \notin LogNames /\ file[p] # Missing => file'[p] = file[p]]_storeVars

\* The manifest only grows: no recorded checksum is lost or rewritten.
EntriesAreKept == [][IsPrefix(manifest, manifest')]_storeVars

\* verify_manifest, restricted to what the manifest calls immutable: every
\* recorded checksum is that of the file, at every moment.
RecordedIsStored ==
  \A i \in DOMAIN manifest :
    manifest[i].immutable => file[manifest[i].path] = manifest[i].sha256

\* The same of all entries: what verify_research_run asks of a run.
ManifestVerifies ==
  \A i \in DOMAIN manifest : file[manifest[i].path] = manifest[i].sha256

\* _read_artifact: what the next handler reads under a name is what the node
\* that produced it last completed with.
ReadIsLatest ==
  \A n \in Names : produced[n] # Missing => file[<<n, Plain>>] = produced[n]
=============================================================================
