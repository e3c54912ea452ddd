-------------------------- MODULE Services_proofs --------------------------
(***************************************************************************)
(* What the services of a run guarantee, each by itself: the artifact      *)
(* store, the language-model gateway with its budget, and the evidence     *)
(* ledger.  They share no variable, and no proof of one uses another.      *)
(***************************************************************************)
EXTENDS ArtifactStore, LLMGateway, EvidenceLedger, TLAPS

-----------------------------------------------------------------------------
(***************************************************************************)
(* What put_artifact guarantees, proved for every set of paths, contents   *)
(* and processes: types in general, and the immutability of artifacts and  *)
(* the completeness of the manifest for a local store with one writer.     *)
(* TLC refutes the last two with a second writer (the manifest) and with   *)
(* the S3 backend (both), so that neither hypothesis can be dropped.       *)
(***************************************************************************)

LEMMA IdleIsNoOp == Idle \notin Op
  BY DEF Idle, Op

LEMMA AtIsOp ==
  ASSUME StoreTypeOK, NEW w \in Writers, NEW step, At(w, step)
  PROVE  op[w] \in Op /\ op[w].pc = step
  BY DEF StoreTypeOK, At, Op, Idle

LEMMA EntryType == ASSUME NEW o \in Op PROVE EntryOf(o) \in Entry
  BY DEF EntryOf, Entry, Op, Immutable

LEMMA StoreTypeInit == StoreInit => StoreTypeOK
  BY DEF StoreInit, StoreTypeOK, Idle

LEMMA StoreTypeStep ==
  ASSUME StoreTypeOK, NEW w \in Writers, Step(w)
  PROVE  StoreTypeOK'
<1> USE StoreAssumption DEF StoreTypeOK
<1>1. CASE Begin(w)
  <2>1. PICK k \in Kind, n \in Names, c \in Contents :
          op' = [op EXCEPT ![w] = [pc |-> "check", kind |-> k, path |-> <<n, Plain>>,
                                   content |-> c, loaded |-> <<>>]]
    BY <1>1 DEF Begin
  <2>2. [pc |-> "check", kind |-> k, path |-> <<n, Plain>>,
         content |-> c, loaded |-> <<>>] \in Op
    BY DEF Op, Path
  <2> QED BY <1>1, <2>1, <2>2 DEF Begin
<1>2. CASE Refuse(w)
  BY <1>2 DEF Refuse
<1>3. CASE Fallback(w)
  <2>1. op[w] \in Op BY <1>3, AtIsOp DEF Fallback
  <2>2. PICK v \in PathSuffixes : op' = [op EXCEPT ![w].path = <<@[1], v>>]
    BY <1>3 DEF Fallback
  <2>3. [op[w] EXCEPT !.path = <<@[1], v>>] \in Op
    BY <2>1 DEF Op, Path
  <2> QED BY <1>3, <2>2, <2>3 DEF Fallback
<1>4. CASE Checked(w)
  <2>1. op[w] \in Op BY <1>4, AtIsOp DEF Checked
  <2>2. [op[w] EXCEPT !.pc = "replace"] \in Op BY <2>1 DEF Op
  <2> QED BY <1>4, <2>2 DEF Checked, GoTo
<1>5. CASE Replace(w)
  <2>1. op[w] \in Op BY <1>5, AtIsOp DEF Replace
  <2>2. [op[w] EXCEPT !.pc = "load"] \in Op BY <2>1 DEF Op
  <2>3. op[w].content \in Contents BY <2>1 DEF Op
  <2>4. file' \in [Path -> Contents \cup {Missing}] BY <1>5, <2>3 DEF Replace
  <2> QED BY <1>5, <2>2, <2>4 DEF Replace, GoTo
<1>6. CASE LoadManifest(w)
  <2>1. op[w] \in Op BY <1>6, AtIsOp DEF LoadManifest
  <2>2. PICK m \in ReadManifest :
          op' = [op EXCEPT ![w].pc = "append", ![w].loaded = m]
    BY <1>6 DEF LoadManifest
  <2>3. m \in Seq(Entry)
    <3>1. <<>> \in Seq(Entry) OBVIOUS
    <3>2. manifest \in Seq(Entry) OBVIOUS
    <3>3. m = manifest \/ m = <<>> BY DEF ReadManifest
    <3> QED BY <3>1, <3>2, <3>3
  <2>4. [op[w] EXCEPT !.pc = "append", !.loaded = m] \in Op BY <2>1, <2>3 DEF Op
  <2> QED BY <1>6, <2>2, <2>4 DEF LoadManifest
<1>7. CASE AppendEntry(w)
  <2>1. op[w] \in Op BY <1>7, AtIsOp DEF AppendEntry
  <2>2. EntryOf(op[w]) \in Entry BY <2>1, EntryType
  <2>3. op[w].loaded \in Seq(Entry) /\ op[w].content \in Contents /\ op[w].path[1] \in Names
    BY <2>1 DEF Op, Path
  <2>4. manifest' \in Seq(Entry) BY <1>7, <2>2, <2>3 DEF AppendEntry, Appended
  <2>5. produced' \in [Names -> Contents \cup {Missing}] BY <1>7, <2>3 DEF AppendEntry
  <2>6. op' \in [Writers -> Op \cup {Idle}] BY <1>7 DEF AppendEntry
  <2> QED BY <1>7, <2>4, <2>5, <2>6 DEF AppendEntry
<1>8. CASE WriterDies(w)
  BY <1>8 DEF WriterDies
<1> QED BY <1>1, <1>2, <1>3, <1>4, <1>5, <1>6, <1>7, <1>8 DEF Step

\* Whatever the backend and however many processes write, the store, the
\* manifest and the puts under way keep their shape.
THEOREM StoreTypeCorrect == StoreSpec => []StoreTypeOK
<1>1. StoreTypeOK /\ [StoreNext]_storeVars => StoreTypeOK'
  BY StoreTypeStep DEF StoreNext, storeVars, StoreTypeOK
<1> QED BY <1>1, StoreTypeInit, PTL DEF StoreSpec

-----------------------------------------------------------------------------
\* One process w writes to a local store.
OneWriter(w) == Writers = {w} /\ Backend = "local"

Recorded ==
  /\ RecordedIsStored
  /\ \A i \in DOMAIN manifest : manifest[i].immutable => manifest[i].path[1] \notin LogNames

\* What a put knows at each of its steps.
OpKnows(o) ==
  /\ o.kind = "log" <=> o.path[1] \in LogNames
  /\ o.pc = "replace" /\ Immutable(o) => file[o.path] \in {Missing, o.content}
  /\ o.pc \in {"load", "append"} => file[o.path] = o.content
  /\ o.pc = "append" => o.loaded = manifest

StoreInv(w) == StoreTypeOK /\ Recorded /\ (op[w] # Idle => OpKnows(op[w]))

LEMMA StoreInvInit == ASSUME NEW w \in Writers, StoreInit PROVE StoreInv(w)
  BY StoreTypeInit DEF StoreInit, StoreInv, Recorded, RecordedIsStored

LEMMA StoreInvStep ==
  ASSUME NEW w \in Writers, OneWriter(w), StoreInv(w), Step(w)
  PROVE  /\ StoreInv(w)'
         /\ \A p \in Path : p[1] \notin LogNames /\ file[p] # Missing => file'[p] = file[p]
         /\ IsPrefix(manifest, manifest')
<1> USE StoreAssumption
<1>t. StoreTypeOK /\ StoreTypeOK' BY StoreTypeStep DEF StoreInv
<1>p. ASSUME manifest' = manifest PROVE IsPrefix(manifest, manifest')
  BY <1>t, <1>p DEF IsPrefix, StoreTypeOK
<1>i. op[w] # Idle => op[w] \in Op BY <1>t DEF StoreTypeOK
<1>1. CASE Begin(w)
  <2>1. PICK k \in Kind, n \in Names, c \in Contents :
          /\ k = "log" <=> n \in LogNames
          /\ op' = [op EXCEPT ![w] = [pc |-> "check", kind |-> k, path |-> <<n, Plain>>,
                                      content |-> c, loaded |-> <<>>]]
    BY <1>1 DEF Begin
  <2>2. OpKnows(op[w])' BY <1>t, <2>1 DEF OpKnows, StoreTypeOK
  <2>3. Recorded' BY <1>1 DEF Begin, StoreInv, Recorded, RecordedIsStored
  <2> QED BY <1>1, <1>p, <1>t, <2>2, <2>3 DEF Begin, StoreInv
<1>2. CASE Refuse(w) \/ WriterDies(w)
  <2>1. op'[w] = Idle BY <1>2, <1>t DEF Refuse, WriterDies, StoreTypeOK
  <2>2. UNCHANGED <<file, manifest>> BY <1>2 DEF Refuse, WriterDies
  <2>3. Recorded' BY <2>2 DEF StoreInv, Recorded, RecordedIsStored
  <2> QED BY <1>p, <1>t, <2>1, <2>2, <2>3 DEF StoreInv
<1>3. CASE Fallback(w)
  <2>1. PICK v \in PathSuffixes : op' = [op EXCEPT ![w].path = <<@[1], v>>]
    BY <1>3 DEF Fallback
  <2>2. op[w] \in Op /\ op[w].pc = "check" /\ op[w].kind = "persist"
    BY <1>3, <1>t, AtIsOp DEF Fallback
  <2>3. op'[w] = [op[w] EXCEPT !.path = <<@[1], v>>] BY <2>1, <1>t DEF StoreTypeOK
  <2>4. /\ op'[w].pc = "check" /\ op'[w].kind = "persist"
        /\ op'[w].path[1] = op[w].path[1]
    BY <2>2, <2>3 DEF Op, Path
  <2>5. OpKnows(op[w]) BY <2>2, IdleIsNoOp DEF StoreInv
  <2>6. OpKnows(op[w])' BY <2>2, <2>4, <2>5 DEF OpKnows
  <2>7. Recorded' BY <1>3 DEF Fallback, StoreInv, Recorded, RecordedIsStored
  <2> QED BY <1>3, <1>p, <1>t, <2>6, <2>7 DEF Fallback, StoreInv
<1>4. CASE Checked(w)
  <2>2. op[w] \in Op /\ op[w].pc = "check" BY <1>4, <1>t, AtIsOp DEF Checked
  <2>3. op'[w] = [op[w] EXCEPT !.pc = "replace"]
    BY <1>4, <1>t DEF Checked, GoTo, StoreTypeOK
  <2>4. /\ op'[w].pc = "replace" /\ op'[w].kind = op[w].kind
        /\ op'[w].path = op[w].path /\ op'[w].content = op[w].content
    BY <2>2, <2>3 DEF Op
  <2>5. OpKnows(op[w]) BY <2>2, IdleIsNoOp DEF StoreInv
  <2>6. Immutable(op[w]) => file[op[w].path] \in {Missing, op[w].content}
    BY <1>4 DEF Checked, Conflict, OneWriter
  <2>7. file' = file BY <1>4 DEF Checked
  <2>8. OpKnows(op[w])' BY <2>4, <2>5, <2>6, <2>7 DEF OpKnows, Immutable
  <2>9. Recorded' BY <1>4 DEF Checked, StoreInv, Recorded, RecordedIsStored
  <2> QED BY <1>4, <1>p, <1>t, <2>8, <2>9 DEF Checked, StoreInv
<1>5. CASE Replace(w)
  <2> DEFINE o == op[w]
  <2>2. o \in Op /\ o.pc = "replace" BY <1>5, <1>t, AtIsOp DEF Replace
  <2>3. op'[w] = [o EXCEPT !.pc = "load"]
    BY <1>5, <1>t DEF Replace, GoTo, StoreTypeOK
  <2>4. /\ op'[w].pc = "load" /\ op'[w].kind = o.kind
        /\ op'[w].path = o.path /\ op'[w].content = o.content
    BY <2>2, <2>3 DEF Op
  <2>5. OpKnows(o) BY <2>2, IdleIsNoOp DEF StoreInv
  <2>6. /\ o.path \in Path /\ o.content \in Contents
    BY <2>2 DEF Op
  <2>7. /\ file' = [file EXCEPT ![o.path] = o.content] /\ manifest' = manifest
    BY <1>5 DEF Replace
  <2>8. file'[o.path] = o.content /\ \A p \in Path \ {o.path} : file'[p] = file[p]
    BY <2>6, <2>7, <1>t DEF StoreTypeOK
  <2>9. OpKnows(op[w])' BY <2>4, <2>5, <2>8 DEF OpKnows
  <2>10. \A p \in Path : p[1] \notin LogNames /\ file[p] # Missing => file'[p] = file[p]
    BY <2>2, <2>5, <2>8 DEF OpKnows, Immutable
  <2>11. \A i \in DOMAIN manifest :
           /\ manifest[i] \in Entry
           /\ manifest[i].immutable => /\ file[manifest[i].path] = manifest[i].sha256
                                       /\ manifest[i].path[1] \notin LogNames
    BY <1>t DEF StoreTypeOK, StoreInv, Recorded, RecordedIsStored
  <2>12. ASSUME NEW i \in DOMAIN manifest, manifest[i].immutable
         PROVE  file'[manifest[i].path] = manifest[i].sha256
    <3>1. manifest[i].path \in Path /\ manifest[i].sha256 \in Contents BY <2>11 DEF Entry
    <3>2. file[manifest[i].path] # Missing BY <2>11, <2>12, <3>1
    <3> QED BY <2>10, <2>11, <2>12, <3>1, <3>2
  <2>13. Recorded' BY <2>7, <2>11, <2>12 DEF Recorded, RecordedIsStored
  <2> QED BY <1>p, <1>t, <2>7, <2>9, <2>10, <2>13 DEF StoreInv
<1>6. CASE LoadManifest(w)
  <2>1. op' = [op EXCEPT ![w].pc = "append", ![w].loaded = manifest]
    BY <1>6 DEF LoadManifest, ReadManifest, OneWriter
  <2>2. op[w] \in Op /\ op[w].pc = "load" BY <1>6, <1>t, AtIsOp DEF LoadManifest
  <2>3. op'[w] = [op[w] EXCEPT !.pc = "append", !.loaded = manifest]
    BY <2>1, <1>t DEF StoreTypeOK
  <2>4. /\ op'[w].pc = "append" /\ op'[w].kind = op[w].kind
        /\ op'[w].path = op[w].path /\ op'[w].content = op[w].content
        /\ op'[w].loaded = manifest
    BY <2>2, <2>3 DEF Op
  <2>5. OpKnows(op[w]) BY <2>2, IdleIsNoOp DEF StoreInv
  <2>6. UNCHANGED <<file, manifest>> BY <1>6 DEF LoadManifest
  <2>7. OpKnows(op[w])' BY <2>2, <2>4, <2>5, <2>6 DEF OpKnows
  <2>8. Recorded' BY <2>6 DEF StoreInv, Recorded, RecordedIsStored
  <2> QED BY <1>p, <1>t, <2>6, <2>7, <2>8 DEF StoreInv
<1>7. CASE AppendEntry(w)
  <2> DEFINE o == op[w]
  <2>2. o \in Op /\ o.pc = "append" BY <1>7, <1>t, AtIsOp DEF AppendEntry
  <2>3. OpKnows(o) BY <2>2, IdleIsNoOp DEF StoreInv
  <2>4. manifest' = Append(manifest, EntryOf(o)) /\ file' = file /\ op'[w] = Idle
    BY <1>7, <1>t, <2>2, <2>3 DEF AppendEntry, Appended, OpKnows, StoreTypeOK
  <2>5. EntryOf(o) \in Entry BY <2>2, EntryType
  <2>6. /\ EntryOf(o).sha256 = file[EntryOf(o).path]
        /\ EntryOf(o).immutable => EntryOf(o).path[1] \notin LogNames
    BY <2>2, <2>3 DEF EntryOf, OpKnows, Immutable
  <2>7. /\ DOMAIN manifest' = 1 .. Len(manifest) + 1
        /\ manifest'[Len(manifest) + 1] = EntryOf(o)
        /\ \A i \in DOMAIN manifest : i \in 1 .. Len(manifest) /\ manifest'[i] = manifest[i]
    BY <2>4, <2>5, <1>t DEF StoreTypeOK
  <2>8. Recorded'
    BY <1>t, <2>4, <2>6, <2>7 DEF StoreTypeOK, StoreInv, Recorded, RecordedIsStored
  <2>9. IsPrefix(manifest, manifest')
    BY <1>t, <2>4, <2>5, <2>7 DEF StoreTypeOK, IsPrefix
  <2> QED BY <1>t, <2>4, <2>8, <2>9 DEF StoreInv
<1> QED BY <1>1, <1>2, <1>3, <1>4, <1>5, <1>6, <1>7 DEF Step

LEMMA StoreInvNext ==
  ASSUME NEW w \in Writers, OneWriter(w)
  PROVE  StoreInv(w) /\ [StoreNext]_storeVars => StoreInv(w)'
<1>1. CASE StoreNext
  BY <1>1, StoreInvStep DEF StoreNext, OneWriter
<1>2. CASE UNCHANGED storeVars
  BY <1>2 DEF storeVars, StoreInv, StoreTypeOK, Recorded, RecordedIsStored, OpKnows
<1> QED BY <1>1, <1>2

\* With one writer and a local store every immutable artifact has the checksum
\* its manifest entry says, at every moment and after any crash.
THEOREM RecordedIsAlwaysStored ==
  ASSUME NEW w \in Writers, OneWriter(w)
  PROVE  StoreSpec => []RecordedIsStored
<1>1. StoreInit => StoreInv(w) BY StoreInvInit
<1>2. StoreInv(w) /\ [StoreNext]_storeVars => StoreInv(w)' BY StoreInvNext
<1>3. StoreInv(w) => RecordedIsStored BY DEF StoreInv, Recorded
<1> QED BY <1>1, <1>2, <1>3, PTL DEF StoreSpec

\* With one writer and a local store no artifact but a log is ever changed.
THEOREM ImmutableIsAlwaysKept ==
  ASSUME NEW w \in Writers, OneWriter(w)
  PROVE  StoreSpec => ImmutableIsKept
<1> DEFINE Kept ==
      \A p \in Path : p[1] \notin LogNames /\ file[p] # Missing => file'[p] = file[p]
<1>1. StoreInit => StoreInv(w) BY StoreInvInit
<1>2. StoreInv(w) /\ [StoreNext]_storeVars => StoreInv(w)' BY StoreInvNext
<1>3. StoreInv(w) /\ [StoreNext]_storeVars => [Kept]_storeVars
  BY StoreInvStep DEF StoreNext, OneWriter
<1> QED BY <1>1, <1>2, <1>3, PTL DEF StoreSpec, ImmutableIsKept

\* With one writer and a local store the manifest only grows.
THEOREM EntriesAreAlwaysKept ==
  ASSUME NEW w \in Writers, OneWriter(w)
  PROVE  StoreSpec => EntriesAreKept
<1> DEFINE Kept == IsPrefix(manifest, manifest')
<1>1. StoreInit => StoreInv(w) BY StoreInvInit
<1>2. StoreInv(w) /\ [StoreNext]_storeVars => StoreInv(w)' BY StoreInvNext
<1>3. StoreInv(w) /\ [StoreNext]_storeVars => [Kept]_storeVars
  BY StoreInvStep DEF StoreNext, OneWriter
<1> QED BY <1>1, <1>2, <1>3, PTL DEF StoreSpec, EntriesAreKept

-----------------------------------------------------------------------------
(***************************************************************************)
(* How many model calls a run is charged for, for any number of            *)
(* configurations, questions, limits, crashes and reopenings.              *)
(***************************************************************************)

\* A handling that passed the check has an iteration left, and the attempts of
\* its provider call are as many as the configurations it has been through.
CallIsBounded ==
  /\ limit # 0 /\ limit <= granted
  /\ charged <= granted + Configs /\ saved <= granted + Configs
  /\ phase \in {"route", "try", "paid"} => charged + 1 <= granted
  /\ phase = "try" => spent <= config /\ (config = 1 /\ ~ repairing => spent = 0)

GatewayInv == GatewayTypeOK /\ (InitialLimit # 0 => CallIsBounded)

\* The handling ends with the node in some state and `count' calls charged.
LEMMA FinishKeeps ==
  ASSUME GatewayInv, NEW status, NEW why, NEW count \in Nat, NEW block \in Nat \cup {-1},
         status \in {"COMPLETED", "FAILED", "WAITING_FOR_HUMAN", "BLOCKED_BUDGET",
                     "BLOCKED_MISSING_LLM", "BLOCKED_ENGINEERING_REQUIRED"},
         why \in {"none", "MAX_AGENT_ITERATIONS", "429"},
         InitialLimit # 0 => count <= granted + Configs,
         Finish(status, why, count, block)
  PROVE  GatewayInv'
<1>1. GatewayTypeOK'
  BY DEF GatewayInv, GatewayTypeOK, Finish
<1>2. ASSUME InitialLimit # 0 PROVE CallIsBounded'
  BY <1>2 DEF GatewayInv, CallIsBounded, Finish
<1> QED
  BY <1>1, <1>2 DEF GatewayInv

\* The handler goes on to its next question.
LEMMA GoOnKeeps ==
  ASSUME GatewayInv, NEW count \in Nat,
         InitialLimit # 0 => count <= granted + Configs,
         GoOn(count)
  PROVE  GatewayInv'
<1> USE GatewayAssumption DEF GatewayAssumption
<1>1. CASE Finish("COMPLETED", "none", count, blockLimit)
  <2>1. blockLimit \in Nat \cup {-1}
    BY DEF GatewayInv, GatewayTypeOK
  <2> QED
    BY <1>1, <2>1, FinishKeeps
<1>2. CASE ~ Finish("COMPLETED", "none", count, blockLimit)
  <2>1. GatewayTypeOK'
    BY <1>2 DEF GatewayInv, GatewayTypeOK, GoOn
  <2>2. ASSUME InitialLimit # 0 PROVE CallIsBounded'
    BY <1>2, <2>2 DEF GatewayInv, CallIsBounded, GoOn
  <2> QED
    BY <2>1, <2>2 DEF GatewayInv
<1> QED
  BY <1>1, <1>2

\* An exception reaches the handler, or ends it.
LEMMA RaiseKeeps ==
  ASSUME GatewayInv, NEW status, NEW count \in Nat,
         status \in {"FAILED", "WAITING_FOR_HUMAN", "BLOCKED_MISSING_LLM",
                     "BLOCKED_ENGINEERING_REQUIRED"},
         InitialLimit # 0 => count <= granted + Configs,
         Raise(status, count)
  PROVE  GatewayInv'
<1>1. CASE GoOn(count)
  BY <1>1, GoOnKeeps
<1>2. CASE Finish(status, "none", count, blockLimit)
  <2>1. blockLimit \in Nat \cup {-1}
    BY DEF GatewayInv, GatewayTypeOK
  <2> QED
    BY <1>2, <2>1, FinishKeeps
<1> QED
  BY <1>1, <1>2 DEF Raise

LEMMA GatewayInvInit == GatewayInit => GatewayInv
<1> SUFFICES ASSUME GatewayInit PROVE GatewayInv
  OBVIOUS
<1> USE GatewayAssumption DEF GatewayAssumption
<1>1. authorized \in BOOLEAN /\ repairing \in BOOLEAN
  BY Zenon DEF GatewayInit
<1>2. charged \in Nat /\ (InitialLimit # 0 => charged <= InitialLimit + Configs)
  BY DEF GatewayInit
<1>3. GatewayTypeOK
  BY <1>1, <1>2 DEF GatewayInit, GatewayTypeOK
<1>4. InitialLimit # 0 => CallIsBounded
  BY <1>2 DEF GatewayInit, CallIsBounded
<1> QED
  BY <1>3, <1>4 DEF GatewayInv

\* What a call may add to the record.
LEMMA CallFits ==
  ASSUME GatewayInv
  PROVE  /\ charged \in Nat /\ charged + 1 \in Nat /\ charged + spent \in Nat
         /\ charged + spent + 1 \in Nat /\ PaidCount \in Nat
         /\ InitialLimit # 0 => charged <= granted + Configs
         /\ InitialLimit # 0 /\ phase \in {"route", "paid"} => charged + 1 <= granted + Configs
         /\ InitialLimit # 0 /\ phase = "paid" => PaidCount <= granted + Configs
         /\ InitialLimit # 0 /\ phase = "try" => charged + spent + 1 <= granted + Configs
<1> USE GatewayAssumption DEF GatewayAssumption
<1>1. /\ charged \in Nat /\ spent \in Nat /\ granted \in Nat /\ Configs \in Nat
      /\ config \in Nat /\ config <= Configs
  BY DEF GatewayInv, GatewayTypeOK
<1>2. PaidCount \in Nat /\ PaidCount <= charged + 1
  BY <1>1 DEF PaidCount
<1>3. InitialLimit # 0 => charged <= granted + Configs
  BY DEF GatewayInv, CallIsBounded
<1>4. InitialLimit # 0 /\ phase \in {"route", "paid"} => charged + 1 <= granted + Configs
  BY <1>1 DEF GatewayInv, CallIsBounded
<1>5. InitialLimit # 0 /\ phase = "try" => charged + spent + 1 <= granted + Configs
  BY <1>1 DEF GatewayInv, CallIsBounded
<1>6. InitialLimit # 0 /\ phase = "paid" => PaidCount <= granted + Configs
  BY <1>1, <1>2, <1>4
<1>7. /\ charged + 1 \in Nat /\ charged + spent \in Nat /\ charged + spent + 1 \in Nat
  BY <1>1
<1> QED
  BY <1>1, <1>2, <1>3, <1>4, <1>5, <1>6, <1>7

LEMMA HandlingKeeps == GatewayInv /\ Handling => GatewayInv'
<1> SUFFICES ASSUME GatewayInv, Handling PROVE GatewayInv'
  OBVIOUS
<1> USE GatewayAssumption DEF GatewayAssumption
<1>0. limit \in Nat /\ granted \in Nat /\ Configs \in Nat
  BY DEF GatewayInv, GatewayTypeOK
<1>1. CASE CheckFails
  <2>1. CASE GoOn(charged)
    BY <2>1, CallFits, GoOnKeeps
  <2>2. CASE Finish("BLOCKED_BUDGET", "MAX_AGENT_ITERATIONS", charged, limit)
    BY <1>0, <2>2, CallFits, FinishKeeps
  <2> QED
    BY <1>1, <2>1, <2>2 DEF CheckFails
<1>2. CASE CheckPasses
  <2>1. CASE Raise("BLOCKED_MISSING_LLM", charged)
    BY <2>1, CallFits, RaiseKeeps
  <2>2. CASE ~ Raise("BLOCKED_MISSING_LLM", charged)
    <3>1. UNCHANGED <<node, reason, budget, call>> /\ phase' \in {"route", "paid"}
      BY <1>2, <2>2 DEF CheckPasses
    <3>2. GatewayTypeOK'
      BY <3>1 DEF GatewayInv, GatewayTypeOK, budget, call
    <3>3. ASSUME InitialLimit # 0 PROVE CallIsBounded'
      <4>1. charged + 1 <= granted
        BY <1>2, <3>3 DEF CheckPasses, Exhausted, GatewayInv, GatewayTypeOK, CallIsBounded
      <4> QED
        BY <3>1, <3>3, <4>1 DEF GatewayInv, CallIsBounded, budget, call
    <3> QED
      BY <3>2, <3>3 DEF GatewayInv
  <2> QED
    BY <2>1, <2>2
<1>3. CASE Route
  <2>0. repairing' \in BOOLEAN
    BY <1>3, Zenon DEF Route, GatewayInv, GatewayTypeOK
  <2>1. GatewayTypeOK'
    BY <1>3, <2>0 DEF Route, GatewayInv, GatewayTypeOK, budget
  <2>2. ASSUME InitialLimit # 0 PROVE CallIsBounded'
    BY <1>3, <2>2 DEF Route, GatewayInv, GatewayTypeOK, CallIsBounded, budget
  <2> QED
    BY <2>1, <2>2 DEF GatewayInv
<1>4. ASSUME NEW status, RouteNowhere(status) PROVE GatewayInv'
  <2>1. CASE Raise(status, charged + 1)
    BY <1>4, <2>1, CallFits, RaiseKeeps DEF RouteNowhere
  <2>2. CASE phase' = "paid" /\ UNCHANGED <<node, reason, budget, call>>
    <3>1. GatewayTypeOK'
      BY <2>2 DEF GatewayInv, GatewayTypeOK, budget, call
    <3>2. ASSUME InitialLimit # 0 PROVE CallIsBounded'
      BY <1>4, <2>2, <3>2 DEF RouteNowhere, GatewayInv, CallIsBounded, budget, call
    <3> QED
      BY <3>1, <3>2 DEF GatewayInv
  <2> QED
    BY <1>4, <2>1, <2>2 DEF RouteNowhere
<1>5. ASSUME NEW status, NoRuntime(status) PROVE GatewayInv'
  BY <1>5, CallFits, RaiseKeeps DEF NoRuntime
<1>6. CASE RetryInfrastructure
  <2>1. GatewayTypeOK'
    BY <1>6 DEF RetryInfrastructure, GatewayInv, GatewayTypeOK, budget
  <2>2. ASSUME InitialLimit # 0 PROVE CallIsBounded'
    BY <1>6, <2>2 DEF RetryInfrastructure, GatewayInv, CallIsBounded, budget
  <2> QED
    BY <2>1, <2>2 DEF GatewayInv
<1>7. CASE InfrastructureFails
  <2>1. InitialLimit # 0 => charged + spent <= granted + Configs
    BY <1>7, CallFits DEF InfrastructureFails, GatewayInv, GatewayTypeOK
  <2> QED
    BY <1>7, <2>1, CallFits, RaiseKeeps DEF InfrastructureFails
<1>8. CASE Answered
  BY <1>8, CallFits, GoOnKeeps DEF Answered
<1>9. CASE DecodingFails
  BY <1>9, CallFits, RaiseKeeps DEF DecodingFails
<1>10. CASE Escalate
  <2>0. repairing' \in BOOLEAN
    BY <1>10, Zenon DEF Escalate, GatewayInv, GatewayTypeOK
  <2>1. GatewayTypeOK'
    BY <1>10, <2>0 DEF Escalate, GatewayInv, GatewayTypeOK, budget
  <2>2. ASSUME InitialLimit # 0 PROVE CallIsBounded'
    BY <1>10, <2>2 DEF Escalate, GatewayInv, GatewayTypeOK, CallIsBounded, budget
  <2> QED
    BY <2>1, <2>2 DEF GatewayInv
<1>11. CASE GenerationExhausted
  BY <1>11, CallFits, RaiseKeeps DEF GenerationExhausted
<1>12. CASE PaidAnswer
  BY <1>12, CallFits, GoOnKeeps DEF PaidAnswer
<1>13. CASE PaidMalformed
  <2>1. CASE Raise("FAILED", charged + 1)
    BY <1>13, <2>1, CallFits, RaiseKeeps DEF PaidMalformed
  <2>2. CASE ~ Raise("FAILED", charged + 1)
    <3>1. GatewayTypeOK'
      BY <1>13, <2>2 DEF PaidMalformed, GatewayInv, GatewayTypeOK
    <3>2. ASSUME InitialLimit # 0 PROVE CallIsBounded'
      BY <1>13, <2>2, <3>2, CallFits DEF PaidMalformed, GatewayInv, CallIsBounded
    <3> QED
      BY <3>1, <3>2 DEF GatewayInv
  <2> QED
    BY <2>1, <2>2
<1>14. CASE PaidRaises
  <2>1. CASE Raise("FAILED", PaidCount)
    BY <1>14, <2>1, CallFits, RaiseKeeps DEF PaidRaises
  <2>2. CASE Finish("BLOCKED_BUDGET", "429", PaidCount, blockLimit)
    <3>1. blockLimit \in Nat \cup {-1}
      BY DEF GatewayInv, GatewayTypeOK
    <3> QED
      BY <1>14, <2>2, <3>1, CallFits, FinishKeeps DEF PaidRaises
  <2> QED
    BY <1>14, <2>1, <2>2 DEF PaidRaises
<1> QED
  BY <1>1, <1>2, <1>3, <1>4, <1>5, <1>6, <1>7, <1>8, <1>9, <1>10, <1>11, <1>12, <1>13, <1>14
  DEF Handling

LEMMA GatewayNextKeeps == GatewayInv /\ [GatewayNext]_gatewayVars => GatewayInv'
<1> SUFFICES ASSUME GatewayInv, [GatewayNext]_gatewayVars PROVE GatewayInv'
  OBVIOUS
<1> USE GatewayAssumption DEF GatewayAssumption
<1>1. CASE Start
  <2>1. GatewayTypeOK'
    BY <1>1 DEF Start, GatewayInv, GatewayTypeOK, budget
  <2>2. ASSUME InitialLimit # 0 PROVE CallIsBounded'
    BY <1>1, <2>2 DEF Start, GatewayInv, CallIsBounded, budget
  <2> QED
    BY <2>1, <2>2 DEF GatewayInv
<1>2. CASE Handling
  BY <1>2, HandlingKeeps
<1>3. CASE WorkerDies
  <2>1. GatewayTypeOK'
    BY <1>3 DEF WorkerDies, GatewayInv, GatewayTypeOK
  <2>2. ASSUME InitialLimit # 0 PROVE CallIsBounded'
    BY <1>3, <2>2 DEF WorkerDies, GatewayInv, CallIsBounded
  <2> QED
    BY <2>1, <2>2 DEF GatewayInv
<1>4. CASE Reopen
  <2>1. GatewayTypeOK'
    BY <1>4 DEF Reopen, GatewayInv, GatewayTypeOK, budget, call
  <2>2. ASSUME InitialLimit # 0 PROVE CallIsBounded'
    BY <1>4, <2>2 DEF Reopen, GatewayInv, CallIsBounded, budget, call
  <2> QED
    BY <2>1, <2>2 DEF GatewayInv
<1>5. ASSUME NEW l \in Limits, ExtendLimit(l) PROVE GatewayInv'
  <2>1. l \in Nat /\ l # 0 /\ Reconciled \in Nat \cup {-1}
    BY <1>5 DEF ExtendLimit, PreviousLimit, Reconciled, GatewayInv, GatewayTypeOK
  <2>2. GatewayTypeOK'
    BY <1>5, <2>1 DEF ExtendLimit, GatewayInv, GatewayTypeOK, call
  <2>3. ASSUME InitialLimit # 0 PROVE CallIsBounded'
    BY <1>5, <2>1, <2>3 DEF ExtendLimit, GatewayInv, GatewayTypeOK, CallIsBounded, call
  <2> QED
    BY <2>2, <2>3 DEF GatewayInv
<1>6. CASE UNCHANGED gatewayVars
  <2>1. GatewayTypeOK'
    BY <1>6 DEF gatewayVars, budget, call, GatewayInv, GatewayTypeOK
  <2>2. ASSUME InitialLimit # 0 PROVE CallIsBounded'
    BY <1>6, <2>2 DEF gatewayVars, budget, call, GatewayInv, CallIsBounded
  <2> QED
    BY <2>1, <2>2 DEF GatewayInv
<1> QED
  BY <1>1, <1>2, <1>3, <1>4, <1>5, <1>6 DEF GatewayNext

LEMMA GatewayInvariance == GatewaySpec => []GatewayInv
BY GatewayInvInit, GatewayNextKeeps, PTL DEF GatewaySpec

\* The record of a run's calls and of its budget keeps its types.
THEOREM GatewayTypeCorrect == GatewaySpec => []GatewayTypeOK
<1>1. GatewayInv => GatewayTypeOK
  BY DEF GatewayInv
<1> QED
  BY GatewayInvariance, <1>1, PTL

\* A run is never charged for more calls than the largest limit it had and one
\* for each local configuration: the overshoot of one provider call.
THEOREM SpendingIsBounded == GatewaySpec => []SpendIsBounded
<1>1. GatewayInv => SpendIsBounded
  BY DEF GatewayInv, CallIsBounded, SpendIsBounded
<1> QED
  BY GatewayInvariance, <1>1, PTL

\* A node that waits for budget is at rest, and its budget is spent: a handling
\* has a running node, so that no call is charged to a blocked one.
BlockInv == BlockedNodeIsOutOfBudget /\ (phase # "idle" => node = "RUNNING")

\* The end of a handling, other than for its budget, and a step within it.
LEMMA FinishUnblocks ==
  ASSUME NEW status, NEW count, NEW block, NEW why, Finish(status, why, count, block),
         status # "BLOCKED_BUDGET" \/ why # "MAX_AGENT_ITERATIONS"
  PROVE  BlockInv'
BY DEF Finish, BlockInv, BlockedNodeIsOutOfBudget

LEMMA GoOnUnblocks ==
  ASSUME BlockInv, phase # "idle", NEW count, GoOn(count)
  PROVE  BlockInv'
<1>1. CASE Finish("COMPLETED", "none", count, blockLimit)
  BY <1>1, FinishUnblocks
<1>2. CASE ~ Finish("COMPLETED", "none", count, blockLimit)
  BY <1>2 DEF GoOn, BlockInv, BlockedNodeIsOutOfBudget
<1> QED
  BY <1>1, <1>2

LEMMA RaiseUnblocks ==
  ASSUME BlockInv, phase # "idle", NEW status, NEW count, Raise(status, count)
  PROVE  BlockInv'
<1>1. CASE GoOn(count)
  BY <1>1, GoOnUnblocks
<1>2. CASE Finish(status, "none", count, blockLimit)
  BY <1>2, FinishUnblocks
<1> QED
  BY <1>1, <1>2 DEF Raise

LEMMA HandlingUnblocks ==
  ASSUME GatewayInv, BlockInv, Handling
  PROVE  BlockInv'
<1>0. Handling => phase # "idle"
  BY DEF Handling, CheckFails, CheckPasses, Route, RouteNowhere, NoRuntime, RetryInfrastructure,
         InfrastructureFails, Answered, DecodingFails, Escalate, GenerationExhausted, PaidAnswer,
         PaidMalformed, PaidRaises
<1>00. phase # "idle" /\ node = "RUNNING"
  BY <1>0 DEF BlockInv
<1>1. CASE CheckFails
  <2>1. CASE GoOn(charged)
    BY <1>00, <2>1, GoOnUnblocks
  <2>2. CASE Finish("BLOCKED_BUDGET", "MAX_AGENT_ITERATIONS", charged, limit)
    <3>1. limit \in Nat /\ charged \in Nat
      BY DEF GatewayInv, GatewayTypeOK
    <3> QED
      BY <1>1, <2>2, <3>1 DEF CheckFails, Exhausted, Finish, BlockInv, BlockedNodeIsOutOfBudget
  <2> QED
    BY <1>1, <2>1, <2>2 DEF CheckFails
<1>2. CASE CheckPasses
  <2>1. CASE Raise("BLOCKED_MISSING_LLM", charged)
    BY <1>00, <2>1, RaiseUnblocks
  <2>2. CASE ~ Raise("BLOCKED_MISSING_LLM", charged)
    BY <1>00, <1>2, <2>2 DEF CheckPasses, budget, call, BlockInv, BlockedNodeIsOutOfBudget
  <2> QED
    BY <2>1, <2>2
<1>3. CASE Route
  BY <1>00, <1>3 DEF Route, BlockInv, BlockedNodeIsOutOfBudget
<1>4. ASSUME NEW status, RouteNowhere(status) PROVE BlockInv'
  <2>1. CASE Raise(status, charged + 1)
    BY <1>00, <2>1, RaiseUnblocks
  <2>2. CASE ~ Raise(status, charged + 1)
    BY <1>00, <1>4, <2>2 DEF RouteNowhere, BlockInv, BlockedNodeIsOutOfBudget
  <2> QED
    BY <2>1, <2>2
<1>5. ASSUME NEW status, NoRuntime(status) PROVE BlockInv'
  BY <1>00, <1>5, RaiseUnblocks DEF NoRuntime
<1>6. CASE RetryInfrastructure \/ Escalate
  BY <1>00, <1>6 DEF RetryInfrastructure, Escalate, BlockInv, BlockedNodeIsOutOfBudget
<1>7. CASE InfrastructureFails \/ DecodingFails \/ GenerationExhausted
  BY <1>00, <1>7, RaiseUnblocks DEF InfrastructureFails, DecodingFails, GenerationExhausted
<1>8. CASE Answered \/ PaidAnswer
  BY <1>00, <1>8, GoOnUnblocks DEF Answered, PaidAnswer
<1>9. CASE PaidMalformed
  <2>1. CASE Raise("FAILED", charged + 1)
    BY <1>00, <2>1, RaiseUnblocks
  <2>2. CASE ~ Raise("FAILED", charged + 1)
    BY <1>00, <1>9, <2>2 DEF PaidMalformed, BlockInv, BlockedNodeIsOutOfBudget
  <2> QED
    BY <2>1, <2>2
<1>10. CASE PaidRaises
  <2>1. CASE Raise("FAILED", PaidCount)
    BY <1>00, <2>1, RaiseUnblocks
  <2>2. CASE Finish("BLOCKED_BUDGET", "429", PaidCount, blockLimit)
    BY <2>2, FinishUnblocks
  <2> QED
    BY <1>10, <2>1, <2>2 DEF PaidRaises
<1> QED
  BY <1>1, <1>2, <1>3, <1>4, <1>5, <1>6, <1>7, <1>8, <1>9, <1>10 DEF Handling

LEMMA BlockInvInit == GatewayInit => BlockInv
BY DEF GatewayInit, BlockInv, BlockedNodeIsOutOfBudget

LEMMA BlockInvStep == GatewayInv /\ BlockInv /\ [GatewayNext]_gatewayVars => BlockInv'
<1> USE GatewayAssumption DEF GatewayAssumption
<1> SUFFICES ASSUME GatewayInv, BlockInv, [GatewayNext]_gatewayVars PROVE BlockInv'
  OBVIOUS
<1>1. CASE Start
  BY <1>1 DEF Start, BlockInv, BlockedNodeIsOutOfBudget
<1>2. CASE Handling
  BY <1>2, HandlingUnblocks
<1>3. CASE WorkerDies \/ Reopen
  BY <1>3 DEF WorkerDies, Reopen, BlockInv, BlockedNodeIsOutOfBudget
<1>4. ASSUME NEW l \in Limits, ExtendLimit(l) PROVE BlockInv'
  <2>1. l \in Nat /\ l # 0 /\ charged \in Nat /\ InitialLimit # -1
    BY <1>4 DEF ExtendLimit, PreviousLimit, Reconciled, GatewayInv, GatewayTypeOK
  <2>2. node = "BLOCKED_BUDGET" /\ reason = "MAX_AGENT_ITERATIONS" => Reconciled # -1
    BY <2>1 DEF Reconciled
  <2>3. /\ limit' = l /\ charged' = charged /\ phase' = "idle"
        /\ \/ node' = "PENDING"
           \/ node' = node /\ reason' = reason /\ ~ (l > charged /\ node = "BLOCKED_BUDGET" /\ Reconciled # -1)
    BY <1>4 DEF ExtendLimit
  <2> QED
    BY <2>1, <2>2, <2>3 DEF BlockInv, BlockedNodeIsOutOfBudget
<1>5. CASE UNCHANGED gatewayVars
  BY <1>5 DEF gatewayVars, budget, BlockInv, BlockedNodeIsOutOfBudget
<1> QED
  BY <1>1, <1>2, <1>3, <1>4, <1>5 DEF GatewayNext

\* A node that is left blocked for its budget has none: an extension that covers
\* what was charged reopens it, also when its block is older than block records
\* (src/budget_control.py, extend_budget and its reconciliation).
THEOREM BlockedIsOutOfBudget == GatewaySpec => []BlockedNodeIsOutOfBudget
<1>1. BlockInv => BlockedNodeIsOutOfBudget
  BY DEF BlockInv
<1> QED
  BY GatewayInvariance, BlockInvInit, BlockInvStep, <1>1, PTL DEF GatewaySpec

-----------------------------------------------------------------------------
(***************************************************************************)
(* With callers that do not go on after a refusal, the ledger in memory    *)
(* is the one in the file, and everything in it was accepted.  The         *)
(* inductive invariant says both; that they agree makes the status before  *)
(* an update, which is read in memory, the saved one.                      *)
(***************************************************************************)

IsLedger(ledger) == ledger = [id \in ClaimIds |-> ledger[id]]

AllValid(ledger) == \A id \in Has(ledger) : Valid(ledger[id])

LedgerInv ==
    /\ IsLedger(mem)
    /\ IsLedger(disk)
    /\ AllValid(disk)
    /\ open => mem = disk

(* A saved ledger of valid claims is loaded as it is. *)
LEMMA MigrateKeepsValid ==
    ASSUME NEW ledger, IsLedger(ledger), AllValid(ledger)
    PROVE  Migrate(ledger) = ledger
BY DEF IsLedger, AllValid, Migrate, Has, Valid

(* Replacing one claim by a valid one leaves a valid ledger. *)
LEMMA ExceptKeepsValid ==
    ASSUME NEW ledger, IsLedger(ledger), AllValid(ledger),
           NEW id \in ClaimIds, NEW c, Valid(c)
    PROVE  /\ IsLedger([ledger EXCEPT ![id] = c])
           /\ AllValid([ledger EXCEPT ![id] = c])
BY DEF IsLedger, AllValid, Has

(* Fields of one claim in another make a claim.                            *)
LEMMA UpdatedClaims ==
    ASSUME NEW c \in Claim, NEW u \in Updates
    PROVE  With(c, u) \in Claim
<1>1. PICK d \in Claim : \A f \in DOMAIN u \cap DOMAIN d : u[f] = d[f]
  BY LedgerAssumption
<1>2. DOMAIN c = DOMAIN d
  BY DEF Claim
<1>3. \A f \in DOMAIN c : With(c, u)[f] \in {c[f], d[f]}
  BY <1>1, <1>2 DEF With
<1>4. DOMAIN With(c, u) = DOMAIN c
  BY DEF With
<1> DEFINE w == With(c, u)
<1>5. w = [f \in DOMAIN c |-> w[f]]
  BY <1>4 DEF With
<1> HIDE DEF w
<1> QED
  BY <1>3, <1>4, <1>5 DEF Claim, w

LEMMA MigratedClaims ==
    ASSUME NEW ledger \in [ClaimIds -> Claim \cup {Absent}]
    PROVE  Migrate(ledger) \in [ClaimIds -> Claim \cup {Absent}]
<1>1. \A c \in Claim : [c EXCEPT !.status = "UNVERIFIED"] \in Claim
  BY DEF Claim, Statuses
<1>2. ASSUME NEW id \in ClaimIds PROVE Migrate(ledger)[id] \in Claim \cup {Absent}
  BY <1>1 DEF Migrate
<1> QED
  BY <1>2 DEF Migrate

LEMMA LedgerTypeStep == LedgerTypeOK /\ [LedgerNext]_ledgerVars => LedgerTypeOK'
<1> SUFFICES ASSUME LedgerTypeOK, [LedgerNext]_ledgerVars PROVE LedgerTypeOK'
  OBVIOUS
<1> DEFINE Ledgers == [ClaimIds -> Claim \cup {Absent}]
<1>0. mem \in Ledgers /\ disk \in Ledgers /\ open \in BOOLEAN /\ (~open => Has(mem) = {})
  BY DEF LedgerTypeOK
<1>1. [id \in ClaimIds |-> Absent] \in Ledgers /\ Has([id \in ClaimIds |-> Absent]) = {}
  BY DEF Has
<1>2. CASE Open
  BY <1>0, <1>2, MigratedClaims DEF Open, LedgerTypeOK
<1>3. CASE Close
  BY <1>0, <1>1, <1>3 DEF Close, LedgerTypeOK
<1>4. ASSUME NEW ledger \in Ledgers, open, Refused(ledger) PROVE LedgerTypeOK'
  <2>1. CASE StopsOnError = TRUE
    BY <1>0, <1>1, <1>4, <2>1 DEF Refused, LedgerTypeOK, Has
  <2>2. CASE ~ StopsOnError
    BY <1>0, <1>1, <1>4, <2>2 DEF Refused, LedgerTypeOK
  <2> QED
    BY <2>1, <2>2
<1>5. ASSUME NEW ledger \in Ledgers, open, Saved(ledger) PROVE LedgerTypeOK'
  BY <1>0, <1>5 DEF Saved, LedgerTypeOK
<1>6. ASSUME NEW id \in ClaimIds, NEW c \in New, AddClaim(id, c) PROVE LedgerTypeOK'
  <2>1. [mem EXCEPT ![id] = c] \in Ledgers
    BY <1>0, LedgerAssumption
  <2> HIDE DEF Ledgers
  <2> QED
    BY <1>0, <1>4, <1>5, <1>6, <2>1 DEF AddClaim
<1>7. ASSUME NEW id \in ClaimIds, NEW u \in Updates, UpdateClaim(id, u) PROVE LedgerTypeOK'
  <2>1. mem[id] \in Claim
    BY <1>0, <1>7 DEF UpdateClaim, Has
  <2>2. With(mem[id], u) \in Claim
    BY <2>1, UpdatedClaims
  <2>3. [mem EXCEPT ![id] = With(mem[id], u)] \in Ledgers
    BY <1>0, <2>2
  <2> HIDE DEF Ledgers
  <2> QED
    BY <1>0, <1>4, <1>5, <1>7, <2>3 DEF UpdateClaim
<1>8. CASE UNCHANGED ledgerVars
  BY <1>0, <1>8 DEF ledgerVars, LedgerTypeOK, Has
<1> QED
  BY <1>2, <1>3, <1>6, <1>7, <1>8 DEF LedgerNext

(* Whether callers stop at a refusal or not, the ledger in memory and the  *)
(* file map ids to claims, some of a status the program does not know      *)
(* (src/ledger.py:25-30, 63-121).                                          *)
THEOREM LedgerTypeCorrect == LedgerSpec => []LedgerTypeOK
<1>1. LedgerInit => LedgerTypeOK
  BY DEF LedgerInit, LedgerTypeOK, Has
<1> QED
  BY <1>1, LedgerTypeStep, PTL DEF LedgerSpec

(* The inductive invariant is kept when callers stop at a refusal. *)
THEOREM LedgerInvariant == ASSUME StopsOnError PROVE LedgerSpec => []LedgerInv
<1>1. LedgerInit => LedgerInv
  BY DEF LedgerInit, LedgerInv, IsLedger, AllValid, Has
<1>2. LedgerInv /\ [LedgerNext]_ledgerVars => LedgerInv'
  <2> SUFFICES ASSUME LedgerInv, [LedgerNext]_ledgerVars PROVE LedgerInv'
    OBVIOUS
  <2>1. CASE Open
    BY <2>1, MigrateKeepsValid DEF Open, LedgerInv, IsLedger, AllValid, Has
  <2>2. CASE Close
    BY <2>2 DEF Close, LedgerInv, IsLedger, AllValid, Has
  <2>3. ASSUME NEW id \in ClaimIds, NEW c \in New, AddClaim(id, c)
        PROVE  LedgerInv'
    <3>1. CASE id \in Has(mem) \/ ~Valid(c)
      BY <2>3, <3>1 DEF AddClaim, Refused, LedgerInv, IsLedger, AllValid, Has
    <3>2. CASE ~(id \in Has(mem) \/ ~Valid(c))
      <4>1. mem' = [mem EXCEPT ![id] = c] /\ disk' = mem'
        BY <2>3, <3>2 DEF AddClaim, Saved
      <4>2. mem = disk
        BY <2>3 DEF AddClaim, LedgerInv
      <4> QED BY <3>2, <4>1, <4>2, ExceptKeepsValid
              DEF LedgerInv, AllValid, Has, IsLedger
    <3> QED BY <3>1, <3>2
  <2>4. ASSUME NEW id \in ClaimIds, NEW u \in Updates, UpdateClaim(id, u)
        PROVE  LedgerInv'
    <3> DEFINE c == With(mem[id], u)
    <3> DEFINE accepted == Valid(c) /\ MayChange(mem[id].status, c)
    <3>1. CASE ~accepted
      BY <2>4, <3>1 DEF UpdateClaim, Refused, LedgerInv, IsLedger, AllValid, Has
    <3>2. CASE accepted
      <4>1. mem' = [mem EXCEPT ![id] = c] /\ disk' = mem'
        BY <2>4, <3>2 DEF UpdateClaim, Saved
      <4>2. mem = disk
        BY <2>4 DEF UpdateClaim, LedgerInv
      <4> HIDE DEF c
      <4> QED BY <3>2, <4>1, <4>2, ExceptKeepsValid
              DEF LedgerInv, AllValid, Has, IsLedger
    <3> QED BY <3>1, <3>2
  <2>5. CASE UNCHANGED ledgerVars
    BY <2>5 DEF ledgerVars, LedgerInv, IsLedger, AllValid, Has
  <2> QED BY <2>1, <2>2, <2>3, <2>4, <2>5 DEF LedgerNext
<1> QED BY <1>1, <1>2, PTL DEF LedgerSpec

(* Every saved claim passes the ledger's check (src/ledger.py:91-119). *)
THEOREM SavedClaimsValid ==
    ASSUME StopsOnError PROVE LedgerSpec => []SavedClaimsAreValid
<1>1. LedgerInv => SavedClaimsAreValid
  BY DEF LedgerInv, AllValid, SavedClaimsAreValid
<1> QED BY <1>1, LedgerInvariant, PTL

(* The gate that reads statuses decides as the one that checks evidence    *)
(* (src/ledger.py:123-133, src/paper_gate.py:39-54).                       *)
THEOREM TheGatesAgree == ASSUME StopsOnError PROVE LedgerSpec => []GatesAgree
<1>1. SavedClaimsAreValid => GatesAgree
  BY DEF SavedClaimsAreValid, GatesAgree, IsPaperReady, GatePasses, Valid
<1> QED BY <1>1, SavedClaimsValid, PTL

(* Both, of the file as any sequence of calls left it                      *)
(* (src/ledger.py:91-133).                                                 *)
THEOREM LedgerSound == ASSUME StopsOnError PROVE LedgerSpec => []LedgerIsSound
<1>1. SavedClaimsAreValid /\ GatesAgree => LedgerIsSound
  BY DEF LedgerIsSound
<1> QED BY <1>1, SavedClaimsValid, TheGatesAgree, PTL

(* A paper writer never changes the status of a saved claim               *)
(* (src/ledger.py:94-98, 120-121).                                         *)
THEOREM PaperWriterHasNoSay ==
    ASSUME StopsOnError PROVE LedgerSpec => PaperWriterChangesNoStatus
<1> DEFINE Kept == \A id \in Has(disk) :
                       disk'[id].updated_by = "paper_writer" =>
                           disk'[id].status = disk[id].status
<1>1. LedgerInv /\ [LedgerNext]_ledgerVars => [Kept]_ledgerVars
  <2> SUFFICES ASSUME LedgerInv, LedgerNext PROVE Kept \/ UNCHANGED ledgerVars
    OBVIOUS
  <2>1. CASE disk' = disk
    BY <2>1
  <2>2. ASSUME NEW id \in ClaimIds, NEW c \in New, AddClaim(id, c), disk' # disk
        PROVE  Kept
    <3>1. /\ id \notin Has(disk)
          /\ disk' = [disk EXCEPT ![id] = c]
      BY <2>2 DEF AddClaim, Refused, Saved, LedgerInv
    <3> QED BY <3>1 DEF LedgerInv, IsLedger, Has
  <2>3. ASSUME NEW id \in ClaimIds, NEW u \in Updates, UpdateClaim(id, u),
               disk' # disk
        PROVE  Kept
    <3> DEFINE c == With(disk[id], u)
    <3>1. /\ MayChange(disk[id].status, c)
          /\ disk' = [disk EXCEPT ![id] = c]
      BY <2>3 DEF UpdateClaim, Refused, Saved, LedgerInv
    <3> HIDE DEF c
    <3> QED BY <3>1 DEF MayChange, LedgerInv, IsLedger, Has
  <2>4. CASE Open \/ Close
    BY <2>4, <2>1 DEF Open, Close
  <2> QED BY <2>1, <2>2, <2>3, <2>4 DEF LedgerNext
<1> QED BY <1>1, LedgerInvariant, PTL DEF LedgerSpec, PaperWriterChangesNoStatus
=============================================================================
