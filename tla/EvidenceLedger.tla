--------------------------- MODULE EvidenceLedger ---------------------------
(***************************************************************************)
(* The evidence ledger of a project: the claims a paper may be written     *)
(* from.  EvidenceLedger (src/ledger.py) keeps them in memory, checks a    *)
(* claim when it is added or updated, and saves the whole ledger after     *)
(* each accepted change.  A refusal is an exception; the object stays in   *)
(* memory, and whether the caller goes on using it is StopsOnError.        *)
(* A claim is abstracted to what the checks read: producer is the origin   *)
(* (its default), and own says that it is among validated_by.  The paper   *)
(* gate (src/paper_gate.py) reads the saved ledger.                        *)
(***************************************************************************)
EXTENDS Naturals

CONSTANTS
    ClaimIds,      \* the claim ids
    New,           \* the claims that are added
    Updates,       \* the keyword arguments of update_claim: records of fields
    StopsOnError   \* a caller does not go on with a ledger that refused it

VARIABLES
    mem,    \* the ledger in memory: the claim of an id, or Absent; Closed
    disk,   \* the ledger in its file
    open    \* a process has the ledger open

ledgerVars == <<mem, disk, open>>

Absent == [status |-> "ABSENT"]

Statuses == {"UNVERIFIED", "VERIFIED_TOOL_OUTPUT", "VERIFIED_MEASUREMENT",
             "SUPPORTED_BY_CITATION"}
MainStatuses == Statuses \ {"UNVERIFIED"}

Has(ledger) == {id \in ClaimIds : ledger[id] # Absent}

-----------------------------------------------------------------------------
(* _validate_claim; mutants: without the artifacts, and after the change *)

ValidNoArtifacts(c) ==
    /\ c.status \in Statuses
    /\ ~c.own
    /\ c.status = "SUPPORTED_BY_CITATION" => c.citations
MayChangeAlways(before, c) == before = before

Valid(c) ==
    /\ c.status \in Statuses
    /\ ~c.own
    /\ c.status = "VERIFIED_MEASUREMENT" =>
          c.origin # "planner" /\ c.artifacts /\ ~c.hard_coded
    /\ c.status = "VERIFIED_TOOL_OUTPUT" => c.artifacts
    /\ c.status = "SUPPORTED_BY_CITATION" => c.citations

MayChange(before, c) ==
    before # c.status => c.updated_by # "paper_writer"

-----------------------------------------------------------------------------
(* _migrate: a status the program does not know becomes UNVERIFIED. *)

(* Mutant: the file is not read. *)
Fresh(ledger) == [id \in ClaimIds |-> Absent]

Migrate(ledger) ==
    [id \in ClaimIds |->
        IF ledger[id] # Absent /\ ledger[id].status \notin Statuses
        THEN [ledger[id] EXCEPT !.status = "UNVERIFIED"]
        ELSE ledger[id]]

LedgerInit ==
    /\ mem = [id \in ClaimIds |-> Absent]
    /\ disk = mem
    /\ open = FALSE

Open == /\ ~open
        /\ open' = TRUE
        /\ mem' = Migrate(disk)
        /\ UNCHANGED disk

(* The process ends, at any point between two calls. *)
Close == /\ open
         /\ open' = FALSE
         /\ mem' = [id \in ClaimIds |-> Absent]
         /\ UNCHANGED disk

(* An exception leaves the object as the call made it. *)
RefusedOpen(ledger) ==
    /\ disk' = disk
    /\ open' = ~StopsOnError
    /\ mem' = ledger

Refused(ledger) ==
    /\ disk' = disk
    /\ open' = ~StopsOnError
    /\ mem' = IF StopsOnError THEN [id \in ClaimIds |-> Absent] ELSE ledger

Saved(ledger) == mem' = ledger /\ disk' = ledger /\ open' = open

AddUnchecked(id, c) ==
    /\ open
    /\ IF id \in Has(mem)
       THEN Refused(mem)
       ELSE Saved([mem EXCEPT ![id] = c])

AddClaim(id, c) ==
    /\ open
    /\ IF id \in Has(mem) \/ ~Valid(c)
       THEN Refused(mem)
       ELSE Saved([mem EXCEPT ![id] = c])

With(c, u) == [f \in DOMAIN c |-> IF f \in DOMAIN u THEN u[f] ELSE c[f]]

(* The claim is changed in place, then checked, then everything is saved.  *)
UpdateClaim(id, u) ==
    /\ open
    /\ id \in Has(mem)
    /\ LET c == With(mem[id], u)
           changed == [mem EXCEPT ![id] = c]
       IN  IF Valid(c) /\ MayChange(mem[id].status, c)
           THEN Saved(changed)
           ELSE Refused(changed)

LedgerNext ==
    \/ Open
    \/ Close
    \/ \E id \in ClaimIds, c \in New : AddClaim(id, c)
    \/ \E id \in ClaimIds, u \in Updates : UpdateClaim(id, u)

LedgerSpec == LedgerInit /\ [][LedgerNext]_ledgerVars

-----------------------------------------------------------------------------
(* is_paper_ready, of a ledger whose status is RESEARCH_COMPLETE, and the   *)
(* part of paper_readiness_report that reads the claims.                   *)

IsPaperReady(ledger) ==
    \A id \in Has(ledger) : /\ ledger[id].status \in MainStatuses
                            /\ ~ledger[id].fatal

GatePasses(ledger) ==
    \A id \in Has(ledger) :
        LET c == ledger[id] IN
        /\ c.status \in MainStatuses
        /\ c.status = "VERIFIED_MEASUREMENT" => c.artifacts
        /\ c.status = "SUPPORTED_BY_CITATION" => c.citations
        /\ ~c.fatal
        /\ ~c.own

-----------------------------------------------------------------------------
Claim == [status : Statuses \cup {"MISSPELT"},
          origin : {"planner", "executor"},
          updated_by : {"nobody", "researcher", "paper_writer"},
          artifacts : BOOLEAN, citations : BOOLEAN, hard_coded : BOOLEAN,
          own : BOOLEAN, fatal : BOOLEAN]

(* A call may give any status, known or not; what it gives to the other    *)
(* fields of a claim are values that they have in some claim.              *)
ASSUME LedgerAssumption ==
    /\ New \subseteq Claim
    /\ \A u \in Updates : \E c \in Claim : \A f \in DOMAIN u \cap DOMAIN c : u[f] = c[f]

(* The ledger maps ids to claims, in memory and in the file, and a ledger  *)
(* that is closed has no claims in memory (src/ledger.py:20-30).           *)
LedgerTypeOK ==
    /\ mem \in [ClaimIds -> Claim \cup {Absent}]
    /\ disk \in [ClaimIds -> Claim \cup {Absent}]
    /\ open \in BOOLEAN
    /\ ~open => Has(mem) = {}

(* What is in the file was accepted: every saved claim passes the check of *)
(* its own fields, however its fields were changed one call at a time      *)
(* (src/ledger.py:91-119).                                                 *)
SavedClaimsAreValid == \A id \in Has(disk) : Valid(disk[id])

(* The ledger's own gate, which reads statuses only, and the paper gate,   *)
(* which checks some of the evidence again, decide alike                   *)
(* (src/ledger.py:123-133, src/paper_gate.py:39-54).                       *)
GatesAgree == IsPaperReady(disk) <=> GatePasses(disk)

(* Both, of whatever is in the file (src/ledger.py:91-133).                *)
LedgerIsSound == SavedClaimsAreValid /\ GatesAgree

(* No claim leaves the ledger, whatever calls are refused and whenever the *)
(* process ends (src/ledger.py:25-30, 63-70).                              *)
ClaimsStay == [][Has(disk) \subseteq Has(disk')]_ledgerVars

(* A saved claim that a paper writer touched last has the status it had    *)
(* before: a paper writer changes the wording of a claim and never its     *)
(* evidence (src/ledger.py:94-98, 120-121).                                *)
PaperWriterChangesNoStatus ==
    [][\A id \in Has(disk) :
          disk'[id].updated_by = "paper_writer" =>
              disk'[id].status = disk[id].status]_ledgerVars

=============================================================================
