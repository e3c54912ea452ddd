---------------------------- MODULE LocalProfile ----------------------------
(***************************************************************************)
(* What local inference knows of the models it may use (LocalInference-    *)
(* Manager, src/local_inference.py): profile.json with the configurations  *)
(* that were discovered and what was measured of each, the benchmark       *)
(* artifacts that measurements are also kept in, and the index of models.  *)
(* A discovery rebuilds the profile, a smoke test and a benchmark rebuild  *)
(* it and add to it, and a request reads it and may restore it from the    *)
(* artifacts.  Files are written in place, with no lock; a process may die *)
(* in the middle of a write.                                               *)
(*                                                                         *)
(* A configuration stands for its model: key-value caches are left out.    *)
(* A measurement is the set of task classes whose thresholds were reached. *)
(***************************************************************************)
EXTENDS Naturals, FiniteSets

CONSTANTS
    ModelConfigs,      \* 1..n, in the order of discovery
    Removable,    \* bound: those whose disk or memory may come and go
    Tasks,        \* task classes
    Trials,       \* thread counts that a benchmark tries
    MaxConfigs    \* RESEARCH_LOCAL_BENCH_MAX_CONFIGS

ASSUME ProfileAssumption ==
    /\ ModelConfigs \subseteq Nat /\ Removable \subseteq ModelConfigs
    /\ Trials \in Nat \ {0} /\ MaxConfigs \in Nat

VARIABLES
    here,       \* models whose file the environment or the configuration names
    index,      \* models.json
    fits,       \* configurations that fit into the memory that is free now
    profile,    \* profile.json
    artifacts,  \* benchmarks/<config>:t<n>.json, and 0 for <config>:smoke.json
    bench,      \* the benchmark in progress
    scored      \* of each configuration, the tasks some trial found it good for

environment == <<here, fits>>
evidence == <<artifacts, bench, scored>>
profileVars == <<environment, index, profile, evidence>>

(* measured_capability is the scores of a trial, empty when every task      *)
(* failed: such a trial counts as no measurement.                          *)
Measurement == [measured : BOOLEAN, tasks : SUBSET Tasks]
Unmeasured == [measured |-> FALSE, tasks |-> {}]
TrialResults == {e \in Measurement : e.measured \/ e.tasks = {}}

Profile(kind, configs, entry) ==
    [kind |-> kind, configs |-> configs, entry |-> entry]
NoEntries == [c \in ModelConfigs |-> Unmeasured]
NoProfile == Profile("none", {}, NoEntries)
TornProfile == Profile("torn", {}, NoEntries)

NoBench == [on |-> FALSE, todo |-> {}, trial |-> 1, best |-> NoEntries,
            of |-> {}]

ProfileInit ==
    /\ here \in SUBSET ModelConfigs
    /\ index = {}
    /\ fits = ModelConfigs
    /\ profile = NoProfile
    /\ artifacts = [c \in ModelConfigs |-> [t \in 0..Trials |-> Unmeasured]]
    /\ bench = NoBench
    /\ scored = [c \in ModelConfigs |-> {}]

(* A disk is mounted or not, other programs take or free memory. *)
EnvironmentChanges ==
    /\ \E c \in Removable :
          \/ here' \in {here \cup {c}, here \ {c}} \ {here} /\ fits' = fits
          \/ fits' \in {fits \cup {c}, fits \ {c}} \ {fits} /\ here' = here
    /\ UNCHANGED <<index, profile, evidence>>

-----------------------------------------------------------------------------
(* build_profile.  Every model that is found is registered; when none is,   *)
(* the index says what there is.                                           *)
Found == (IF here # {} THEN here ELSE index) \cap fits

(* Mutants: the measurements are not carried over, and the estimate of the *)
(* capabilities counts as one.                                             *)
BuiltAfresh(previous) ==
    IF previous = previous THEN Profile("built", Found, NoEntries) ELSE previous
BuiltOnPriors(previous) ==
    Profile("built", Found,
            [c \in ModelConfigs |->
                IF c \notin Found THEN Unmeasured
                ELSE IF previous.entry[c].measured THEN previous.entry[c]
                ELSE [measured |-> TRUE, tasks |-> Tasks]])

Built(previous) ==
    Profile("built", Found,
            [c \in ModelConfigs |->
                IF c \in Found THEN previous.entry[c] ELSE Unmeasured])

Rebuild ==
    /\ index' = index \cup here
    /\ profile' = Built(profile)
    /\ UNCHANGED <<environment, scored>>

Build == Rebuild /\ UNCHANGED evidence

(* A process dies while it writes the profile, which it has emptied; it    *)
(* may be the benchmark.                                                   *)
ProcessDies ==
    /\ profile.kind # "none"
    /\ profile' = TornProfile
    /\ bench' \in {bench, NoBench}
    /\ UNCHANGED <<environment, index, artifacts, scored>>

Earliest(configs) == {c \in configs : \A d \in configs : c <= d}
Foremost(configs) ==
    {c \in configs : Cardinality({d \in configs : d < c}) < MaxConfigs}

(* smoke_test tries the first configuration, and its artifact takes the    *)
(* whole entry.                                                            *)
Smoked(configs) ==
    artifacts' = [c \in ModelConfigs |->
                     IF c \in Earliest(configs)
                     THEN [artifacts[c] EXCEPT ![0] = profile'.entry[c]]
                     ELSE artifacts[c]]

(* A smoke test; also a benchmark that is refused because of it. *)
Smoke ==
    /\ Rebuild
    /\ Smoked(Found)
    /\ UNCHANGED bench

-----------------------------------------------------------------------------
(* benchmark_configurations, after a smoke test that passed.               *)

BenchmarkStarts ==
    /\ ~bench.on
    /\ Found # {}
    /\ Rebuild
    /\ Smoked(Found)
    /\ bench' = [NoBench EXCEPT !.on = TRUE, !.todo = Foremost(Found),
                                !.of = Foremost(Found)]

(* Of the trials of a configuration the first with the most tasks is kept. *)
Better(e, f) == Cardinality(e.tasks) > Cardinality(f.tasks)

(* Mutant: a trial more than there are thread counts. *)
TrialOnceMore(c, e) ==
    /\ bench.on
    /\ c \in Earliest(bench.todo)
    /\ artifacts' = [artifacts EXCEPT ![c] = [t \in 0..bench.trial |-> e]]
    /\ scored' = [scored EXCEPT ![c] = @ \cup e.tasks]
    /\ bench' = [bench EXCEPT !.trial = @ + 1]
    /\ UNCHANGED <<environment, index, profile>>

Trial(c, e) ==
    /\ bench.on
    /\ c \in Earliest(bench.todo)
    /\ artifacts' = [artifacts EXCEPT ![c][bench.trial] = e]
    /\ scored' = [scored EXCEPT ![c] = @ \cup e.tasks]
    /\ bench' = [bench EXCEPT
                    !.trial = IF @ = Trials THEN 1 ELSE @ + 1,
                    !.todo = IF bench.trial = Trials THEN @ \ {c} ELSE @,
                    !.best[c] = IF bench.trial = 1 \/ Better(e, @)
                                THEN e ELSE @]
    /\ UNCHANGED <<environment, index, profile>>

BenchmarkEnds ==
    /\ bench.on
    /\ bench.todo = {}
    /\ profile' = Profile("built", bench.of, bench.best)
    /\ bench' = NoBench
    /\ UNCHANGED <<environment, index, artifacts, scored>>

BenchmarkDies ==
    /\ bench.on
    /\ bench' = NoBench
    /\ UNCHANGED <<environment, index, profile, artifacts, scored>>

-----------------------------------------------------------------------------
(* load_or_build_profile, by a request that is to be routed.  A profile    *)
(* without any measurement gets those of the artifacts: of a configuration *)
(* the one with the most tasks.                                            *)

Stored(c) == {artifacts[c][t] : t \in {u \in 0..Trials : artifacts[c][u].measured}}
MostTasks(entries) == {e \in entries : \A f \in entries : ~Better(f, e)}

Measured == {c \in profile.configs : profile.entry[c].measured}

(* Mutant: from the smoke test's artifact alone. *)
RestoredFrom(entry) ==
    \A c \in ModelConfigs :
        entry[c] = IF c \in profile.configs THEN artifacts[c][0] ELSE Unmeasured

RestoredEntries(entry) ==
    \A c \in ModelConfigs :
        IF c \in profile.configs /\ Stored(c) # {}
        THEN entry[c] \in MostTasks(Stored(c))
        ELSE entry[c] = profile.entry[c]

Load ==
    /\ profile.kind = "built"
    /\ Measured = {}
    /\ \E entry \in [ModelConfigs -> TrialResults] :
          /\ RestoredEntries(entry)
          /\ profile' = [profile EXCEPT !.entry = entry]
    /\ UNCHANGED <<environment, index, evidence>>

ProfileNext ==
    \/ EnvironmentChanges
    \/ Build \/ Smoke
    \/ BenchmarkStarts
    \/ \E c \in ModelConfigs, e \in TrialResults : Trial(c, e)
    \/ BenchmarkEnds \/ BenchmarkDies
    \/ Load
    \/ ProcessDies

ProfileSpec == ProfileInit /\ [][ProfileNext]_profileVars

(* LocalModelRouter.candidates: who may be asked for a task. *)
Candidates(task) == {c \in profile.configs : task \in profile.entry[c].tasks}

-----------------------------------------------------------------------------
(* The profile and the artifacts hold results of trials, and the profile   *)
(* has entries for its own configurations only.                            *)
ProfileTypeOK ==
    /\ here \subseteq ModelConfigs /\ fits \subseteq ModelConfigs /\ index \subseteq ModelConfigs
    /\ profile \in [kind : {"none", "torn", "built"}, configs : SUBSET ModelConfigs,
                    entry : [ModelConfigs -> TrialResults]]
    /\ Measured \subseteq profile.configs
    /\ \A c \in ModelConfigs \ profile.configs : profile.entry[c] = Unmeasured
    /\ artifacts \in [ModelConfigs -> [0..Trials -> TrialResults]]
    /\ bench \in [on : BOOLEAN, todo : SUBSET ModelConfigs, trial : 1..Trials,
                  best : [ModelConfigs -> TrialResults], of : SUBSET ModelConfigs]
    /\ scored \in [ModelConfigs -> SUBSET Tasks]

(* Eligibility is never synthesized (load_or_build_profile): a model is a  *)
(* candidate for a task only if a trial of that model once reached its     *)
(* thresholds, whatever was rebuilt, torn and restored since.              *)
CandidatesWereTried ==
    \A task \in Tasks : \A c \in Candidates(task) : task \in scored[c]

(* A configuration that stays in the profile loses its measurement only    *)
(* when a benchmark of it ends: a discovery or a smoke test, also one that *)
(* runs during a benchmark, leaves it there (build_profile's second loop). *)
MeasurementStays ==
    \A c \in Measured \cap profile'.configs :
       \/ profile'.entry[c] = profile.entry[c]
       \/ bench.on /\ ~bench'.on /\ c \in bench.of

(* What a torn profile lost comes back: a rebuilt profile that has nothing *)
(* measured gets, with the next request, the measurement of every trial    *)
(* artifact of its configurations (load_or_build_profile).                 *)
TornProfileRecovers ==
    profile.kind = "built" /\ profile'.kind = "built"
       /\ Measured = {} /\ UNCHANGED <<index, evidence>> /\ profile' # profile
       /\ profile'.configs = profile.configs
    => \A c \in profile.configs :
          (\E t \in 1..Trials : artifacts[c][t].measured)
             => profile'.entry[c].measured

(* Only the end of a benchmark takes a measurement away, the request after *)
(* a rebuild restores what a torn profile lost, and a candidate for a task *)
(* was once tried and good for it.                                         *)
ProfileIsMeasured ==
    [][MeasurementStays /\ TornProfileRecovers /\ CandidatesWereTried']_profileVars

-----------------------------------------------------------------------------
(* What comments of the code say.  "Discovery/smoke refreshes runtime      *)
(* facts, but must not erase benchmark evidence." (src/local_inference.py: *)
(* 1221): a configuration that every trial measured is measured in a       *)
(* profile that is built later, with no benchmark of it in progress.       *)
EvidenceIsKept ==
    [][Build => \A c \in profile'.configs :
                   \/ profile'.entry[c].measured
                   \/ c \in bench.of
                   \/ \E t \in 1..Trials : ~artifacts[c][t].measured]_profileVars

(* "Rehydrate only from immutable benchmark artifacts" (src/               *)
(* local_inference.py:1370): what a request restores is the result of the  *)
(* last benchmark, which the trial artifacts have.                         *)
RestoredIsTheLastBenchmark ==
    [][Load => \A c \in ModelConfigs :
                  profile'.entry[c] # profile.entry[c] =>
                     \E t \in 1..Trials : profile'.entry[c] = artifacts[c][t]]_profileVars
=============================================================================
