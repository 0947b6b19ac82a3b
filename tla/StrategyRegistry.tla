-------------------------- MODULE StrategyRegistry --------------------------
(* The file side of the SVOS platform for one strategy: the registry       *)
(* (svos/registry/service.py), the gate in front of it                     *)
(* (svos/governance/service.py) and the stage services that record their   *)
(* verdict and then ask for a transition (svos/application). The .jsonl    *)
(* files are only appended to; state.json is read, changed and written     *)
(* back, and write_json truncates it first, so that a reader may find      *)
(* nothing. No lock orders the processes that do this.                     *)
EXTENDS LifecycleGraph, FiniteSets

CONSTANTS
    RegistryClients,    \* processes that use the platform on its files
    CatalogStage,       \* stage infer_stage gives the catalog's manifest
    RunServices,        \* stages whose services are run
    MaxVersions,        \* bound: versions of the specification
    MaxTransitions,     \* bound: transitions
    MaxVerdicts         \* bound: different verdicts on file

ASSUME RegistryAssumption ==
    /\ CatalogStage \in Stages
    /\ RunServices \subseteq Stages
    /\ MaxVersions \in Nat \ {0}
    /\ MaxTransitions \in Nat
    /\ MaxVerdicts \in Nat

VARIABLES
    state_file,         \* state.json: current_stage and current_version_id
    versions,           \* versions.jsonl, by its length
    evidence,           \* evidence.jsonl
    transitions,        \* transitions.jsonl
    task,               \* what each process is doing
    disturbed           \* history: two updates overlapped, or one was cut off

RegistryVars == <<state_file, versions, evidence, transitions, task, disturbed>>

Unset == "unset"
Keep == "keep"
NoTask == [does |-> "nothing"]
NoContent == [stage |-> Unset, version |-> 0]

(* Processes between their append to a .jsonl file and the end of their    *)
(* write of state.json.                                                    *)
Updating == {c \in RegistryClients : task[c].does \in {"read", "truncate", "write"}}

(* read_json: what a reader finds while a write is under way is nothing.   *)
Content ==
    IF \E c \in RegistryClients : task[c].does = "write" THEN NoContent ELSE state_file

(* get_strategy_record, with its two fallbacks.                            *)
StageNow == IF Content.stage = Unset THEN CatalogStage ELSE Content.stage
VersionNow == IF Content.version = 0 THEN versions ELSE Content.version

(* An update of state.json and the stage to ask for next; a transition to  *)
(* ask for; and one decided on, and then found to match.                   *)
Tasks ==
    {NoTask}
      \cup [does : {"read", "truncate", "write"}, stage : Stages \cup {Unset, Keep},
            version : 0..MaxVersions, then : Stages \cup {Unset}]
      \cup [does : {"drive"}, to : Stages]
      \cup [does : {"apply", "append"}, from : Stages, to : Stages, version : 1..MaxVersions]

Becomes(c, t) == task' = [task EXCEPT ![c] = t]

(* A change of state.json, and the stage to ask for when it is written.    *)
Update(stage, version, then) ==
    [does |-> "read", stage |-> stage, version |-> version, then |-> then]

-----------------------------------------------------------------------------
(* _drive_lifecycle of the services: a pass moves a strategy from the      *)
(* stage before the service's own, a failure sends it to refinement.       *)
ServiceOrder == <<"DRAFT", "INTAKE", "AUDIT", "HISTORICAL_REPLAY",
                  "STATISTICAL_VALIDATION", "ROBUSTNESS_VALIDATION", "VIRTUAL_DEMO">>

Before(service) ==
    ServiceOrder[(CHOOSE i \in 2..7 : ServiceOrder[i] = service) - 1]

DriveTo(service, status, stage) ==
    IF status = "PASS" /\ stage = Before(service) THEN service
    ELSE IF /\ status = "FAIL" /\ service # "INTAKE"
            /\ stage \in {Before(service), service} THEN "REFINEMENT"
    ELSE Unset

(* A service ends its run: record_evidence appends the verdict under the   *)
(* version it finds now, and touches state.json.                           *)
RecordEvidence(c, service, status) ==
    /\ task[c] = NoTask
    /\ evidence' = evidence \cup {[stage |-> service, version |-> VersionNow, status |-> status]}
    /\ Cardinality(evidence') <= MaxVerdicts
    /\ Becomes(c, Update(Keep, 0, DriveTo(service, status, StageNow)))
    /\ UNCHANGED <<state_file, versions, transitions>>

(* ensure_spec_version with a changed specification: record_version.       *)
RecordVersion(c) ==
    /\ task[c] = NoTask
    /\ versions < MaxVersions
    /\ versions' = versions + 1
    /\ Becomes(c, Update(Keep, versions + 1, Unset))
    /\ UNCHANGED <<state_file, evidence, transitions>>

(* evaluate_transition: an allowed decision remembers what it was made on. *)
Qualifying(stage, version) ==
    \E e \in evidence : e.stage = stage /\ e.version = version /\ e.status = "PASS"

Promotes(from, to) ==
    NeedsEvidence(from) /\ to \notin {"REFINEMENT", "REVALIDATION", "RETIRED"}

GateAllows_AnyStatus(to) ==
    /\ CanMove(StageNow, to)
    /\ Promotes(StageNow, to) =>
          \E e \in evidence : e.stage = StageNow /\ e.version = VersionNow

GateAllows(to) ==
    /\ CanMove(StageNow, to)
    /\ Promotes(StageNow, to) => Qualifying(StageNow, VersionNow)

Decision(to) == [does |-> "apply", from |-> StageNow, to |-> to, version |-> VersionNow]

Evaluate(c, to) ==
    /\ task[c] = NoTask
    /\ GateAllows(to)
    /\ Becomes(c, Decision(to))
    /\ UNCHANGED <<state_file, versions, evidence, transitions>>

(* The service asks for its stage; a refusal is swallowed.                 *)
Drive(c) ==
    /\ task[c].does = "drive"
    /\ Becomes(c, IF GateAllows(task[c].to) THEN Decision(task[c].to) ELSE NoTask)
    /\ UNCHANGED <<state_file, versions, evidence, transitions>>

(* StrategyRegistryService.transition: the decision has to match what the  *)
(* files say now. The append comes after, and then the update.             *)
Matches(decision) == decision.from = StageNow /\ decision.version = VersionNow

MatchDecision_Unmatched(c) ==
    /\ task[c].does = "apply"
    /\ Becomes(c, IF Matches(task[c]) THEN [task[c] EXCEPT !.does = "append"]
                  ELSE Update(task[c].to, 0, Unset))
    /\ UNCHANGED <<state_file, versions, evidence, transitions>>

MatchDecision(c) ==
    /\ task[c].does = "apply"
    /\ Becomes(c, IF Matches(task[c]) THEN [task[c] EXCEPT !.does = "append"] ELSE NoTask)
    /\ UNCHANGED <<state_file, versions, evidence, transitions>>

AppendTransition(c) ==
    /\ task[c].does = "append"
    /\ Len(transitions) < MaxTransitions
    /\ transitions' = Append(transitions, [from |-> task[c].from, to |-> task[c].to,
                                            version |-> task[c].version])
    /\ Becomes(c, Update(task[c].to, 0, Unset))
    /\ UNCHANGED <<state_file, versions, evidence>>

-----------------------------------------------------------------------------
(* The three updates of state.json: read_json, a change of the copy, and   *)
(* write_json. record_version also fills in a missing stage.               *)
StageWritten_Inferred(update) ==
    IF update.stage # Keep THEN update.stage
    ELSE IF update.version # 0 THEN CatalogStage ELSE Content.stage

StageWritten(update) ==
    IF update.stage # Keep THEN update.stage
    ELSE IF update.version # 0 THEN StageNow ELSE Content.stage

ReadStateFile(c) ==
    /\ task[c].does = "read"
    /\ Becomes(c, [task[c] EXCEPT
          !.does = "truncate",
          !.stage = StageWritten(task[c]),
          !.version = IF task[c].version # 0 THEN task[c].version ELSE Content.version])
    /\ UNCHANGED <<state_file, versions, evidence, transitions>>

TruncateStateFile(c) ==
    /\ task[c].does = "truncate"
    /\ Becomes(c, [task[c] EXCEPT !.does = "write"])
    /\ UNCHANGED <<state_file, versions, evidence, transitions>>

WriteStateFile(c) ==
    /\ task[c].does = "write"
    /\ state_file' = [stage |-> task[c].stage, version |-> task[c].version]
    /\ Becomes(c, IF task[c].then = Unset THEN NoTask
                  ELSE [does |-> "drive", to |-> task[c].then])
    /\ UNCHANGED <<versions, evidence, transitions>>

(* The process dies; in the middle of write_json the file stays empty.     *)
Die(c) ==
    /\ task[c] # NoTask
    /\ state_file' = IF task[c].does = "write" THEN NoContent ELSE state_file
    /\ Becomes(c, NoTask)
    /\ UNCHANGED <<versions, evidence, transitions>>

RegistryInit ==
    /\ state_file = [stage |-> CatalogStage, version |-> 1]
    /\ versions = 1
    /\ evidence = {}
    /\ transitions = <<>>
    /\ task = [c \in RegistryClients |-> NoTask]
    /\ disturbed = FALSE

RegistryStep(c) ==
    \/ \E service \in RunServices, status \in {"PASS", "FAIL"} :
          RecordEvidence(c, service, status)
    \/ RecordVersion(c)
    \/ \E to \in Stages : Evaluate(c, to)
    \/ Drive(c) \/ MatchDecision(c) \/ AppendTransition(c)
    \/ ReadStateFile(c) \/ TruncateStateFile(c) \/ WriteStateFile(c)

RegistryNext ==
    \E c \in RegistryClients :
        \/ RegistryStep(c) /\ disturbed' = (disturbed \/ Cardinality(Updating') > 1)
        \/ Die(c) /\ disturbed' = (disturbed \/ c \in Updating)

RegistrySpec == RegistryInit /\ [][RegistryNext]_RegistryVars

-----------------------------------------------------------------------------
RegistryTypeOK ==
    /\ state_file \in [stage : Stages \cup {Unset}, version : 0..MaxVersions]
    /\ versions \in 1..MaxVersions
    /\ evidence \subseteq [stage : RunServices, version : 1..MaxVersions,
                           status : {"PASS", "FAIL"}]
    /\ transitions \in Seq([from : Stages, to : Stages, version : 1..MaxVersions])
    /\ task \in [RegistryClients -> Tasks]
    /\ disturbed \in BOOLEAN

(* Failed, missing, wrong-stage and old-version evidence cannot promote:   *)
(* every promotion on file left its stage on a PASS recorded for that      *)
(* stage and that version, however the processes overlap or die.           *)
PromotionsRestOnPass ==
    \A i \in DOMAIN transitions :
       Promotes(transitions[i].from, transitions[i].to)
          => Qualifying(transitions[i].from, transitions[i].version)

(* Until two updates of state.json overlap or one is cut off, a strategy   *)
(* at rest is in the stage of its last transition: evidence and new        *)
(* versions leave it there.                                                *)
StageIsLastTransition ==
    ~disturbed /\ Updating = {} =>
       StageNow = IF transitions = <<>> THEN CatalogStage ELSE transitions[Len(transitions)].to

(* Whatever is lost, state.json never names a stage that no transition on  *)
(* file has reached: the append comes first.                               *)
NeverAheadOfHistory ==
    state_file.stage \in {Unset, CatalogStage} \cup {transitions[i].to : i \in DOMAIN transitions}
=============================================================================
