---------------------------- MODULE ControlPlane ----------------------------
(* The PostgreSQL side of the SVOS platform for one strategy:              *)
(* db/control_plane.py, db/evidence_repository.py and the methods of       *)
(* svos/orchestration/service.py that call them. A client reads the stage, *)
(* collects evidence and commits in three sessions, and registers a report *)
(* and binds it as evidence in two, so other clients come in between; each *)
(* session is one transaction, and commit_transition locks the stage row.  *)
(* The strategy's version is set at bootstrap and has no later writer.     *)
EXTENDS LifecycleGraph, FiniteSets

CONSTANTS
    PlaneClients,       \* processes that use the platform
    BootStages,         \* stages infer_stage may give the strategy
    ReportedStages,     \* stages whose service records reports
    Documents,          \* what distinguishes the contents of two reports
    MaxRevision         \* bound: transitions committed

ASSUME PlaneAssumption ==
    /\ BootStages \subseteq Stages
    /\ ReportedStages \subseteq Stages
    /\ MaxRevision \in Nat

VARIABLES
    boot_stage,         \* the stage _bootstrap_pg seeded
    current_stage,      \* stage_state.current_stage
    opt_lock,           \* stage_state.opt_lock
    ledger,             \* gate_decision, stage_transition and outbox rows
    reports,            \* report_record rows
    bindings,           \* binding rows, active and QUALIFYING_REAL
    call                \* what each client is doing

PlaneVars == <<boot_stage, current_stage, opt_lock, ledger, reports, bindings, call>>

(* A report's id is made of its stage and the hash of its content.         *)
Reports == [stage : ReportedStages, status : {"PASS", "FAIL"}, document : Documents]

Idle == [does |-> "nothing"]

Calls ==
    {Idle}
      \cup [does : {"bind"}, report : Reports]
      \cup [does : {"collect", "commit"}, from : Stages, to : Stages,
            revision : Nat, evidence : SUBSET Reports]

-----------------------------------------------------------------------------
(* _pg_record_evidence: register_report, which finds the report again if   *)
(* its report_id exists, then bind_evidence. Every report and binding is   *)
(* QUALIFYING_REAL, whatever the report's status.                          *)
RegisterReport(c, r) ==
    /\ call[c] = Idle
    /\ reports' = reports \cup {r}
    /\ call' = [call EXCEPT ![c] = [does |-> "bind", report |-> r]]
    /\ UNCHANGED <<boot_stage, current_stage, opt_lock, ledger, bindings>>

BindEvidence(c) ==
    /\ call[c].does = "bind"
    /\ bindings' = bindings \cup {call[c].report}
    /\ call' = [call EXCEPT ![c] = Idle]
    /\ UNCHANGED <<boot_stage, current_stage, opt_lock, ledger, reports>>

(* _pg_audited_transition: the state is read, then _pg_collect_evidence_ids *)
(* looks for bindings of the stage that was read.                          *)
ReadStage(c, to) ==
    /\ call[c] = Idle
    /\ call' = [call EXCEPT ![c] = [does |-> "collect", from |-> current_stage, to |-> to,
                                    revision |-> opt_lock, evidence |-> {}]]
    /\ UNCHANGED <<boot_stage, current_stage, opt_lock, ledger, reports, bindings>>

BindingsOf(stage) == {r \in bindings : r.stage = stage}

CollectEvidence(c) ==
    /\ call[c].does = "collect"
    /\ call' = [call EXCEPT
          ![c].does = "commit",
          ![c].evidence = IF NeedsEvidence(call[c].from) THEN BindingsOf(call[c].from) ELSE {}]
    /\ UNCHANGED <<boot_stage, current_stage, opt_lock, ledger, reports, bindings>>

(* commit_transition: its three refusals.                                  *)
Current_StageOnly(command) == current_stage = command.from

Current(command) == opt_lock = command.revision /\ current_stage = command.from

Evidenced(command) ==
    NeedsEvidence(command.from) =>
       /\ command.evidence # {}
       /\ command.evidence \subseteq {r \in bindings : r.stage = command.from}

Commit_NoGraph(c) ==
    /\ call[c].does = "commit"
    /\ opt_lock < MaxRevision
    /\ Current(call[c])
    /\ Evidenced(call[c])
    /\ ledger' = Append(ledger, [from |-> call[c].from, to |-> call[c].to,
                                 from_revision |-> opt_lock, expected |-> call[c].revision,
                                 evidence |-> call[c].evidence])
    /\ current_stage' = call[c].to
    /\ opt_lock' = opt_lock + 1
    /\ call' = [call EXCEPT ![c] = Idle]
    /\ UNCHANGED <<boot_stage, reports, bindings>>

Commit(c) ==
    /\ call[c].does = "commit"
    /\ opt_lock < MaxRevision
    /\ CanMove(call[c].from, call[c].to)
    /\ Current(call[c])
    /\ Evidenced(call[c])
    /\ ledger' = Append(ledger, [from |-> call[c].from, to |-> call[c].to,
                                 from_revision |-> opt_lock, expected |-> call[c].revision,
                                 evidence |-> call[c].evidence])
    /\ current_stage' = call[c].to
    /\ opt_lock' = opt_lock + 1
    /\ call' = [call EXCEPT ![c] = Idle]
    /\ UNCHANGED <<boot_stage, reports, bindings>>

(* The commit is refused, or the client dies between two transactions.     *)
GiveUp(c) ==
    /\ call[c] # Idle
    /\ call' = [call EXCEPT ![c] = Idle]
    /\ UNCHANGED <<boot_stage, current_stage, opt_lock, ledger, reports, bindings>>

PlaneInit ==
    /\ boot_stage \in BootStages
    /\ current_stage = boot_stage
    /\ opt_lock = 0
    /\ ledger = <<>>
    /\ reports = {}
    /\ bindings = {}
    /\ call = [c \in PlaneClients |-> Idle]

PlaneNext ==
    \E c \in PlaneClients :
        \/ \E r \in Reports : RegisterReport(c, r)
        \/ BindEvidence(c)
        \/ \E to \in Stages : ReadStage(c, to)
        \/ CollectEvidence(c) \/ Commit(c) \/ GiveUp(c)

PlaneSpec == PlaneInit /\ [][PlaneNext]_PlaneVars

-----------------------------------------------------------------------------
PlaneTypeOK ==
    /\ boot_stage \in BootStages
    /\ current_stage \in Stages
    /\ opt_lock \in Nat
    /\ ledger \in Seq([from : Stages, to : Stages, from_revision : Nat,
                       expected : Nat, evidence : SUBSET Reports])
    /\ bindings \subseteq reports
    /\ reports \subseteq Reports
    /\ call \in [PlaneClients -> Calls]

(* The committed transitions are one unbroken chain that ends at the       *)
(* stage row, and each was decided on the very revision it replaced,       *)
(* whatever clients did between reading the row and committing.            *)
LedgerIsChain ==
    /\ opt_lock = Len(ledger)
    /\ current_stage = IF ledger = <<>> THEN boot_stage ELSE ledger[Len(ledger)].to
    /\ \A i \in DOMAIN ledger :
          /\ ledger[i].from = IF i = 1 THEN boot_stage ELSE ledger[i - 1].to
          /\ ledger[i].from_revision = i - 1
          /\ ledger[i].expected = i - 1

(* The stage row and the transitions implement StrategyLifecycle.          *)
Lifecycle == INSTANCE StrategyLifecycle
    WITH stage <- current_stage,
         history <- [i \in 1..Len(ledger) |-> <<ledger[i].from, ledger[i].to>>]

PlaneImplementsLifecycle == Lifecycle!LifecycleSpec

(* docs/svos/CORE_ARCHITECTURE.md: failed evidence cannot promote.         *)
FailedCannotPromote ==
    \A i \in DOMAIN ledger :
       NeedsEvidence(ledger[i].from) /\ ledger[i].to # "REFINEMENT"
          => \E r \in ledger[i].evidence : r.status = "PASS"
=============================================================================
