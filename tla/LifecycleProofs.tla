-------------------------- MODULE LifecycleProofs ---------------------------
(* The two records of a strategy's lifecycle: the ledger of the control    *)
(* plane and the files of the registry. They share the graph of stages and *)
(* no state.                                                               *)
EXTENDS ControlPlane, StrategyRegistry, SequenceTheorems, FiniteSetTheorems, TLAPS

-----------------------------------------------------------------------------
(* The committed transitions of ControlPlane form one chain, and the       *)
(* control plane implements StrategyLifecycle, for any number of clients.  *)

Entries == [from : Stages, to : Stages, from_revision : Nat, expected : Nat,
            evidence : SUBSET Reports]

(* The transitions without what they were decided on.                      *)
History(l) == [i \in 1..Len(l) |-> <<l[i].from, l[i].to>>]

(* A report is registered before it is bound.                              *)
BindsRegistered ==
    \A c \in PlaneClients : call[c].does = "bind" => call[c].report \in reports

PlaneInv == PlaneTypeOK /\ LedgerIsChain /\ BindsRegistered

LEMMA CallFields ==
    ASSUME NEW k \in Calls
    PROVE  /\ k.does = "bind" => k.report \in Reports
           /\ k.does = "collect" => k.from \in Stages /\ k.to \in Stages /\ k.revision \in Nat
           /\ k.does = "commit" => /\ k.from \in Stages /\ k.to \in Stages
                                   /\ k.revision \in Nat /\ k.evidence \in SUBSET Reports
  BY DEF Calls, Idle

LEMMA CallSet ==
    ASSUME NEW c \in PlaneClients, NEW k \in Calls, call \in [PlaneClients -> Calls]
    PROVE  [call EXCEPT ![c] = k] \in [PlaneClients -> Calls]
  OBVIOUS

LEMMA IdleIsCall == Idle \in Calls
  BY DEF Calls

-----------------------------------------------------------------------------
LEMMA PlaneInitInv == PlaneInit => PlaneInv
  <1> SUFFICES ASSUME PlaneInit PROVE PlaneInv
    OBVIOUS
  <1>1. ledger \in Seq(Entries) /\ Len(ledger) = 0
    BY DEF PlaneInit, Entries
  <1>2. call \in [PlaneClients -> Calls]
    BY IdleIsCall DEF PlaneInit
  <1>3. boot_stage \in BootStages /\ current_stage \in Stages
    BY PlaneAssumption DEF PlaneInit
  <1>4. PlaneTypeOK
    BY <1>1, <1>2, <1>3 DEF PlaneInit, PlaneTypeOK, Entries
  <1>5. LedgerIsChain
    BY DEF PlaneInit, LedgerIsChain
  <1>6. BindsRegistered
    BY DEF PlaneInit, BindsRegistered, Idle
  <1> QED
    BY <1>4, <1>5, <1>6 DEF PlaneInv

(* A commit appends one entry, decided on the row it replaces.             *)
LEMMA CommitExtends ==
    ASSUME PlaneInv, NEW c \in PlaneClients, Commit(c)
    PROVE  \E e \in Entries :
              /\ ledger' = Append(ledger, e)
              /\ e.from = current_stage /\ e.to = current_stage'
              /\ e.from_revision = opt_lock /\ e.expected = opt_lock
              /\ CanMove(e.from, e.to)
  <1> DEFINE e == [from |-> call[c].from, to |-> call[c].to, from_revision |-> opt_lock,
                   expected |-> call[c].revision, evidence |-> call[c].evidence]
  <1>1. call[c] \in Calls /\ call[c].does = "commit"
    BY DEF PlaneInv, PlaneTypeOK, Commit
  <1>2. e \in Entries
    BY <1>1, CallFields DEF Entries, PlaneInv, PlaneTypeOK
  <1>3. ledger' = Append(ledger, e) /\ current_stage' = e.to /\ CanMove(e.from, e.to)
    BY DEF Commit
  <1>4. e.from = current_stage /\ e.expected = opt_lock
    BY DEF Commit, Current
  <1> QED
    BY <1>2, <1>3, <1>4

LEMMA TypeStep == PlaneInv /\ [PlaneNext]_PlaneVars => PlaneTypeOK'
  <1> SUFFICES ASSUME PlaneInv, [PlaneNext]_PlaneVars PROVE PlaneTypeOK'
    OBVIOUS
  <1> USE DEF PlaneInv, PlaneTypeOK
  <1>1. ASSUME NEW c \in PlaneClients, NEW r \in Reports, RegisterReport(c, r)
        PROVE  PlaneTypeOK'
    <2>1. [does |-> "bind", report |-> r] \in Calls
      BY DEF Calls
    <2>2. call' \in [PlaneClients -> Calls]
      BY <1>1, <2>1, CallSet DEF RegisterReport
    <2> QED
      BY <1>1, <2>2 DEF RegisterReport
  <1>2. ASSUME NEW c \in PlaneClients, BindEvidence(c) PROVE PlaneTypeOK'
    <2>1. call' \in [PlaneClients -> Calls]
      BY <1>2, IdleIsCall, CallSet DEF BindEvidence
    <2> QED
      BY <1>2, <2>1 DEF BindEvidence, BindsRegistered
  <1>3. ASSUME NEW c \in PlaneClients, NEW to \in Stages, ReadStage(c, to)
        PROVE  PlaneTypeOK'
    <2>1. [does |-> "collect", from |-> current_stage, to |-> to,
           revision |-> opt_lock, evidence |-> {}] \in Calls
      BY DEF Calls
    <2>2. call' \in [PlaneClients -> Calls]
      BY <1>3, <2>1, CallSet DEF ReadStage
    <2> QED
      BY <1>3, <2>2 DEF ReadStage
  <1>4. ASSUME NEW c \in PlaneClients, CollectEvidence(c) PROVE PlaneTypeOK'
    <2> USE DEF CollectEvidence
    <2>1. PICK found \in SUBSET Reports :
             call' = [call EXCEPT ![c].does = "commit", ![c].evidence = found]
      BY <1>4 DEF BindingsOf
    <2>2. call[c] \in [does : {"collect", "commit"}, from : Stages, to : Stages,
                       revision : Nat, evidence : SUBSET Reports]
      BY <1>4 DEF Calls, Idle
    <2>3. [call[c] EXCEPT !.does = "commit", !.evidence = found] \in Calls
      BY <2>2 DEF Calls
    <2>4. call' = [call EXCEPT ![c] = [call[c] EXCEPT !.does = "commit", !.evidence = found]]
      BY <2>1
    <2>5. call' \in [PlaneClients -> Calls]
      BY <2>3, <2>4, CallSet
    <2> QED
      BY <1>4, <2>5
  <1>5. ASSUME NEW c \in PlaneClients, Commit(c) PROVE PlaneTypeOK'
    <2>1. PICK e \in Entries : ledger' = Append(ledger, e) /\ e.to = current_stage'
      BY <1>5, CommitExtends
    <2>2. ledger' \in Seq(Entries) /\ current_stage' \in Stages
      BY <2>1 DEF Entries
    <2>3. call' \in [PlaneClients -> Calls]
      BY <1>5, IdleIsCall, CallSet DEF Commit
    <2> QED
      BY <1>5, <2>2, <2>3 DEF Commit, Entries
  <1>6. ASSUME NEW c \in PlaneClients, GiveUp(c) PROVE PlaneTypeOK'
    <2>1. call' \in [PlaneClients -> Calls]
      BY <1>6, IdleIsCall, CallSet DEF GiveUp
    <2> QED
      BY <1>6, <2>1 DEF GiveUp
  <1>7. CASE UNCHANGED PlaneVars
    BY <1>7 DEF PlaneVars
  <1> QED
    BY <1>1, <1>2, <1>3, <1>4, <1>5, <1>6, <1>7 DEF PlaneNext

LEMMA ChainStep == PlaneInv /\ [PlaneNext]_PlaneVars => LedgerIsChain'
  <1> SUFFICES ASSUME PlaneInv, [PlaneNext]_PlaneVars PROVE LedgerIsChain'
    OBVIOUS
  <1>1. ASSUME NEW c \in PlaneClients, Commit(c) PROVE LedgerIsChain'
    <2>1. PICK e \in Entries : /\ ledger' = Append(ledger, e)
                               /\ e.from = current_stage /\ e.to = current_stage'
                               /\ e.from_revision = opt_lock /\ e.expected = opt_lock
      BY <1>1, CommitExtends
    <2>2. ledger \in Seq(Entries) /\ opt_lock' = opt_lock + 1 /\ boot_stage' = boot_stage
      BY <1>1 DEF Commit, PlaneInv, PlaneTypeOK, Entries
    <2>3. opt_lock' = Len(ledger') /\ current_stage' = ledger'[Len(ledger')].to /\ ledger' # <<>>
      BY <2>1, <2>2 DEF PlaneInv, LedgerIsChain
    <2>4. ASSUME NEW i \in DOMAIN ledger'
          PROVE  /\ ledger'[i].from = IF i = 1 THEN boot_stage' ELSE ledger'[i - 1].to
                 /\ ledger'[i].from_revision = i - 1
                 /\ ledger'[i].expected = i - 1
      <3>1. CASE i \in DOMAIN ledger
        BY <2>1, <2>2, <3>1 DEF PlaneInv, LedgerIsChain
      <3>2. CASE i = Len(ledger) + 1
        BY <2>1, <2>2, <3>2 DEF PlaneInv, LedgerIsChain
      <3> QED
        BY <2>1, <2>2, <2>4, <3>1, <3>2
    <2> QED
      BY <2>3, <2>4 DEF LedgerIsChain
  <1>2. ASSUME UNCHANGED <<boot_stage, current_stage, opt_lock, ledger>>
        PROVE  LedgerIsChain'
    BY <1>2 DEF PlaneInv, LedgerIsChain
  <1>3. CASE \E c \in PlaneClients : Commit(c)
    BY <1>1, <1>3
  <1>4. CASE ~(\E c \in PlaneClients : Commit(c))
    BY <1>2, <1>4 DEF PlaneNext, PlaneVars, RegisterReport, BindEvidence, ReadStage,
                      CollectEvidence, GiveUp
  <1> QED
    BY <1>3, <1>4

LEMMA BindStep == PlaneInv /\ [PlaneNext]_PlaneVars => BindsRegistered'
  <1> SUFFICES ASSUME PlaneInv, [PlaneNext]_PlaneVars, NEW d \in PlaneClients,
                      call'[d].does = "bind"
               PROVE  call'[d].report \in reports'
    BY DEF BindsRegistered
  <1> USE DEF PlaneInv, PlaneTypeOK, BindsRegistered
  <1>1. ASSUME NEW c \in PlaneClients, NEW r \in Reports, RegisterReport(c, r)
        PROVE  call'[d].report \in reports'
    BY <1>1 DEF RegisterReport
  <1>2. ASSUME NEW c \in PlaneClients, BindEvidence(c) PROVE call'[d].report \in reports'
    BY <1>2 DEF BindEvidence, Idle
  <1>3. ASSUME NEW c \in PlaneClients, NEW to \in Stages, ReadStage(c, to)
        PROVE  call'[d].report \in reports'
    BY <1>3 DEF ReadStage
  <1>4. ASSUME NEW c \in PlaneClients, CollectEvidence(c) PROVE call'[d].report \in reports'
    <2>1. d # c
      BY <1>4 DEF CollectEvidence, Calls, Idle
    <2> QED
      BY <1>4, <2>1 DEF CollectEvidence
  <1>5. ASSUME NEW c \in PlaneClients, Commit(c) PROVE call'[d].report \in reports'
    BY <1>5 DEF Commit, Idle
  <1>6. ASSUME NEW c \in PlaneClients, GiveUp(c) PROVE call'[d].report \in reports'
    BY <1>6 DEF GiveUp, Idle
  <1>7. CASE UNCHANGED PlaneVars
    BY <1>7 DEF PlaneVars
  <1> QED
    BY <1>1, <1>2, <1>3, <1>4, <1>5, <1>6, <1>7 DEF PlaneNext

LEMMA PlaneInvStep == PlaneInv /\ [PlaneNext]_PlaneVars => PlaneInv'
  BY TypeStep, ChainStep, BindStep DEF PlaneInv

(* The invariant of the database: its rows are well formed, and the ledger *)
(* explains the stage row.                                                 *)
THEOREM PlaneInvHolds == PlaneSpec => []PlaneInv
  BY PlaneInitInv, PlaneInvStep, PTL DEF PlaneSpec

(* The rows and the calls of every client are what their types say.        *)
THEOREM PlaneTypeCorrect == PlaneSpec => []PlaneTypeOK
  <1>1. PlaneInv => PlaneTypeOK
    BY DEF PlaneInv
  <1> QED
    BY <1>1, PlaneInvHolds, PTL

(* However clients interleave, each transition was decided on the revision *)
(* it replaced, and starts where the one before it ended.                  *)
THEOREM ChainUnbroken == PlaneSpec => []LedgerIsChain
  <1>1. PlaneInv => LedgerIsChain
    BY DEF PlaneInv
  <1> QED
    BY <1>1, PlaneInvHolds, PTL

-----------------------------------------------------------------------------
LEMMA HistoryOfAppend ==
    ASSUME NEW l \in Seq(Entries), NEW e \in Entries
    PROVE  History(Append(l, e)) = Append(History(l), <<e.from, e.to>>)
  <1> DEFINE m == Append(l, e)
             h == History(l)
             pair == <<e.from, e.to>>
  <1>1. Len(m) = Len(l) + 1 /\ Len(l) \in Nat /\ m[Len(l) + 1] = e
    OBVIOUS
  <1>2. \A i \in 1..Len(l) : m[i] = l[i]
    OBVIOUS
  <1>3. h \in Seq(Stages \X Stages) /\ Len(h) = Len(l)
    <2>1. h = [i \in 1..Len(l) |-> <<l[i].from, l[i].to>>]
      BY DEF History
    <2>2. ASSUME NEW i \in 1..Len(l) PROVE <<l[i].from, l[i].to>> \in Stages \X Stages
      <3>1. l[i] \in Entries
        OBVIOUS
      <3> QED
        BY <3>1 DEF Entries
    <2>3. h \in Seq(Stages \X Stages)
      BY <1>1, <2>1, <2>2, IsASeq
    <2> HIDE DEF h
    <2> QED
      BY <1>1, <2>1, <2>3
  <1>4. Append(h, pair) = [i \in 1..(Len(l) + 1) |-> IF i = Len(l) + 1 THEN pair ELSE h[i]]
    BY <1>1, <1>3
  <1>5. ASSUME NEW i \in 1..(Len(l) + 1)
        PROVE  <<m[i].from, m[i].to>> = IF i = Len(l) + 1 THEN pair ELSE h[i]
    BY <1>1, <1>2, <1>5 DEF History
  <1>6. History(m) = [i \in 1..(Len(l) + 1) |-> <<m[i].from, m[i].to>>]
    BY <1>1 DEF History
  <1> QED
    BY <1>4, <1>5, <1>6

LEMMA LifecycleStep ==
    PlaneInv /\ [PlaneNext]_PlaneVars
       => [Lifecycle!LifecycleNext]_(Lifecycle!LifecycleVars)
  <1> SUFFICES ASSUME PlaneInv, [PlaneNext]_PlaneVars
               PROVE  [Lifecycle!LifecycleNext]_(Lifecycle!LifecycleVars)
    OBVIOUS
  <1>1. ASSUME NEW c \in PlaneClients, Commit(c) PROVE Lifecycle!LifecycleNext
    <2>1. PICK e \in Entries : /\ ledger' = Append(ledger, e)
                               /\ e.from = current_stage /\ e.to = current_stage'
                               /\ CanMove(e.from, e.to)
      BY <1>1, CommitExtends
    <2>2. ledger \in Seq(Entries) /\ e.to \in Stages
      BY DEF PlaneInv, PlaneTypeOK, Entries
    <2>3. History(ledger') = Append(History(ledger), <<current_stage, e.to>>)
      BY <2>1, <2>2, HistoryOfAppend
    <2>4. Lifecycle!Move(e.to)
      BY <2>1, <2>3 DEF Lifecycle!Move, Lifecycle!CanMove, Lifecycle!Allowed,
                        Lifecycle!Order, Lifecycle!Remediations, CanMove, Allowed,
                        Order, Remediations, History
    <2> QED
      BY <2>2, <2>4 DEF Lifecycle!LifecycleNext, Lifecycle!Stages, Stages
  <1>2. CASE \E c \in PlaneClients : Commit(c)
    BY <1>1, <1>2
  <1>3. CASE ~(\E c \in PlaneClients : Commit(c))
    <2>1. UNCHANGED <<current_stage, ledger>>
      BY <1>3 DEF PlaneNext, PlaneVars, RegisterReport, BindEvidence, ReadStage,
                  CollectEvidence, GiveUp
    <2> QED
      BY <2>1 DEF Lifecycle!LifecycleVars
  <1> QED
    BY <1>2, <1>3

(* The control plane implements StrategyLifecycle: every committed step is *)
(* a move along the graph of manager.py, and the history only grows.       *)
THEOREM PlaneRefinesLifecycle == PlaneSpec => PlaneImplementsLifecycle
  <1>1. PlaneInit => Lifecycle!LifecycleInit
    BY PlaneAssumption DEF PlaneInit, Lifecycle!LifecycleInit, Lifecycle!Stages, Stages
  <1>2. PlaneSpec => Lifecycle!LifecycleSpec
    BY <1>1, LifecycleStep, PlaneInvHolds, PTL DEF PlaneSpec, Lifecycle!LifecycleSpec
  <1> QED
    BY <1>2 DEF PlaneImplementsLifecycle

-----------------------------------------------------------------------------
(* No promotion on file without a PASS of its stage and version, and no    *)
(* stage in state.json that no transition reached, for any number of       *)
(* processes, versions and verdicts. An allowed decision travels in a task *)
(* between the gate and the registry, and a stage between the read and the *)
(* write of state.json: the invariant says what these may carry.           *)

Reached == {Unset, CatalogStage} \cup {transitions[i].to : i \in DOMAIN transitions}

(* A decision waiting to be applied had its evidence.                      *)
DecisionsRestOnPass ==
    \A c \in RegistryClients :
       task[c].does \in {"apply", "append"} /\ Promotes(task[c].from, task[c].to)
          => Qualifying(task[c].from, task[c].version)

(* A stage waiting to be written has been reached.                         *)
WritesReached ==
    \A c \in RegistryClients :
       /\ task[c].does = "read" => task[c].stage \in Reached \cup {Keep}
       /\ task[c].does \in {"truncate", "write"} => task[c].stage \in Reached

TransitionSet == [from : Stages, to : Stages, version : 1..MaxVersions]

RegistryInv ==
    /\ RegistryTypeOK
    /\ PromotionsRestOnPass /\ DecisionsRestOnPass
    /\ NeverAheadOfHistory /\ WritesReached

LEMMA UnsetIsNoStage == Unset \notin Stages /\ Keep \notin Stages /\ Unset # Keep
  BY DEF Unset, Keep, Stages

LEMMA TaskFields ==
    ASSUME NEW t \in Tasks
    PROVE  /\ t.does \in {"read", "truncate", "write"} =>
                 t \in [does : {"read", "truncate", "write"}, stage : Stages \cup {Unset, Keep},
                        version : 0..MaxVersions, then : Stages \cup {Unset}]
           /\ t.does = "drive" => t \in [does : {"drive"}, to : Stages]
           /\ t.does \in {"apply", "append"} =>
                 t \in [does : {"apply", "append"}, from : Stages, to : Stages,
                        version : 1..MaxVersions]
  BY DEF Tasks, NoTask

LEMMA TaskSet ==
    ASSUME NEW c \in RegistryClients, NEW t \in Tasks, task \in [RegistryClients -> Tasks],
           Becomes(c, t)
    PROVE  /\ task' \in [RegistryClients -> Tasks]
           /\ task'[c] = t
           /\ \A d \in RegistryClients \ {c} : task'[d] = task[d]
  BY DEF Becomes

LEMMA NoTaskIsTask == NoTask \in Tasks
  BY DEF Tasks

(* What a reader of the files finds is a stage and a version.              *)
LEMMA NowIsKnown ==
    ASSUME RegistryTypeOK
    PROVE  /\ StageNow \in Stages /\ VersionNow \in 1..MaxVersions
           /\ Content \in [stage : Stages \cup {Unset}, version : 0..MaxVersions]
           /\ NeverAheadOfHistory => StageNow \in Reached /\ Content.stage \in Reached
  <1>1. NoContent \in [stage : Stages \cup {Unset}, version : 0..MaxVersions]
    BY RegistryAssumption DEF NoContent
  <1>2. Content \in [stage : Stages \cup {Unset}, version : 0..MaxVersions]
    BY <1>1 DEF Content, RegistryTypeOK
  <1>3. StageNow \in Stages
    BY <1>2, RegistryAssumption DEF StageNow
  <1>4. VersionNow \in 1..MaxVersions
    BY <1>2 DEF VersionNow, RegistryTypeOK
  <1>5. ASSUME NeverAheadOfHistory PROVE StageNow \in Reached /\ Content.stage \in Reached
    <2>1. Content.stage \in Reached
      BY <1>5 DEF Content, NoContent, NeverAheadOfHistory, Reached
    <2> QED
      BY <2>1 DEF StageNow, Reached
  <1> QED
    BY <1>2, <1>3, <1>4, <1>5

LEMMA UpdateIsTask ==
    ASSUME NEW stage \in Stages \cup {Unset, Keep}, NEW version \in 0..MaxVersions,
           NEW then \in Stages \cup {Unset}
    PROVE  /\ Update(stage, version, then) \in Tasks
           /\ Update(stage, version, then).does = "read"
           /\ Update(stage, version, then).stage = stage
  BY DEF Update, Tasks

LEMMA DecisionIsTask ==
    ASSUME RegistryTypeOK, NEW to \in Stages
    PROVE  Decision(to) \in Tasks
  BY NowIsKnown DEF Decision, Tasks

LEMMA DriveToIsStage ==
    ASSUME NEW service \in RunServices, NEW status, NEW stage
    PROVE  DriveTo(service, status, stage) \in Stages \cup {Unset}
  <1>1. service \in Stages /\ "REFINEMENT" \in Stages
    BY RegistryAssumption DEF Stages
  <1> QED
    BY <1>1 DEF DriveTo

-----------------------------------------------------------------------------
LEMMA RegistryInitInv == RegistryInit => RegistryInv
  <1> SUFFICES ASSUME RegistryInit PROVE RegistryInv
    OBVIOUS
  <1> USE DEF RegistryInit
  <1>1. RegistryTypeOK
    <2>1. state_file \in [stage : Stages \cup {Unset}, version : 0..MaxVersions]
      BY RegistryAssumption
    <2>2. transitions \in Seq([from : Stages, to : Stages, version : 1..MaxVersions])
      OBVIOUS
    <2>3. versions \in 1..MaxVersions
      BY RegistryAssumption
    <2>4. task \in [RegistryClients -> Tasks]
      BY NoTaskIsTask
    <2> QED
      BY <2>1, <2>2, <2>3, <2>4 DEF RegistryTypeOK
  <1>2. PromotionsRestOnPass /\ DecisionsRestOnPass
    BY DEF PromotionsRestOnPass, DecisionsRestOnPass, NoTask
  <1>3. NeverAheadOfHistory /\ WritesReached
    BY DEF NeverAheadOfHistory, WritesReached, NoTask, Reached
  <1> QED
    BY <1>1, <1>2, <1>3 DEF RegistryInv

(* A step in which one process takes up a new task, evidence is only added *)
(* and no transition made keeps the invariant, if the task may be carried. *)
LEMMA NewTask ==
    ASSUME RegistryInv, RegistryTypeOK', NEW c \in RegistryClients, NEW t \in Tasks,
           Becomes(c, t),
           evidence \subseteq evidence', transitions' = transitions,
           state_file'.stage \in Reached,
           t.does \in {"apply", "append"} /\ Promotes(t.from, t.to)
              => Qualifying(t.from, t.version),
           t.does = "read" => t.stage \in Reached \cup {Keep},
           t.does \in {"truncate", "write"} => t.stage \in Reached
    PROVE  RegistryInv'
  <1>1. /\ task'[c] = t
        /\ \A d \in RegistryClients \ {c} : task'[d] = task[d]
    BY TaskSet DEF RegistryInv, RegistryTypeOK
  <1>2. \A stage, version : Qualifying(stage, version) => Qualifying(stage, version)'
    BY DEF Qualifying
  <1>3. Reached' = Reached
    BY DEF Reached
  <1>4. PromotionsRestOnPass'
    BY <1>2 DEF RegistryInv, PromotionsRestOnPass
  <1>5. DecisionsRestOnPass'
    BY <1>1, <1>2 DEF RegistryInv, DecisionsRestOnPass
  <1>6. NeverAheadOfHistory'
    BY DEF NeverAheadOfHistory, Reached
  <1>7. WritesReached'
    BY <1>1, <1>3 DEF RegistryInv, WritesReached
  <1> QED
    BY <1>4, <1>5, <1>6, <1>7 DEF RegistryInv

-----------------------------------------------------------------------------
(* Steps that change nothing but the task, and the files named.            *)
LEMMA RecordsKeep ==
    ASSUME RegistryInv, NEW c \in RegistryClients,
           NEW service \in RunServices, NEW status \in {"PASS", "FAIL"},
           RecordEvidence(c, service, status), disturbed' \in BOOLEAN
    PROVE  RegistryInv'
  <1> DEFINE t == Update(Keep, 0, DriveTo(service, status, StageNow))
  <1>1. t \in Tasks /\ t.does = "read" /\ t.stage = Keep
    BY UpdateIsTask, DriveToIsStage, RegistryAssumption
  <1>2. Becomes(c, t)
    BY DEF RecordEvidence
  <1> HIDE DEF t
  <1>3. RegistryTypeOK'
    BY <1>1, <1>2, TaskSet, NowIsKnown DEF RegistryInv, RegistryTypeOK, RecordEvidence
  <1> QED
    BY <1>1, <1>2, <1>3, NewTask DEF RegistryInv, RecordEvidence, NeverAheadOfHistory, Reached

LEMMA VersionsKeep ==
    ASSUME RegistryInv, NEW c \in RegistryClients, RecordVersion(c), disturbed' \in BOOLEAN
    PROVE  RegistryInv'
  <1> DEFINE t == Update(Keep, versions + 1, Unset)
  <1>1. versions + 1 \in 1..MaxVersions
    BY RegistryAssumption DEF RecordVersion, RegistryInv, RegistryTypeOK
  <1>2. t \in Tasks /\ t.does = "read" /\ t.stage = Keep
    BY <1>1, UpdateIsTask
  <1>3. Becomes(c, t)
    BY DEF RecordVersion
  <1> HIDE DEF t
  <1>4. RegistryTypeOK'
    BY <1>1, <1>2, <1>3, TaskSet DEF RegistryInv, RegistryTypeOK, RecordVersion
  <1> QED
    BY <1>2, <1>3, <1>4, NewTask DEF RegistryInv, RecordVersion, NeverAheadOfHistory, Reached

(* The gate lets a decision go only with the evidence it needs.            *)
LEMMA DecisionKeeps ==
    ASSUME RegistryInv, NEW c \in RegistryClients, NEW to \in Stages,
           GateAllows(to), Becomes(c, Decision(to)), disturbed' \in BOOLEAN,
           UNCHANGED <<state_file, versions, evidence, transitions>>
    PROVE  RegistryInv'
  <1>1. Decision(to) \in Tasks
    BY DecisionIsTask DEF RegistryInv
  <1>2. RegistryTypeOK'
    BY <1>1, TaskSet DEF RegistryInv, RegistryTypeOK
  <1>3. /\ Decision(to).does = "apply"
        /\ Promotes(Decision(to).from, Decision(to).to)
              => Qualifying(Decision(to).from, Decision(to).version)
    BY DEF Decision, GateAllows
  <1> HIDE DEF Decision
  <1> QED
    BY <1>1, <1>2, <1>3, NewTask DEF RegistryInv, NeverAheadOfHistory, Reached

LEMMA RestKeeps ==
    ASSUME RegistryInv, NEW c \in RegistryClients, Becomes(c, NoTask), disturbed' \in BOOLEAN,
           state_file' \in {state_file, NoContent},
           UNCHANGED <<versions, evidence, transitions>>
    PROVE  RegistryInv'
  <1>1. NoTask \in Tasks /\ NoTask.does = "nothing"
    BY NoTaskIsTask DEF NoTask
  <1>2. state_file' \in [stage : Stages \cup {Unset}, version : 0..MaxVersions]
    BY RegistryAssumption DEF NoContent, RegistryInv, RegistryTypeOK
  <1>3. RegistryTypeOK'
    BY <1>1, <1>2, TaskSet DEF RegistryInv, RegistryTypeOK
  <1>4. state_file'.stage \in Reached
    BY DEF NoContent, RegistryInv, NeverAheadOfHistory, Reached
  <1> QED
    BY <1>1, <1>3, <1>4, NewTask

LEMMA DriveKeeps ==
    ASSUME RegistryInv, NEW c \in RegistryClients, Drive(c), disturbed' \in BOOLEAN
    PROVE  RegistryInv'
  <1>1. task[c].to \in Stages
    BY TaskFields DEF Drive, RegistryInv, RegistryTypeOK
  <1>2. CASE GateAllows(task[c].to)
    BY <1>1, <1>2, DecisionKeeps DEF Drive
  <1>3. CASE ~GateAllows(task[c].to)
    BY <1>3, RestKeeps DEF Drive
  <1> QED
    BY <1>2, <1>3

LEMMA MatchKeeps ==
    ASSUME RegistryInv, NEW c \in RegistryClients, MatchDecision(c), disturbed' \in BOOLEAN
    PROVE  RegistryInv'
  <1>1. CASE ~Matches(task[c])
    BY <1>1, RestKeeps DEF MatchDecision
  <1>2. CASE Matches(task[c])
    <2> DEFINE t == [task[c] EXCEPT !.does = "append"]
    <2>1. task[c] \in [does : {"apply", "append"}, from : Stages, to : Stages,
                       version : 1..MaxVersions]
      BY TaskFields DEF MatchDecision, RegistryInv, RegistryTypeOK
    <2>2. /\ t \in Tasks /\ t.does = "append"
          /\ t.from = task[c].from /\ t.to = task[c].to /\ t.version = task[c].version
      BY <2>1 DEF Tasks
    <2>3. Becomes(c, t)
      BY <1>2 DEF MatchDecision
    <2>4. Promotes(t.from, t.to) => Qualifying(t.from, t.version)
      BY <2>2 DEF MatchDecision, RegistryInv, DecisionsRestOnPass
    <2> HIDE DEF t
    <2>5. RegistryTypeOK'
      BY <2>2, <2>3, TaskSet DEF RegistryInv, RegistryTypeOK, MatchDecision
    <2> QED
      BY <2>2, <2>3, <2>4, <2>5, NewTask
         DEF RegistryInv, MatchDecision, NeverAheadOfHistory, Reached
  <1> QED
    BY <1>1, <1>2

(* A transition on file rests on the evidence its decision had, and the    *)
(* stage it is going to be written with has now been reached.              *)
LEMMA AppendKeeps ==
    ASSUME RegistryInv, NEW c \in RegistryClients, AppendTransition(c), disturbed' \in BOOLEAN
    PROVE  RegistryInv'
  <1> DEFINE move == [from |-> task[c].from, to |-> task[c].to, version |-> task[c].version]
             t == Update(task[c].to, 0, Unset)
  <1>1. task[c] \in [does : {"apply", "append"}, from : Stages, to : Stages,
                     version : 1..MaxVersions]
    BY TaskFields DEF AppendTransition, RegistryInv, RegistryTypeOK
  <1>2. move \in TransitionSet
    BY <1>1 DEF TransitionSet
  <1>3. t \in Tasks /\ t.does = "read" /\ t.stage = task[c].to
    BY <1>1, UpdateIsTask, RegistryAssumption
  <1>4. transitions' = Append(transitions, move) /\ Becomes(c, t)
    BY DEF AppendTransition
  <1>5. Promotes(move.from, move.to) => Qualifying(move.from, move.version)
    BY DEF RegistryInv, DecisionsRestOnPass, AppendTransition
  <1>6. /\ transitions \in Seq(TransitionSet) /\ transitions' \in Seq(TransitionSet)
        /\ \A i \in DOMAIN transitions' :
              transitions'[i] = IF i = Len(transitions) + 1 THEN move ELSE transitions[i]
        /\ DOMAIN transitions' = DOMAIN transitions \cup {Len(transitions) + 1}
    <2> HIDE DEF move
    <2> QED
      BY <1>2, <1>4 DEF TransitionSet, RegistryInv, RegistryTypeOK
  <1>7. Reached' = Reached \cup {task[c].to}
    BY <1>6 DEF Reached
  <1>8. /\ task'[c] = t
        /\ \A d \in RegistryClients \ {c} : task'[d] = task[d]
        /\ task' \in [RegistryClients -> Tasks]
    BY <1>3, <1>4, TaskSet DEF RegistryInv, RegistryTypeOK
  <1>9. UNCHANGED <<state_file, versions, evidence>>
    BY DEF AppendTransition
  <1> HIDE DEF t
  <1>10. RegistryTypeOK'
    BY <1>6, <1>8, <1>9 DEF RegistryInv, RegistryTypeOK, TransitionSet
  <1>11. \A stage, version : Qualifying(stage, version)' <=> Qualifying(stage, version)
    BY <1>9 DEF Qualifying
  <1>12. PromotionsRestOnPass'
    BY <1>5, <1>6, <1>11 DEF RegistryInv, PromotionsRestOnPass
  <1>13. DecisionsRestOnPass'
    BY <1>3, <1>8, <1>11 DEF RegistryInv, DecisionsRestOnPass
  <1>14. NeverAheadOfHistory'
    BY <1>7, <1>9 DEF RegistryInv, NeverAheadOfHistory, Reached
  <1>15. WritesReached'
    BY <1>3, <1>7, <1>8 DEF RegistryInv, WritesReached
  <1> QED
    BY <1>10, <1>12, <1>13, <1>14, <1>15 DEF RegistryInv

-----------------------------------------------------------------------------
(* The update of state.json: what is read, carried and written is reached. *)
LEMMA ReadKeeps ==
    ASSUME RegistryInv, NEW c \in RegistryClients, ReadStateFile(c), disturbed' \in BOOLEAN
    PROVE  RegistryInv'
  <1> DEFINE stage == StageWritten(task[c])
             version == IF task[c].version # 0 THEN task[c].version ELSE Content.version
             t == [task[c] EXCEPT !.does = "truncate", !.stage = stage, !.version = version]
  <1>1. /\ task[c].does = "read"
        /\ task[c] \in [does : {"read", "truncate", "write"}, stage : Stages \cup {Unset, Keep},
                       version : 0..MaxVersions, then : Stages \cup {Unset}]
        /\ task[c].stage \in Reached \cup {Keep}
    BY TaskFields DEF ReadStateFile, RegistryInv, RegistryTypeOK, WritesReached
  <1>2. stage \in Reached /\ stage \in Stages \cup {Unset}
    BY <1>1, NowIsKnown DEF StageWritten, RegistryInv
  <1>3. version \in 0..MaxVersions
    BY <1>1, NowIsKnown DEF RegistryInv
  <1> HIDE DEF stage, version
  <1>4. t \in Tasks /\ t.does = "truncate" /\ t.stage = stage
    BY <1>1, <1>2, <1>3 DEF Tasks
  <1>5. Becomes(c, t)
    BY DEF ReadStateFile, stage, version
  <1> HIDE DEF t
  <1>6. RegistryTypeOK'
    BY <1>4, <1>5, TaskSet DEF RegistryInv, RegistryTypeOK, ReadStateFile
  <1> QED
    BY <1>2, <1>4, <1>5, <1>6, NewTask
       DEF RegistryInv, ReadStateFile, NeverAheadOfHistory, Reached

LEMMA TruncateKeeps ==
    ASSUME RegistryInv, NEW c \in RegistryClients, TruncateStateFile(c), disturbed' \in BOOLEAN
    PROVE  RegistryInv'
  <1> DEFINE t == [task[c] EXCEPT !.does = "write"]
  <1>1. /\ task[c].does = "truncate"
        /\ task[c] \in [does : {"read", "truncate", "write"}, stage : Stages \cup {Unset, Keep},
                       version : 0..MaxVersions, then : Stages \cup {Unset}]
        /\ task[c].stage \in Reached
    BY TaskFields DEF TruncateStateFile, RegistryInv, RegistryTypeOK, WritesReached
  <1>2. t \in Tasks /\ t.does = "write" /\ t.stage \in Reached
    BY <1>1 DEF Tasks
  <1>3. Becomes(c, t)
    BY DEF TruncateStateFile
  <1> HIDE DEF t
  <1>4. RegistryTypeOK'
    BY <1>2, <1>3, TaskSet DEF RegistryInv, RegistryTypeOK, TruncateStateFile
  <1> QED
    BY <1>2, <1>3, <1>4, NewTask
       DEF RegistryInv, TruncateStateFile, NeverAheadOfHistory, Reached

LEMMA WriteKeeps ==
    ASSUME RegistryInv, NEW c \in RegistryClients, WriteStateFile(c), disturbed' \in BOOLEAN
    PROVE  RegistryInv'
  <1> DEFINE t == IF task[c].then = Unset THEN NoTask ELSE [does |-> "drive", to |-> task[c].then]
  <1>1. /\ task[c].does = "write"
        /\ task[c] \in [does : {"read", "truncate", "write"}, stage : Stages \cup {Unset, Keep},
                       version : 0..MaxVersions, then : Stages \cup {Unset}]
        /\ task[c].stage \in Reached
    BY TaskFields DEF WriteStateFile, RegistryInv, RegistryTypeOK, WritesReached
  <1>2. t \in Tasks /\ t.does \in {"nothing", "drive"}
    BY <1>1, NoTaskIsTask DEF Tasks, NoTask
  <1>3. Becomes(c, t)
    BY DEF WriteStateFile
  <1> HIDE DEF t
  <1>4. state_file' = [stage |-> task[c].stage, version |-> task[c].version]
    BY DEF WriteStateFile
  <1>5. state_file' \in [stage : Stages \cup {Unset}, version : 0..MaxVersions]
    <2>1. Reached \subseteq Stages \cup {Unset}
      <3>1. \A i \in DOMAIN transitions : transitions[i].to \in Stages
        <4>1. transitions \in Seq(TransitionSet)
          BY DEF RegistryInv, RegistryTypeOK, TransitionSet
        <4>2. \A i \in DOMAIN transitions : transitions[i] \in TransitionSet
          BY <4>1
        <4> QED
          BY <4>2 DEF TransitionSet
      <3> QED
        BY <3>1, RegistryAssumption DEF Reached
    <2> QED
      BY <1>1, <1>4, <2>1
  <1>6. RegistryTypeOK'
    BY <1>2, <1>3, <1>5, TaskSet DEF RegistryInv, RegistryTypeOK, WriteStateFile
  <1> QED
    BY <1>1, <1>2, <1>3, <1>4, <1>6, NewTask DEF WriteStateFile

-----------------------------------------------------------------------------
LEMMA RegistryKeepsInv == RegistryInv /\ [RegistryNext]_RegistryVars => RegistryInv'
  <1> SUFFICES ASSUME RegistryInv, [RegistryNext]_RegistryVars PROVE RegistryInv'
    OBVIOUS
  <1>1. ASSUME NEW c \in RegistryClients, RegistryStep(c), disturbed' \in BOOLEAN
        PROVE  RegistryInv'
    <2>1. ASSUME NEW service \in RunServices, NEW status \in {"PASS", "FAIL"},
                 RecordEvidence(c, service, status)
          PROVE  RegistryInv'
      BY <1>1, <2>1, RecordsKeep
    <2>2. ASSUME NEW to \in Stages, Evaluate(c, to) PROVE RegistryInv'
      BY <1>1, <2>2, DecisionKeeps DEF Evaluate
    <2> QED
      BY <1>1, <2>1, <2>2, VersionsKeep, DriveKeeps, MatchKeeps, AppendKeeps, ReadKeeps,
         TruncateKeeps, WriteKeeps DEF RegistryStep
  <1>2. ASSUME NEW c \in RegistryClients, Die(c), disturbed' \in BOOLEAN PROVE RegistryInv'
    BY <1>2, RestKeeps DEF Die
  <1>3. CASE UNCHANGED RegistryVars
    BY <1>3 DEF RegistryVars, RegistryInv, RegistryTypeOK, PromotionsRestOnPass, Qualifying,
                DecisionsRestOnPass, NeverAheadOfHistory, WritesReached, Reached
  <1>4. ASSUME NEW c \in RegistryClients, disturbed' = (disturbed \/ Cardinality(Updating') > 1)
        PROVE  disturbed' \in BOOLEAN
    BY <1>4
  <1>5. ASSUME NEW c \in RegistryClients, disturbed' = (disturbed \/ c \in Updating)
        PROVE  disturbed' \in BOOLEAN
    BY <1>5
  <1> QED
    BY <1>1, <1>2, <1>3, <1>4, <1>5 DEF RegistryNext

(* The invariant: types, and what tasks may carry.                         *)
THEOREM RegistryInvHolds == RegistrySpec => []RegistryInv
  BY RegistryInitInv, RegistryKeepsInv, PTL DEF RegistrySpec

(* The files and the tasks of every process are what their types say.      *)
THEOREM RegistryTypeCorrect == RegistrySpec => []RegistryTypeOK
  <1>1. RegistryInv => RegistryTypeOK
    BY DEF RegistryInv
  <1> QED
    BY <1>1, RegistryInvHolds, PTL

(* Every promotion on file rests on a PASS of its stage and version.       *)
THEOREM PromotedOnPass == RegistrySpec => []PromotionsRestOnPass
  <1>1. RegistryInv => PromotionsRestOnPass
    BY DEF RegistryInv
  <1> QED
    BY <1>1, RegistryInvHolds, PTL

(* state.json names no stage that no transition on file has reached.       *)
THEOREM HistoryComesFirst == RegistrySpec => []NeverAheadOfHistory
  <1>1. RegistryInv => NeverAheadOfHistory
    BY DEF RegistryInv
  <1> QED
    BY <1>1, RegistryInvHolds, PTL

-----------------------------------------------------------------------------
(* The stage on file while no two updates overlap and none is cut off.     *)
LastStage == IF transitions = <<>> THEN CatalogStage ELSE transitions[Len(transitions)].to

(* One update at a time, which writes the stage of the last transition.    *)
StageInStep ==
    /\ \A c, d \in Updating : c = d
    /\ Updating = {} => state_file.stage = LastStage
    /\ \A c \in Updating :
          IF task[c].does = "read" /\ task[c].stage = Keep
          THEN state_file.stage = LastStage
          ELSE task[c].stage = LastStage

UndisturbedInv == IsFiniteSet(Updating) /\ (~disturbed => StageInStep)

LEMMA LastIsStage == ASSUME RegistryTypeOK PROVE LastStage \in Stages
<1>1. transitions \in Seq(TransitionSet)
  BY DEF RegistryTypeOK, TransitionSet
<1>2. CASE transitions # <<>>
  <2>1. Len(transitions) \in DOMAIN transitions
    BY <1>1, <1>2
  <2>2. transitions[Len(transitions)] \in TransitionSet
    BY <1>1, <2>1
  <2> QED
    BY <1>2, <2>2 DEF LastStage, TransitionSet
<1> QED
  BY <1>2, RegistryAssumption DEF LastStage

(* Whoever moves, the others' tasks stay; overlapping updates are noticed. *)
LEMMA OneMoves ==
    ASSUME RegistryTypeOK, IsFiniteSet(Updating), NEW c \in RegistryClients, NEW t, Becomes(c, t)
    PROVE  /\ task'[c] = t
           /\ \A d \in RegistryClients \ {c} : task'[d] = task[d]
           /\ Updating' \subseteq Updating \cup {c} /\ Updating \subseteq Updating' \cup {c}
           /\ IsFiniteSet(Updating')
           /\ Cardinality(Updating') > 1 \/ \A d, e \in Updating' : d = e
<1>1. task'[c] = t /\ \A d \in RegistryClients \ {c} : task'[d] = task[d]
  BY DEF Becomes, RegistryTypeOK
<1>2. Updating' \subseteq Updating \cup {c} /\ Updating \subseteq Updating' \cup {c}
  BY <1>1 DEF Updating
<1>3. IsFiniteSet(Updating')
  BY <1>2, FS_AddElement, FS_Subset
<1>4. Cardinality(Updating') > 1 \/ \A d, e \in Updating' : d = e
  <2>1. Cardinality(Updating') \in Nat
    BY <1>3, FS_CardinalityType
  <2>2. Cardinality(Updating') = 0 => Updating' = {}
    BY <1>3, FS_EmptySet
  <2>3. Cardinality(Updating') = 1 => \E x : Updating' = {x}
    BY <1>3, FS_Singleton
  <2> QED
    BY <2>1, <2>2, <2>3
<1> QED
  BY <1>1, <1>2, <1>3, <1>4

(* The steps that start an update keep what they find or write the stage   *)
(* of the transition they have appended.                                   *)
LEMMA StartInStep ==
    ASSUME RegistryTypeOK, UndisturbedInv, ~disturbed, NEW c \in RegistryClients, c \notin Updating,
           NEW t, Becomes(c, t), t.does = "read", \A d, e \in Updating' : d = e,
           UNCHANGED state_file, LastStage' \in Stages,
           t.stage = LastStage' \/ (t.stage = Keep /\ UNCHANGED transitions)
    PROVE  StageInStep'
<1>1. c \in Updating' /\ task'[c] = t
  BY OneMoves DEF Updating, UndisturbedInv
<1>2. Updating = {} /\ Updating' = {c}
  BY <1>1, OneMoves DEF UndisturbedInv
<1>3. state_file.stage = LastStage
  BY <1>2 DEF UndisturbedInv, StageInStep
<1>4. UNCHANGED transitions => LastStage' = LastStage
  BY DEF LastStage
<1>5. LastStage' # Keep
  BY UnsetIsNoStage
<1>6. IF t.stage = Keep THEN state_file'.stage = LastStage' ELSE t.stage = LastStage'
  BY <1>3, <1>4, <1>5
<1> QED
  BY <1>1, <1>2, <1>6 DEF StageInStep

(* Before an update and after the gate nothing changes on file.            *)
LEMMA AsideInStep ==
    ASSUME RegistryTypeOK, UndisturbedInv, ~disturbed, NEW c \in RegistryClients, c \notin Updating,
           NEW t, Becomes(c, t), t.does \notin {"read", "truncate", "write"},
           UNCHANGED <<state_file, transitions>>
    PROVE  StageInStep'
<1>1. \A d \in RegistryClients \ {c} : task'[d] = task[d]
  BY OneMoves DEF UndisturbedInv
<1>2. task'[c] = t
  BY OneMoves DEF UndisturbedInv
<1>3. Updating' = Updating
  BY <1>1, <1>2 DEF Updating
<1>4. \A d \in Updating : task'[d] = task[d]
  BY <1>1 DEF Updating
<1>5. LastStage' = LastStage
  BY DEF LastStage
<1> QED
  BY <1>3, <1>4, <1>5 DEF StageInStep, UndisturbedInv

(* The one update goes on: what it carries is the stage of the last        *)
(* transition as soon as it has read the file.                             *)
LEMMA UpdateInStep ==
    ASSUME RegistryTypeOK, UndisturbedInv, ~disturbed, NEW c \in RegistryClients,
           ReadStateFile(c) \/ TruncateStateFile(c) \/ WriteStateFile(c)
    PROVE  StageInStep'
<1>1. Updating = {c} /\ StageInStep
  BY DEF ReadStateFile, TruncateStateFile, WriteStateFile, Updating, UndisturbedInv, StageInStep
<1>2. LastStage' = LastStage /\ LastStage \in Stages
  BY LastIsStage DEF ReadStateFile, TruncateStateFile, WriteStateFile, LastStage
<1>3. task[c] \in [does : {"read", "truncate", "write"}, stage : Stages \cup {Unset, Keep},
                   version : 0..MaxVersions, then : Stages \cup {Unset}]
  BY <1>1, TaskFields DEF RegistryTypeOK, Updating
<1>4. CASE ReadStateFile(c)
  <2> DEFINE w == IF task[c].version # 0 THEN task[c].version ELSE Content.version
             t == [task[c] EXCEPT !.does = "truncate", !.stage = StageWritten(task[c]),
                                  !.version = w]
  <2>1. t.does = "truncate" /\ t.stage = StageWritten(task[c])
    BY <1>3
  <2>2. Becomes(c, t) /\ UNCHANGED state_file /\ task[c].does = "read"
    BY <1>4 DEF ReadStateFile
  <2>3. StageWritten(task[c]) = LastStage
    <3>1. Content = state_file
      BY <1>1, <2>2 DEF Content, Updating
    <3>2. task[c].stage = Keep => StageNow = LastStage /\ Content.stage = LastStage
      BY <1>1, <1>2, <2>2, <3>1, UnsetIsNoStage DEF StageNow, StageInStep
    <3> QED
      BY <1>1, <2>2, <3>2 DEF StageWritten, StageInStep
  <2> HIDE DEF t
  <2>4. task'[c] = t /\ \A d \in RegistryClients \ {c} : task'[d] = task[d]
    BY <2>2, OneMoves DEF UndisturbedInv
  <2>5. Updating' = {c}
    BY <1>1, <2>1, <2>4 DEF Updating
  <2> QED
    BY <1>2, <2>1, <2>3, <2>4, <2>5 DEF StageInStep
<1>5. CASE TruncateStateFile(c)
  <2> DEFINE t == [task[c] EXCEPT !.does = "write"]
  <2>1. t.does = "write" /\ t.stage = task[c].stage
    BY <1>3
  <2>2. Becomes(c, t) /\ UNCHANGED state_file /\ task[c].does = "truncate"
    BY <1>5 DEF TruncateStateFile
  <2> HIDE DEF t
  <2>3. task'[c] = t /\ \A d \in RegistryClients \ {c} : task'[d] = task[d]
    BY <2>2, OneMoves DEF UndisturbedInv
  <2>4. Updating' = {c}
    BY <1>1, <2>1, <2>3 DEF Updating
  <2> QED
    BY <1>1, <1>2, <2>1, <2>2, <2>3, <2>4 DEF StageInStep
<1>6. CASE WriteStateFile(c)
  <2> DEFINE t == IF task[c].then = Unset THEN NoTask ELSE [does |-> "drive", to |-> task[c].then]
  <2>1. t.does \notin {"read", "truncate", "write"}
    BY DEF NoTask
  <2>2. Becomes(c, t) /\ task[c].does = "write" /\ state_file'.stage = task[c].stage
    BY <1>6 DEF WriteStateFile
  <2> HIDE DEF t
  <2>3. task'[c] = t /\ \A d \in RegistryClients \ {c} : task'[d] = task[d]
    BY <2>2, OneMoves DEF UndisturbedInv
  <2>4. Updating' = {}
    BY <1>1, <2>1, <2>3 DEF Updating
  <2> QED
    BY <1>1, <1>2, <2>2, <2>4 DEF StageInStep
<1> QED
  BY <1>4, <1>5, <1>6

LEMMA UndisturbedInit == RegistryInit => UndisturbedInv
<1> SUFFICES ASSUME RegistryInit PROVE UndisturbedInv
  OBVIOUS
<1>1. Updating = {}
  BY DEF RegistryInit, Updating, NoTask
<1> QED
  BY <1>1, FS_EmptySet DEF RegistryInit, UndisturbedInv, StageInStep, LastStage

LEMMA UndisturbedStep ==
    ASSUME RegistryTypeOK, LastStage' \in Stages, UndisturbedInv, [RegistryNext]_RegistryVars
    PROVE  UndisturbedInv'
<1> USE DEF UndisturbedInv
<1>1. ASSUME NEW c \in RegistryClients, RegistryStep(c),
             disturbed' = (disturbed \/ Cardinality(Updating') > 1)
      PROVE  UndisturbedInv'
  <2>1. PICK t : Becomes(c, t)
    BY <1>1 DEF RegistryStep, RecordEvidence, RecordVersion, Evaluate, Drive, MatchDecision,
       AppendTransition, ReadStateFile, TruncateStateFile, WriteStateFile
  <2>2. IsFiniteSet(Updating')
    BY <2>1, OneMoves
  <2>3. ASSUME ~disturbed' PROVE StageInStep'
    <3>1. ~disturbed /\ \A d, e \in Updating' : d = e
      BY <1>1, <2>1, <2>3, OneMoves
    <3>2. ASSUME NEW service \in RunServices, NEW status \in {"PASS", "FAIL"},
                 RecordEvidence(c, service, status)
          PROVE  StageInStep'
      BY <3>1, <3>2, StartInStep DEF RecordEvidence, Update, Updating, NoTask
    <3>3. CASE RecordVersion(c)
      BY <3>1, <3>3, StartInStep DEF RecordVersion, Update, Updating, NoTask
    <3>4. ASSUME NEW to \in Stages, Evaluate(c, to) PROVE StageInStep'
      BY <3>1, <3>4, AsideInStep DEF Evaluate, Decision, Updating, NoTask
    <3>5. CASE Drive(c)
      BY <3>1, <3>5, AsideInStep DEF Drive, Decision, Updating, NoTask
    <3>6. CASE MatchDecision(c)
      <4>1. task[c] \in [does : {"apply", "append"}, from : Stages, to : Stages,
                         version : 1..MaxVersions]
        BY <3>6, TaskFields DEF MatchDecision, RegistryTypeOK
      <4>2. [task[c] EXCEPT !.does = "append"].does = "append" /\ NoTask.does = "nothing"
        BY <4>1 DEF NoTask
      <4> QED
        BY <3>1, <3>6, <4>2, AsideInStep DEF MatchDecision, Updating
    <3>7. CASE AppendTransition(c)
      <4>1. transitions \in Seq(TransitionSet)
        BY DEF RegistryTypeOK, TransitionSet
      <4>2. LastStage' = task[c].to
        BY <3>7, <4>1 DEF AppendTransition, LastStage
      <4> QED
        BY <3>1, <3>7, <4>2, StartInStep DEF AppendTransition, Update, Updating
    <3>8. CASE ReadStateFile(c) \/ TruncateStateFile(c) \/ WriteStateFile(c)
      BY <3>1, <3>8, UpdateInStep
    <3> QED
      BY <1>1, <3>2, <3>3, <3>4, <3>5, <3>6, <3>7, <3>8 DEF RegistryStep
  <2> QED
    BY <2>2, <2>3
<1>2. ASSUME NEW c \in RegistryClients, Die(c), disturbed' = (disturbed \/ c \in Updating)
      PROVE  UndisturbedInv'
  <2>1. Becomes(c, NoTask) /\ UNCHANGED transitions
    BY <1>2 DEF Die
  <2>2. IsFiniteSet(Updating')
    BY <2>1, OneMoves
  <2>3. ASSUME ~disturbed' PROVE StageInStep'
    <3>1. ~disturbed /\ c \notin Updating
      BY <1>2, <2>3
    <3>2. UNCHANGED state_file
      BY <1>2, <3>1 DEF Die, Updating
    <3> QED
      BY <2>1, <3>1, <3>2, AsideInStep DEF NoTask
  <2> QED
    BY <2>2, <2>3
<1>3. CASE UNCHANGED RegistryVars
  BY <1>3 DEF RegistryVars, Updating, StageInStep, LastStage
<1> QED
  BY <1>1, <1>2, <1>3 DEF RegistryNext

(* Until two updates of state.json overlap or a process dies in one, a     *)
(* strategy at rest is in the stage of its last transition on file: new    *)
(* evidence and new versions leave it there, for any number of processes.  *)
THEOREM StageFollowsHistory == RegistrySpec => []StageIsLastTransition
<1>1. RegistryTypeOK /\ UndisturbedInv => StageIsLastTransition
  <2> SUFFICES ASSUME RegistryTypeOK, UndisturbedInv, ~disturbed, Updating = {}
               PROVE  StageNow = LastStage
    BY DEF StageIsLastTransition, LastStage
  <2>1. Content = state_file
    BY DEF Content, Updating
  <2>2. state_file.stage = LastStage /\ LastStage # Unset
    BY LastIsStage, UnsetIsNoStage DEF UndisturbedInv, StageInStep
  <2> QED
    BY <2>1, <2>2 DEF StageNow
<1>2. RegistryTypeOK => LastStage \in Stages
  BY LastIsStage
<1>3. RegistryTypeOK /\ (LastStage \in Stages)' /\ UndisturbedInv /\ [RegistryNext]_RegistryVars
        => UndisturbedInv'
  BY UndisturbedStep
<1> QED
  BY <1>1, <1>2, <1>3, UndisturbedInit, RegistryTypeCorrect, PTL DEF RegistrySpec
=============================================================================
