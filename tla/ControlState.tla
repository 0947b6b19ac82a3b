---------------------------- MODULE ControlState ----------------------------
(***************************************************************************)
(* The emergency stop between the dashboards and the demo runner. All of   *)
(* them keep it in one JSON file (dashboard/control_state.py) and change   *)
(* the file the same way: load it, change a copy, write the copy back,     *)
(* with no lock around the three and no rename at the end. The runner is   *)
(* a writer as well: TradingPermissionService.evaluate and                 *)
(* set_trading_permission put the permission of every signal in that file  *)
(* (execution/control_plane.py, scripts/run_st_a2_demo.py).                *)
(*                                                                         *)
(* Only the emergency stop of the file is modelled. What the other updates *)
(* change (permission, safe mode, reconciliation, reviews) no step here    *)
(* depends on; that they write the stop back as they loaded it does.       *)
(***************************************************************************)
EXTENDS Naturals, FiniteSets

CONSTANTS
    Handlers,   \* dashboard requests being served at the same time
    Runner,     \* the demo runner
    Scopes,     \* scopes the operators choose among
    Sources,    \* control paths a stop may come from ("control_pause", ...)
    NoSource,   \* source "" of an unscoped caller; expected_source=None
    Positions,  \* managed positions
    MaxStamps,  \* bound on the activations
    MaxCrashes  \* bound on the crashes of the processes

Writers == Handlers \cup {Runner}

ASSUME ControlAssumption ==
    /\ Runner \notin Handlers
    /\ Scopes \subseteq {"block_only", "close_positions"}
    /\ NoSource \notin Sources
    /\ MaxStamps \in Nat
    /\ MaxCrashes \in Nat

VARIABLES
    file,      \* the "emergency_stop" section of the control state file
    work,      \* what each writer is updating and the copy it has loaded
    stamps,    \* activations so far: "activated_at" as a number
    confirmed, \* activation the operators were last told is in force, or 0
    pc,        \* what the runner is doing
    emergency_state, \* the section as loaded at the start of the tick
    handled,   \* risk_state["_emergency_stop_handled_at"], 0 for ""
    todo,      \* positions emergency_close_all has still to go through
    allowed,   \* permission.trading_allowed of the signal at hand
    broker,    \* the broker's side: what became of each managed position
    crashes    \* crashes so far

runnerVars == <<pc, emergency_state, handled, todo, allowed>>
vars == <<file, work, stamps, confirmed, runnerVars, broker, crashes>>

-----------------------------------------------------------------------------
(* The file.                                                               *)

DEFAULT_CONTROL_STATE ==
    [active |-> FALSE, scope |-> "block_only", source |-> NoSource, stamp |-> 0]

(* What is left of the section after a clear no step reads.                *)
Cleared == DEFAULT_CONTROL_STATE

Idle == [op |-> "idle", scope |-> "block_only", source |-> NoSource,
         seen |-> DEFAULT_CONTROL_STATE]

Writing(w) == work[w].op # "idle"

(* What load_control_state may return to w: the file, or, while another    *)
(* writer is between truncating and rewriting it, the default state, which *)
(* is what an unreadable file is taken for.                                *)
load_control_state(w) ==
    {file} \cup (IF \E v \in Writers \ {w} : Writing(v) THEN {DEFAULT_CONTROL_STATE} ELSE {})

(* The section a writer puts in the file in place of the one it has seen.  *)
Updated(w) ==
    CASE work[w].op = "activate" -> [active |-> TRUE, scope |-> work[w].scope,
                                     source |-> work[w].source, stamp |-> stamps + 1]
      [] work[w].op = "clear" -> Cleared
      [] OTHER -> work[w].seen

(* clear_emergency_stop refuses a caller that did not create the stop.     *)
Refused_Never(seen, expected_source) == FALSE
Refused(seen, expected_source) ==
    expected_source # NoSource /\ seen.active /\ seen.source # expected_source

(* May a clear on behalf of this source end the stop that is in the file?  *)
MayClear(w) == work[w].source \in {NoSource, file.source}

-----------------------------------------------------------------------------
(* A dashboard request: load, then save. An activation replaces the whole  *)
(* section, so what it has loaded does not matter; a refused clear does    *)
(* not save. An update of any other section, and evaluate() on a status    *)
(* page, keep the stop as they loaded it.                                  *)

Load(h, op, scope, source) ==
    /\ ~Writing(h)
    /\ \E s \in load_control_state(h) :
        /\ op = "clear" => ~Refused(s, source)
        /\ work' = [work EXCEPT ![h] =
                     [op |-> op, scope |-> scope, source |-> source,
                      seen |-> IF op = "activate" THEN DEFAULT_CONTROL_STATE ELSE s]]
    /\ UNCHANGED <<file, stamps, confirmed, runnerVars, broker, crashes>>

LoadActivate(h) ==
    \E scope \in Scopes, source \in Sources \cup {NoSource} : Load(h, "activate", scope, source)

LoadClear(h) ==
    \E source \in Sources \cup {NoSource} : Load(h, "clear", "block_only", source)

LoadKeep(h) == Load(h, "keep", "block_only", NoSource)

Save(h) ==
    /\ Writing(h)
    /\ file' = Updated(h)
    /\ work' = [work EXCEPT ![h] = Idle]

SaveActivate(h) ==
    /\ work[h].op = "activate"
    /\ stamps < MaxStamps
    /\ Save(h)
    /\ stamps' = stamps + 1
    /\ confirmed' = stamps + 1
    /\ UNCHANGED <<runnerVars, broker, crashes>>

SaveClear(h) ==
    /\ work[h].op = "clear"
    /\ Save(h)
    /\ confirmed' = IF MayClear(h) THEN 0 ELSE confirmed
    /\ UNCHANGED <<stamps, runnerVars, broker, crashes>>

SaveKeep(h) ==
    /\ work[h].op = "keep"
    /\ Save(h)
    /\ UNCHANGED <<stamps, confirmed, runnerVars, broker, crashes>>

-----------------------------------------------------------------------------
(* The start of a tick and its emergency branch.                           *)

(* Is there a stop this process has not closed the positions for yet? (A   *)
(* tick that finds one it has handled only reports, and changes nothing.)  *)
Unhandled_Once(s) == s.active /\ handled = 0
Unhandled(s) == s.active /\ s.stamp # handled

TickEmergency ==
    /\ pc = "tick"
    /\ \E s \in load_control_state(Runner) : Unhandled(s) /\ emergency_state' = s
    /\ pc' = "list"
    /\ UNCHANGED <<file, work, stamps, confirmed, handled, todo, allowed, broker, crashes>>

(* The marker of a handled stop once the stop is found to be lifted.       *)
marker_after_stop_Kept == handled
marker_after_stop == 0

TickOpen ==
    /\ pc = "tick"
    /\ \E s \in load_control_state(Runner) : ~s.active
    /\ handled' = marker_after_stop
    /\ pc' = "signals"
    /\ UNCHANGED <<file, work, stamps, confirmed, emergency_state, todo, allowed, broker, crashes>>

(* emergency_close_all lists the positions; if that raises, the tick ends  *)
(* and the next one tries again.                                           *)
ListPositions ==
    /\ pc = "list"
    /\ todo' = {p \in Positions : broker[p] # "none"}
    /\ pc' = "close"
    /\ UNCHANGED <<file, work, stamps, confirmed, emergency_state, handled, allowed, broker, crashes>>

ListFails ==
    /\ pc = "list"
    /\ pc' = "tick"
    /\ emergency_state' = DEFAULT_CONTROL_STATE
    /\ UNCHANGED <<file, work, stamps, confirmed, handled, todo, allowed, broker, crashes>>

(* close_position succeeds, or reports False, which is only not counted.   *)
ClosePosition(p) ==
    /\ pc = "close"
    /\ p \in todo
    /\ todo' = todo \ {p}
    /\ broker' = [broker EXCEPT ![p] = "none"]
    /\ UNCHANGED <<file, work, stamps, confirmed, pc, emergency_state, handled, allowed, crashes>>

ClosePositionFails(p) ==
    /\ pc = "close"
    /\ p \in todo /\ broker[p] # "none"
    /\ todo' = todo \ {p}
    /\ broker' = [broker EXCEPT ![p] = "unclosed"]
    /\ UNCHANGED <<file, work, stamps, confirmed, pc, emergency_state, handled, allowed, crashes>>

CloseAllDone ==
    /\ pc = "close"
    /\ todo = {}
    /\ handled' = emergency_state.stamp
    /\ emergency_state' = DEFAULT_CONTROL_STATE
    /\ pc' = "tick"
    /\ UNCHANGED <<file, work, stamps, confirmed, todo, allowed, broker, crashes>>

-----------------------------------------------------------------------------
(* A signal: permission, its snapshot in the file, the gate, the order.    *)

RunnerLoads(from, to) ==
    /\ pc = from
    /\ \E s \in load_control_state(Runner) :
        work' = [work EXCEPT ![Runner] = [Idle EXCEPT !.op = "keep", !.seen = s]]
    /\ pc' = to
    /\ UNCHANGED <<file, stamps, confirmed, emergency_state, handled, todo, broker, crashes>>

RunnerSaves ==
    /\ Save(Runner)
    /\ UNCHANGED <<stamps, confirmed, emergency_state, handled, todo, allowed, broker, crashes>>

(* evaluate(): a stop forbids the trade; governance, the connection and    *)
(* the other sections of the file may forbid it too.                       *)
Evaluate ==
    /\ RunnerLoads("signals", "evaluated")
    /\ allowed' \in {a \in BOOLEAN : a => ~work'[Runner].seen.active}

SaveEvaluation == pc = "evaluated" /\ pc' = "permission" /\ RunnerSaves

LoadPermission == RunnerLoads("permission", "permitted") /\ UNCHANGED allowed

SavePermission ==
    /\ pc = "permitted"
    /\ pc' = IF allowed THEN "submit" ELSE "signals"
    /\ RunnerSaves

(* check_limits refuses, the order has no intent to submit, or the gate of *)
(* the pipeline sees a stop: on with the next signal.                      *)
SkipSignal ==
    /\ pc = "submit"
    /\ pc' = "signals"
    /\ UNCHANGED <<file, work, stamps, confirmed, emergency_state, handled, todo, allowed,
                   broker, crashes>>

(* EmergencyStopRiskGate.evaluate loads the state afresh and sees no stop. *)
GatePasses ==
    /\ pc = "submit"
    /\ \E s \in load_control_state(Runner) : ~s.active
    /\ pc' = "place"
    /\ UNCHANGED <<file, work, stamps, confirmed, emergency_state, handled, todo, allowed,
                   broker, crashes>>

(* open_position, with and without an order as the result.                 *)
Place(p) ==
    /\ pc = "place"
    /\ broker[p] = "none"
    /\ broker' = [broker EXCEPT ![p] = "open"]
    /\ pc' = "signals"
    /\ UNCHANGED <<file, work, stamps, confirmed, emergency_state, handled, todo, allowed, crashes>>

PlaceFails ==
    /\ pc = "place"
    /\ pc' = "signals"
    /\ UNCHANGED <<file, work, stamps, confirmed, emergency_state, handled, todo, allowed,
                   broker, crashes>>

EndTick ==
    /\ pc = "signals"
    /\ pc' = "tick"
    /\ UNCHANGED <<file, work, stamps, confirmed, emergency_state, handled, todo, allowed,
                   broker, crashes>>

-----------------------------------------------------------------------------
(* The environment.                                                        *)

BrokerCloses(p) ==
    /\ broker[p] # "none"
    /\ broker' = [broker EXCEPT ![p] = "none"]
    /\ UNCHANGED <<file, work, stamps, confirmed, runnerVars, crashes>>

(* A crash in the middle of a write leaves a file that cannot be read and  *)
(* counts as the default state until the next save.                        *)
AfterCrash(w) == {file} \cup (IF Writing(w) THEN {DEFAULT_CONTROL_STATE} ELSE {})

HandlerCrash(h) ==
    /\ crashes < MaxCrashes
    /\ Writing(h)
    /\ crashes' = crashes + 1
    /\ file' \in AfterCrash(h)
    /\ work' = [work EXCEPT ![h] = Idle]
    /\ UNCHANGED <<stamps, confirmed, runnerVars, broker>>

(* The runner is restarted. The marker is not among the persisted keys.    *)
RunnerCrash ==
    /\ crashes < MaxCrashes
    /\ crashes' = crashes + 1
    /\ file' \in AfterCrash(Runner)
    /\ work' = [work EXCEPT ![Runner] = Idle]
    /\ pc' = "tick"
    /\ emergency_state' = DEFAULT_CONTROL_STATE
    /\ handled' = 0 /\ todo' = {} /\ allowed' = FALSE
    /\ UNCHANGED <<stamps, confirmed, broker>>

-----------------------------------------------------------------------------
Init ==
    /\ file = DEFAULT_CONTROL_STATE
    /\ work = [w \in Writers |-> Idle]
    /\ stamps = 0
    /\ confirmed = 0
    /\ pc = "tick"
    /\ emergency_state = DEFAULT_CONTROL_STATE
    /\ handled = 0
    /\ todo = {}
    /\ allowed = FALSE
    /\ broker = [p \in Positions |-> "none"]
    /\ crashes = 0

Dashboard ==
    \E h \in Handlers :
        \/ LoadActivate(h) \/ LoadClear(h) \/ LoadKeep(h)
        \/ SaveActivate(h) \/ SaveClear(h) \/ SaveKeep(h)

Tick ==
    \/ TickEmergency \/ TickOpen \/ ListPositions \/ ListFails
    \/ \E p \in Positions : ClosePosition(p) \/ ClosePositionFails(p)
    \/ CloseAllDone

Signal ==
    \/ Evaluate \/ SaveEvaluation \/ LoadPermission \/ SavePermission
    \/ SkipSignal \/ GatePasses \/ PlaceFails \/ EndTick
    \/ \E p \in Positions : Place(p)

Environment ==
    \/ \E p \in Positions : BrokerCloses(p)
    \/ \E h \in Handlers : HandlerCrash(h)
    \/ RunnerCrash

Next == Dashboard \/ Tick \/ Signal \/ Environment

Spec == Init /\ [][Next]_vars

-----------------------------------------------------------------------------
(* Properties.                                                             *)

Stops == [active : BOOLEAN, scope : Scopes \cup {"block_only"}, source : Sources \cup {NoSource},
          stamp : 0..MaxStamps]

(* Every variable has its type, a stop in the file has the stamp of an     *)
(* activation, and the runner has an update under way exactly between its  *)
(* loads and its saves.                                                    *)
TypeOK ==
    /\ file \in Stops /\ (file.active => file.stamp \in 1..stamps)
    /\ work \in [Writers -> [op : {"idle", "activate", "clear", "keep"},
                             scope : Scopes \cup {"block_only"},
                             source : Sources \cup {NoSource}, seen : Stops]]
    /\ Writing(Runner) <=> pc \in {"evaluated", "permitted"}
    /\ stamps \in 0..MaxStamps
    /\ confirmed \in 0..stamps
    /\ pc \in {"tick", "list", "close", "signals", "evaluated", "permission", "permitted",
               "submit", "place"}
    /\ emergency_state \in Stops
    /\ handled \in 0..stamps
    /\ todo \subseteq Positions
    /\ allowed \in BOOLEAN
    /\ broker \in [Positions -> {"none", "open", "unclosed"}]
    /\ crashes \in 0..MaxCrashes

(* While the stop in the file is one the runner takes for handled, there   *)
(* is no position it has not tried to close for it: whatever update is     *)
(* lost or brought back, no order slips in between emergency_close_all and *)
(* the end of the stop.                                                    *)
HandledStopIsFlat ==
    file.active /\ handled = file.stamp => \A p \in Positions : broker[p] # "open"

(* A stop ends only by a clear of its own control path or of an unscoped   *)
(* one, by an update that started from a copy which was not current any    *)
(* more, or by a crash in the middle of a write.                           *)
StopEndsOnlyByClear ==
    [][file.active /\ ~file'.active =>
        \/ \E w \in Writers : /\ Writing(w) /\ work'[w].op = "idle"
                              /\ \/ work[w].op = "clear" /\ MayClear(w)
                                 \/ work[w].seen # file
        \/ crashes' # crashes]_vars

(* "A stop activated or cleared mid-run takes effect on the very next      *)
(* intent": once the operator has been told that it is in force, no intent *)
(* passes the gate of the pipeline until it is cleared.                    *)
StopBindsNextIntent == [][pc = "submit" /\ pc' = "place" => confirmed = 0]_vars

(* The runner goes on: its steps, and each signal and tick end. Reads of   *)
(* the file do not all fall into a write, nor do all lists of positions    *)
(* fail. Nothing is assumed of the dashboards.                             *)
RunnerStep ==
    \/ CloseAllDone \/ (\E p \in Positions : ClosePosition(p) \/ ClosePositionFails(p))
    \/ SaveEvaluation \/ LoadPermission \/ SavePermission \/ SkipSignal \/ PlaceFails

Fairness ==
    /\ WF_vars(RunnerStep)
    /\ SF_vars(EndTick)
    /\ SF_vars(TickEmergency)
    /\ SF_vars(ListPositions)

FairSpec == Spec /\ Fairness

(* No activation stays in the file unhandled for ever: positions are gone  *)
(* through for it, however many stops were handled before.                 *)
EveryStopHandled ==
    \A n \in 1..MaxStamps : []<>(~file.active \/ file.stamp # n \/ handled = n)
=============================================================================
