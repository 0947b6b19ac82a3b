------------------------- MODULE ExecutionPipeline -------------------------
(* production/engine/coordinator.py and execution_pipeline.py: strategy    *)
(* signals become intents, which a package check and a risk gate approve   *)
(* before the adapter executes them. The coordinator handles one signal at *)
(* a time, and whatever it awaits lets the clock, the operator's stop and  *)
(* the package's validity change underneath it. Its memory of the signals  *)
(* it has seen is a dictionary of the running process.                     *)
EXTENDS Integers

CONSTANTS
    SignalIds,          \* signal_id of the strategy's signals
    MaxSignalAge,       \* max_signal_age_seconds
    MaxClock,           \* bound: the last second of the run
    MaxRestarts         \* bound: times the coordinator is started again

ASSUME PipelineAssumption ==
    /\ MaxSignalAge \in Nat
    /\ MaxClock \in Nat
    /\ MaxRestarts \in Nat

VARIABLES
    clock,              \* the wall clock, in seconds
    seen,               \* _seen: when each signal_id was last let through
    handling,           \* the signal being submitted, in a set of at most one
    phase,              \* what the coordinator awaits
    stop_active,        \* emergency_stop.active of the control state
    package_valid,      \* package_validator() would not raise
    submitted,          \* history: times this coordinator passed on each signal
    orders,             \* history: times each signal was given to the adapter
    late,               \* history: orders since the stop or the revocation
    restarts            \* coordinators started after the first

PipelineVars == <<clock, seen, handling, phase, stop_active, package_valid,
                  submitted, orders, late, restarts>>

Signals == [id : SignalIds, stamp : 0..MaxClock]

GateOpen == package_valid /\ ~stop_active

Phases == {"stream", "risk", "adapter", "ended"}

-----------------------------------------------------------------------------
(* submit_signal: what is left of _seen after entries past the age are     *)
(* dropped, and the two conditions under which a signal is turned away.    *)
StillSeen == {e \in seen : e.at >= clock - MaxSignalAge}

Duplicate(s) == \E e \in StillSeen : e.id = s.id

TooOldOrEarly_NoEarly(s) == clock - s.stamp > MaxSignalAge

TooOldOrEarly(s) == clock - s.stamp < 0 \/ clock - s.stamp > MaxSignalAge

TurnAway(s) ==
    /\ phase = "stream"
    /\ Duplicate(s) \/ TooOldOrEarly(s)
    /\ seen' = StillSeen
    /\ UNCHANGED <<clock, handling, phase, stop_active, package_valid,
                   submitted, orders, late, restarts>>

Remember(s) ==
    /\ phase = "stream"
    /\ ~Duplicate(s)
    /\ ~TooOldOrEarly(s)
    /\ seen' = StillSeen \cup {[id |-> s.id, at |-> clock]}

(* quantity_resolver raises: the signal stays in _seen and run ends.       *)
QuantityRaises(s) ==
    /\ Remember(s)
    /\ phase' = "ended"
    /\ UNCHANGED <<clock, handling, stop_active, package_valid,
                   submitted, orders, late, restarts>>

(* submit, up to its first await: the package is validated again, the      *)
(* intent checked against the package, and the emergency stop read; the    *)
(* inner gate's decision is awaited only if all of them let it through.    *)
PassesChecks_StopLeftOut == package_valid

PassesChecks == GateOpen

SubmitSignal(s) ==
    /\ Remember(s)
    /\ submitted' = [submitted EXCEPT ![s] = @ + 1]
    /\ \/ PassesChecks /\ phase' = "risk" /\ handling' = {s}
       \/ UNCHANGED <<phase, handling>>    \* refused, or an invalid intent
    /\ UNCHANGED <<clock, stop_active, package_valid, orders, late, restarts>>

RiskRejects ==
    /\ phase = "risk"
    /\ phase' = "stream"
    /\ handling' = {}
    /\ UNCHANGED <<clock, seen, stop_active, package_valid,
                   submitted, orders, late, restarts>>

(* The decision came back approved: the adapter gets the intent, whatever  *)
(* has happened to the stop and the package meanwhile.                     *)
RiskApproves(s) ==
    /\ phase = "risk"
    /\ s \in handling
    /\ phase' = "adapter"
    /\ orders' = [orders EXCEPT ![s] = @ + 1]
    /\ late' = IF GateOpen THEN late ELSE late + 1
    /\ UNCHANGED <<clock, seen, handling, stop_active, package_valid,
                   submitted, restarts>>

AdapterReturns ==
    /\ phase = "adapter"
    /\ phase' = "stream"
    /\ handling' = {}
    /\ UNCHANGED <<clock, seen, stop_active, package_valid,
                   submitted, orders, late, restarts>>

(* An exception of the gate or the adapter passes through run.             *)
Raises ==
    /\ phase \in {"risk", "adapter"}
    /\ phase' = "ended"
    /\ handling' = {}
    /\ UNCHANGED <<clock, seen, stop_active, package_valid,
                   submitted, orders, late, restarts>>

(* A new coordinator, or the process killed and started again: _seen is    *)
(* empty.                                                                  *)
StartAgain ==
    /\ restarts < MaxRestarts
    /\ restarts' = restarts + 1
    /\ phase' = "stream"
    /\ handling' = {}
    /\ seen' = {}
    /\ submitted' = [s \in Signals |-> 0]
    /\ UNCHANGED <<clock, stop_active, package_valid, orders, late>>

-----------------------------------------------------------------------------
(* Around the coordinator: time, the operator and the revocation list.     *)
ClockTicks ==
    /\ clock < MaxClock
    /\ clock' = clock + 1
    /\ UNCHANGED <<seen, handling, phase, stop_active, package_valid,
                   submitted, orders, late, restarts>>

GateChanges ==
    /\ \/ stop_active' \in BOOLEAN /\ UNCHANGED package_valid
       \/ package_valid' = FALSE /\ UNCHANGED stop_active
    /\ late' = IF GateOpen' THEN 0 ELSE late
    /\ UNCHANGED <<clock, seen, handling, phase, submitted, orders, restarts>>

PipelineInit ==
    /\ clock = 0
    /\ seen = {}
    /\ handling = {}
    /\ phase = "stream"
    /\ stop_active = FALSE
    /\ package_valid = TRUE
    /\ submitted = [s \in Signals |-> 0]
    /\ orders = [s \in Signals |-> 0]
    /\ late = 0
    /\ restarts = 0

PipelineNext ==
    \/ \E s \in Signals : \/ TurnAway(s) \/ QuantityRaises(s)
                          \/ SubmitSignal(s) \/ RiskApproves(s)
    \/ RiskRejects \/ AdapterReturns \/ Raises \/ StartAgain
    \/ ClockTicks \/ GateChanges

PipelineSpec == PipelineInit /\ [][PipelineNext]_PipelineVars

-----------------------------------------------------------------------------
PipelineTypeOK ==
    /\ clock \in 0..MaxClock
    /\ seen \subseteq [id : SignalIds, at : 0..MaxClock]
    /\ handling \subseteq Signals
    /\ phase \in Phases
    /\ stop_active \in BOOLEAN
    /\ package_valid \in BOOLEAN
    /\ submitted \in [Signals -> Nat]
    /\ orders \in [Signals -> Nat]
    /\ late \in Nat
    /\ restarts \in Nat

(* However often a strategy repeats a signal, and whenever, one            *)
(* coordinator passes it on once: when _seen forgets it, it is too old.    *)
OneDecisionPerSignal == \A s \in Signals : submitted[s] <= 1

(* Once the stop is active or the package revoked, at most the one order   *)
(* whose decision was being awaited still reaches the adapter.             *)
OneOrderAfterClosing == late <= 1

(* A signal reaches the adapter again only from a coordinator that started *)
(* with an empty _seen.                                                    *)
OneOrderPerLife == \A s \in Signals : orders[s] <= restarts + 1
=============================================================================
