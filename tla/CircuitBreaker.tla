--------------------------- MODULE CircuitBreaker ---------------------------
(* core/circuit_breaker.py for one strategy, as the tick of the demo       *)
(* runner uses it (scripts/run_st_a2_demo.py): every routed signal of the  *)
(* tick is checked first, then those let through are recorded as they are  *)
(* executed, which takes time; trades are recorded when they close. The    *)
(* counters are kept in memory, and those of the day are reset the first   *)
(* time the breaker is used on a new date.                                 *)
EXTENDS Integers, FiniteSetsExt

CONSTANTS
    MaxSignalsHour, MaxTradesDay, MaxLosses,    \* the limits of the strategy
    Hour, CooldownLength, DayLength,            \* in units of the clock
    MaxBatch,           \* routed signals of the strategy in one tick
    MaxClosed,          \* bound: trades that close in a day
    MaxTime             \* bound: the clock

ASSUME BreakerAssumption ==
    /\ {MaxSignalsHour, MaxTradesDay, MaxLosses, Hour, CooldownLength, DayLength, MaxBatch}
          \subseteq Nat \ {0}
    /\ MaxClosed \in Nat /\ MaxTime \in Nat

VARIABLES
    time,               \* the clock
    signal_times,       \* when signals were recorded: how many at each time
    trades_today, consecutive_losses, cooldown_until, last_reset,
    to_check, approved, \* signals of this tick: not checked yet, let through
    pause               \* history: the last cooldown, when it began and ends

BreakerVars == <<time, signal_times, trades_today, consecutive_losses, cooldown_until,
                 last_reset, to_check, approved, pause>>

Today == time \div DayLength

(* _state_for: the counters of another date are reset; a cooldown that is  *)
(* not set is a time gone by.                                              *)
NewDay == last_reset # Today

TradesToday == IF NewDay THEN 0 ELSE trades_today
LossesToday == IF NewDay THEN 0 ELSE consecutive_losses
CooldownToday == IF NewDay THEN 0 ELSE cooldown_until

InWindow == [t \in 0..MaxTime |-> IF t > time - Hour THEN signal_times[t] ELSE 0]

SignalsThisHour == SumFunctionOnSet(InWindow, 0..MaxTime)

-----------------------------------------------------------------------------
TickBegins ==
    /\ to_check = 0 /\ approved = 0
    /\ to_check' \in 1..MaxBatch
    /\ UNCHANGED <<time, signal_times, trades_today, consecutive_losses, cooldown_until,
                   last_reset, approved, pause>>

(* check, one signal of the tick after the other; its conditions in turn.  *)
CheckSignal(kept, pauses, passes) ==
    /\ to_check > 0
    /\ to_check' = to_check - 1
    /\ last_reset' = Today
    /\ trades_today' = TradesToday
    /\ signal_times' = kept
    /\ cooldown_until' = IF pauses THEN time + CooldownLength ELSE CooldownToday
    /\ consecutive_losses' = IF pauses THEN 0 ELSE LossesToday
    /\ pause' = IF pauses THEN [from |-> time, until |-> time + CooldownLength] ELSE pause
    /\ approved' = IF passes THEN approved + 1 ELSE approved
    /\ UNCHANGED time

InCooldown_Early == time + 1 < CooldownToday

InCooldown == time < CooldownToday

WithinLimits_OneMore == SignalsThisHour <= MaxSignalsHour /\ TradesToday < MaxTradesDay

WithinLimits == SignalsThisHour < MaxSignalsHour /\ TradesToday < MaxTradesDay

BlockedByCooldown == InCooldown /\ CheckSignal(signal_times, FALSE, FALSE)

BlockedByLimit == ~InCooldown /\ ~WithinLimits /\ CheckSignal(InWindow, FALSE, FALSE)

BlockedByLosses ==
    /\ ~InCooldown /\ WithinLimits /\ LossesToday >= MaxLosses
    /\ CheckSignal(InWindow, TRUE, FALSE)

LetThrough ==
    /\ ~InCooldown /\ WithinLimits /\ LossesToday < MaxLosses
    /\ CheckSignal(InWindow, FALSE, TRUE)

(* record_signal: the signal is about to be executed.                      *)
RecordSignal_Unchecked ==
    /\ to_check = 0
    /\ approved' = approved - 1
    /\ last_reset' = Today
    /\ trades_today' = TradesToday
    /\ consecutive_losses' = LossesToday
    /\ cooldown_until' = CooldownToday
    /\ signal_times' = [signal_times EXCEPT ![time] = @ + 1]
    /\ UNCHANGED <<time, to_check, pause>>

RecordSignal ==
    /\ to_check = 0 /\ approved > 0
    /\ approved' = approved - 1
    /\ last_reset' = Today
    /\ trades_today' = TradesToday
    /\ consecutive_losses' = LossesToday
    /\ cooldown_until' = CooldownToday
    /\ signal_times' = [signal_times EXCEPT ![time] = @ + 1]
    /\ UNCHANGED <<time, to_check, pause>>

(* The portfolio manager, the permission or the limits stop it before.     *)
DropSignal ==
    /\ to_check = 0 /\ approved > 0
    /\ approved' = approved - 1
    /\ UNCHANGED <<time, signal_times, trades_today, consecutive_losses, cooldown_until,
                   last_reset, to_check, pause>>

(* record_trade, when process_closed_positions finds it closed.           *)
RecordTrade(won) ==
    /\ to_check = 0 /\ approved = 0
    /\ last_reset' = Today
    /\ trades_today' = TradesToday + 1
    /\ trades_today' <= MaxClosed
    /\ consecutive_losses' = IF won THEN 0 ELSE LossesToday + 1
    /\ cooldown_until' = CooldownToday
    /\ UNCHANGED <<time, signal_times, to_check, approved, pause>>

(* The checks of a tick follow on one another; all else takes time.        *)
TimePasses ==
    /\ time < MaxTime
    /\ to_check = 0
    /\ time' = time + 1
    /\ UNCHANGED <<signal_times, trades_today, consecutive_losses, cooldown_until,
                   last_reset, to_check, approved, pause>>

(* reset_strategy, or the process restarts: nothing is remembered.         *)
Forget ==
    /\ signal_times' = [t \in 0..MaxTime |-> 0]
    /\ trades_today' = 0 /\ consecutive_losses' = 0 /\ cooldown_until' = 0
    /\ last_reset' = -1
    /\ to_check' = 0 /\ approved' = 0
    /\ pause' = [from |-> 0, until |-> 0]
    /\ UNCHANGED time

BreakerInit ==
    /\ time = 0
    /\ signal_times = [t \in 0..MaxTime |-> 0]
    /\ trades_today = 0 /\ consecutive_losses = 0 /\ cooldown_until = 0
    /\ last_reset = -1
    /\ to_check = 0 /\ approved = 0
    /\ pause = [from |-> 0, until |-> 0]

BreakerNext ==
    \/ TickBegins
    \/ BlockedByCooldown \/ BlockedByLimit \/ BlockedByLosses \/ LetThrough
    \/ RecordSignal \/ DropSignal
    \/ \E won \in BOOLEAN : RecordTrade(won)
    \/ TimePasses \/ Forget

BreakerSpec == BreakerInit /\ [][BreakerNext]_BreakerVars

-----------------------------------------------------------------------------
BreakerTypeOK ==
    /\ time \in 0..MaxTime
    /\ signal_times \in [0..MaxTime -> Nat]
    /\ trades_today \in Nat /\ consecutive_losses \in Nat /\ cooldown_until \in Nat
    /\ last_reset \in -1..MaxTime
    /\ to_check \in 0..MaxBatch /\ approved \in 0..MaxBatch
    /\ pause \in [from : Nat, until : Nat]

(* The limit on signals per hour is checked before any signal of the tick  *)
(* is recorded, so one tick may overrun it, by its size less one and no    *)
(* more: the next tick sees what was recorded.                             *)
OverrunIsOneTick ==
    SignalsThisHour + approved <= MaxSignalsHour + MaxBatch - 1

(* As long as the process runs, a cooldown keeps the strategy quiet until  *)
(* it ends, or until the date changes.                                     *)
CooldownHolds ==
    [][RecordSignal => \/ time >= pause.until
                       \/ pause.from \div DayLength # Today]_BreakerVars
=============================================================================
