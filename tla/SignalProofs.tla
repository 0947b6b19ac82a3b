---------------------------- MODULE SignalProofs ----------------------------
(* What becomes of a signal before it is an order: the circuit breaker,    *)
(* and the router with the portfolio manager. The two share no state.      *)
EXTENDS CircuitBreaker, SignalSelection, FiniteSums, SequenceTheorems, TLAPS

-----------------------------------------------------------------------------
(* CooldownHolds for every limit, length and clock. What a check let       *)
(* through stays harmless until it is recorded: no check of the same tick  *)
(* can begin a cooldown after one has let a signal through, and the day's  *)
(* counters are those of the running cooldown as long as its date lasts.   *)
BreakerTypes ==
    /\ time \in Nat
    /\ consecutive_losses \in Nat /\ cooldown_until \in Nat /\ last_reset \in Int
    /\ to_check \in Nat /\ approved \in Nat
    /\ pause \in [from : Nat, until : Nat]

PauseOver == time >= pause.until \/ pause.from \div DayLength # Today

BreakerInv ==
    /\ BreakerTypes
    /\ pause.from <= time
    /\ approved > 0 => PauseOver
    /\ to_check > 0 /\ approved > 0 => last_reset = Today /\ consecutive_losses < MaxLosses
    /\ ~PauseOver => last_reset = Today /\ cooldown_until = pause.until

LEMMA DayAssumption == DayLength \in Nat \ {0} /\ MaxLosses \in Nat \ {0}
                          /\ CooldownLength \in Nat \ {0} /\ MaxBatch \in Nat
  BY BreakerAssumption

LEMMA DivIs ==
    ASSUME NEW a \in Nat, NEW d \in Nat \ {0}
    PROVE  a \div d \in Nat /\ d * (a \div d) <= a /\ a < d * (a \div d) + d
  OBVIOUS

LEMMA Between ==
    ASSUME NEW p \in Nat, NEW q \in Nat, NEW d \in Nat \ {0}, q < p
    PROVE  d * q + d <= d * p
  <1>1. q + 1 <= p
    OBVIOUS
  <1>2. \E k \in Nat : p = q + 1 + k
    <2> WITNESS p - (q + 1) \in Nat
    <2> QED
      BY <1>1
  <1>3. PICK k \in Nat : p = q + 1 + k
    BY <1>2
  <1>4. d * p = d * q + d + d * k /\ d * k \in Nat
    BY <1>3
  <1> QED
    BY <1>4

(* A later time is on no earlier date.                                     *)
LEMMA DatesGrow ==
    ASSUME NEW a \in Nat, NEW b \in Nat, NEW d \in Nat \ {0}, a <= b
    PROVE  a \div d <= b \div d
  <1> DEFINE p == a \div d
             q == b \div d
  <1>1. p \in Nat /\ d * p <= a
    BY DivIs
  <1>2. q \in Nat /\ b < d * q + d
    BY DivIs
  <1> HIDE DEF p, q
  <1>3. ASSUME q < p PROVE FALSE
    <2>1. d * q + d <= d * p
      BY <1>1, <1>2, <1>3, Between
    <2>2. d * p \in Nat /\ d * q \in Nat
      BY <1>1, <1>2
    <2> QED
      BY <1>1, <1>2, <2>1, <2>2
  <1>4. p <= q
    BY <1>1, <1>2, <1>3
  <1> QED
    BY <1>4 DEF p, q

-----------------------------------------------------------------------------
LEMMA BreakerInitInv == BreakerInit => BreakerInv
  BY DayAssumption DEF BreakerInit, BreakerInv, BreakerTypes, PauseOver

LEMMA TodayIs == BreakerTypes => Today \in Int
  BY DayAssumption, DivIs DEF BreakerTypes, Today

LEMMA SameTime ==
    ASSUME UNCHANGED time
    PROVE  Today' = Today /\ (UNCHANGED pause => PauseOver' = PauseOver)
  BY DEF Today, PauseOver

(* The day's counters as a check finds them.                               *)
LEMMA CountersOfToday ==
    ASSUME BreakerInv
    PROVE  /\ LossesToday \in Nat /\ CooldownToday \in Nat
           /\ ~PauseOver => CooldownToday = pause.until
           /\ to_check > 0 /\ approved > 0 => LossesToday < MaxLosses
  BY DEF BreakerInv, BreakerTypes, LossesToday, CooldownToday, NewDay

(* A check that begins no cooldown.                                        *)
LEMMA QuietCheckKeeps ==
    ASSUME BreakerInv, NEW passes \in {0, 1},
           to_check > 0, to_check' = to_check - 1,
           last_reset' = Today, UNCHANGED <<time, pause>>,
           cooldown_until' = CooldownToday, consecutive_losses' = LossesToday,
           approved' = approved + passes,
           passes = 1 => ~InCooldown /\ LossesToday < MaxLosses
    PROVE  BreakerInv'
  <1>1. /\ to_check \in Nat \ {0} /\ to_check' = to_check - 1
        /\ last_reset' = Today /\ UNCHANGED <<time, pause>>
        /\ cooldown_until' = CooldownToday /\ consecutive_losses' = LossesToday
    BY DEF BreakerInv, BreakerTypes
  <1>2. approved' = approved + passes
    OBVIOUS
  <1>3. BreakerTypes'
    BY <1>1, <1>2, CountersOfToday, TodayIs DEF BreakerInv, BreakerTypes
  <1>4. Today' = Today /\ PauseOver' = PauseOver
    BY <1>1, SameTime
  <1>5. passes = 1 => PauseOver
    <2>1. ASSUME passes = 1, ~PauseOver PROVE FALSE
      <3>1. CooldownToday = pause.until /\ ~(time < CooldownToday)
        BY <2>1, CountersOfToday DEF InCooldown
      <3> QED
        BY <2>1, <3>1 DEF PauseOver, BreakerInv, BreakerTypes
    <2> QED
      BY <2>1
  <1>6. approved' > 0 => PauseOver'
    BY <1>2, <1>4, <1>5 DEF BreakerInv, BreakerTypes
  <1>7. to_check' > 0 /\ approved' > 0 =>
           last_reset' = Today' /\ consecutive_losses' < MaxLosses
    BY <1>1, <1>2, <1>4, CountersOfToday DEF BreakerInv, BreakerTypes
  <1>8. ~PauseOver' => last_reset' = Today' /\ cooldown_until' = pause'.until
    BY <1>1, <1>4, CountersOfToday
  <1>9. pause'.from <= time'
    BY <1>1 DEF BreakerInv
  <1> QED
    BY <1>3, <1>6, <1>7, <1>8, <1>9 DEF BreakerInv

(* The check that begins one follows on no signal let through.             *)
LEMMA PausingCheckKeeps ==
    ASSUME BreakerInv, BlockedByLosses
    PROVE  BreakerInv'
  <1>1. /\ to_check \in Nat \ {0} /\ to_check' = to_check - 1
        /\ last_reset' = Today /\ UNCHANGED time
        /\ cooldown_until' = time + CooldownLength /\ consecutive_losses' = 0
        /\ pause' = [from |-> time, until |-> time + CooldownLength]
        /\ approved' = approved /\ LossesToday >= MaxLosses
    BY DEF BlockedByLosses, CheckSignal, BreakerInv, BreakerTypes
  <1>2. approved = 0
    BY <1>1, CountersOfToday, DayAssumption DEF BreakerInv, BreakerTypes
  <1>3. BreakerTypes'
    BY <1>1, TodayIs, DayAssumption DEF BreakerInv, BreakerTypes
  <1>4. Today' = Today
    BY <1>1 DEF Today
  <1> QED
    BY <1>1, <1>2, <1>3, <1>4, DayAssumption DEF BreakerInv, BreakerTypes, PauseOver

LEMMA ChecksKeep ==
    ASSUME BreakerInv, BlockedByCooldown \/ BlockedByLimit \/ BlockedByLosses \/ LetThrough
    PROVE  BreakerInv'
  <1>1. ASSUME NEW kept, CheckSignal(kept, FALSE, FALSE) PROVE BreakerInv'
    <2>1. approved' = approved + 0
      BY <1>1 DEF CheckSignal, BreakerInv, BreakerTypes
    <2> QED
      BY <1>1, <2>1, QuietCheckKeeps DEF CheckSignal
  <1>2. CASE LetThrough
    <2>1. CheckSignal(InWindow, FALSE, TRUE) /\ ~InCooldown /\ LossesToday < MaxLosses
      BY <1>2 DEF LetThrough
    <2> QED
      BY <2>1, QuietCheckKeeps DEF CheckSignal
  <1> QED
    BY <1>1, <1>2, PausingCheckKeeps DEF BlockedByCooldown, BlockedByLimit

LEMMA RecordingKeeps ==
    ASSUME BreakerInv, RecordSignal \/ DropSignal \/ TickBegins
                         \/ (\E won \in BOOLEAN : RecordTrade(won))
    PROVE  BreakerInv'
  <1>1. UNCHANGED <<time, pause>>
    BY DEF RecordSignal, DropSignal, TickBegins, RecordTrade
  <1>2. Today' = Today /\ PauseOver' = PauseOver
    BY <1>1, SameTime
  <1>3. CASE RecordSignal
    <2>1. BreakerTypes'
      BY <1>3, TodayIs, CountersOfToday DEF RecordSignal, BreakerInv, BreakerTypes
    <2> QED
      BY <1>1, <1>2, <1>3, <2>1, CountersOfToday DEF RecordSignal, BreakerInv, BreakerTypes
  <1>4. CASE DropSignal
    BY <1>1, <1>2, <1>4 DEF DropSignal, BreakerInv, BreakerTypes
  <1>5. CASE TickBegins
    BY <1>1, <1>2, <1>5, DayAssumption DEF TickBegins, BreakerInv, BreakerTypes
  <1>6. ASSUME NEW won \in BOOLEAN, RecordTrade(won) PROVE BreakerInv'
    <2>1. /\ last_reset' = Today /\ cooldown_until' = CooldownToday
          /\ consecutive_losses' \in {0, LossesToday + 1}
          /\ UNCHANGED <<to_check, approved>> /\ to_check = 0
      BY <1>6 DEF RecordTrade
    <2>2. BreakerTypes'
      BY <1>1, <2>1, TodayIs, CountersOfToday DEF BreakerInv, BreakerTypes
    <2> QED
      BY <1>1, <1>2, <2>1, <2>2, CountersOfToday DEF BreakerInv, BreakerTypes
  <1> QED
    BY <1>3, <1>4, <1>5, <1>6

(* A date once passed does not return, and a cooldown of today was one of  *)
(* today before.                                                           *)
LEMMA TimeKeeps ==
    ASSUME BreakerInv, TimePasses
    PROVE  BreakerInv'
  <1>1. /\ to_check = 0 /\ time' = time + 1 /\ time \in Nat /\ time' \in Nat
        /\ UNCHANGED <<consecutive_losses, cooldown_until, last_reset, to_check, approved, pause>>
    BY DEF TimePasses, BreakerInv, BreakerTypes
  <1>2. pause.from \in Nat /\ pause.until \in Nat /\ pause.from <= time
    BY DEF BreakerInv, BreakerTypes
  <1>3. /\ pause.from \div DayLength <= Today /\ Today <= Today'
        /\ pause.from \div DayLength \in Nat /\ Today \in Nat /\ Today' \in Nat
    <2>1. pause.from \div DayLength <= time \div DayLength
      BY <1>1, <1>2, DatesGrow, DayAssumption
    <2>2. time \div DayLength <= time' \div DayLength
      <3> HIDE DEF BreakerInv
      <3>1. time <= time'
        BY <1>1
      <3> QED
        BY <1>1, <3>1, DatesGrow, DayAssumption
    <2> QED
      BY <1>1, <1>2, <2>1, <2>2, DivIs, DayAssumption DEF Today
  <1>4. PauseOver => PauseOver'
    <2>1. CASE time >= pause.until
      BY <1>1, <1>2, <2>1 DEF PauseOver
    <2>2. CASE pause.from \div DayLength # Today
      BY <1>1, <1>3, <2>2 DEF PauseOver
    <2> QED
      BY <2>1, <2>2 DEF PauseOver
  <1>5. ~PauseOver' => Today' = Today
    BY <1>1, <1>3 DEF PauseOver
  <1> QED
    BY <1>1, <1>2, <1>4, <1>5 DEF BreakerInv, BreakerTypes

LEMMA ForgetKeeps ==
    ASSUME BreakerInv, Forget
    PROVE  BreakerInv'
  BY DayAssumption DEF Forget, BreakerInv, BreakerTypes, PauseOver

LEMMA BreakerKeepsInv == BreakerInv /\ [BreakerNext]_BreakerVars => BreakerInv'
  <1>1. ASSUME BreakerInv, UNCHANGED BreakerVars PROVE BreakerInv'
    BY <1>1 DEF BreakerVars, BreakerInv, BreakerTypes, PauseOver, Today
  <1> QED
    BY <1>1, ChecksKeep, RecordingKeeps, TimeKeeps, ForgetKeeps DEF BreakerNext

THEOREM BreakerInvHolds == BreakerSpec => []BreakerInv
  BY BreakerInitInv, BreakerKeepsInv, PTL DEF BreakerSpec

(* No signal is executed in a cooldown before it ends or the date changes. *)
THEOREM CooldownIsKept == BreakerSpec => CooldownHolds
  <1>1. BreakerInv => (RecordSignal => \/ time >= pause.until
                                       \/ pause.from \div DayLength # Today)
    <2>1. ASSUME BreakerInv, RecordSignal PROVE PauseOver
      BY <2>1 DEF BreakerInv, RecordSignal
    <2> QED
      BY <2>1 DEF PauseOver
  <1>2. BreakerSpec => [][RecordSignal => \/ time >= pause.until
                               \/ pause.from \div DayLength # Today]_BreakerVars
    BY <1>1, BreakerInvHolds, PTL DEF BreakerSpec
  <1> QED
    BY <1>2, PTL DEF CooldownHolds
-----------------------------------------------------------------------------
(* How far a tick may overrun the limit on signals per hour. A signal is   *)
(* let through only when the hour has room, and none is recorded until the *)
(* last signal of the tick is checked.                                     *)
Hours == 0..MaxTime

OverrunInv ==
    /\ time \in Hours /\ signal_times \in [Hours -> Nat]
    /\ to_check \in Nat /\ approved \in Nat /\ to_check + approved <= MaxBatch
    /\ to_check > 0 /\ approved > 0 => SignalsThisHour < MaxSignalsHour
    /\ OverrunIsOneTick

LEMMA RateAssumption ==
    Hour \in Nat \ {0} /\ MaxSignalsHour \in Nat \ {0} /\ MaxBatch \in Nat \ {0} /\ MaxTime \in Nat
  BY BreakerAssumption

LEMMA HoursFinite == IsFiniteSet(Hours)
  BY RateAssumption, FS_Interval DEF Hours

LEMMA WindowIs ==
    InWindow = [t \in Hours |-> IF t > time - Hour THEN signal_times[t] ELSE 0]
  BY DEF InWindow, Hours

LEMMA WindowCounts ==
    ASSUME OverrunInv
    PROVE  /\ \A t \in Hours : InWindow[t] \in Int
           /\ SignalsThisHour \in Int
  <1>1. \A t \in Hours : InWindow[t] \in Int
    BY WindowIs DEF OverrunInv
  <1> QED
    BY <1>1, HoursFinite, SumType DEF SignalsThisHour, Hours

(* Nobody counts before the first signal.                                  *)
LEMMA NoneCounted ==
    ASSUME \A t \in Hours : signal_times[t] = 0
    PROVE  SignalsThisHour = 0
  <1>1. \A t \in Hours : InWindow[t] = 0
    BY WindowIs
  <1> QED
    BY <1>1, HoursFinite, SumOfZeros DEF SignalsThisHour, Hours

LEMMA OverrunInit == BreakerInit => OverrunInv
  <1> SUFFICES ASSUME BreakerInit PROVE OverrunInv
    OBVIOUS
  <1>1. SignalsThisHour = 0
    BY NoneCounted DEF BreakerInit, Hours
  <1> QED
    BY <1>1, RateAssumption DEF BreakerInit, OverrunInv, OverrunIsOneTick, Hours

(* Forgetting what is out of the window changes no count.                  *)
LEMMA PrunedCount ==
    ASSUME OverrunInv, UNCHANGED time, signal_times' \in {signal_times, InWindow}
    PROVE  signal_times' \in [Hours -> Nat] /\ SignalsThisHour' = SignalsThisHour
  <1>1. signal_times' \in [Hours -> Nat]
    BY WindowIs DEF OverrunInv
  <1>2. InWindow' = InWindow
    BY WindowIs DEF OverrunInv, InWindow, Hours
  <1> QED
    BY <1>1, <1>2 DEF SignalsThisHour

LEMMA ChecksCount ==
    ASSUME OverrunInv, BlockedByCooldown \/ BlockedByLimit \/ BlockedByLosses \/ LetThrough
    PROVE  OverrunInv'
  <1>1. /\ to_check > 0 /\ to_check' = to_check - 1 /\ UNCHANGED time
        /\ signal_times' \in {signal_times, InWindow}
    BY DEF BlockedByCooldown, BlockedByLimit, BlockedByLosses, LetThrough, CheckSignal
  <1>2. signal_times' \in [Hours -> Nat] /\ SignalsThisHour' = SignalsThisHour
    BY <1>1, PrunedCount
  <1>3. \/ approved' = approved
        \/ approved' = approved + 1 /\ SignalsThisHour < MaxSignalsHour
    BY DEF BlockedByCooldown, BlockedByLimit, BlockedByLosses, LetThrough, CheckSignal,
       WithinLimits
  <1>4. PICK w \in Int : w = SignalsThisHour /\ w = SignalsThisHour'
    BY <1>2, WindowCounts
  <1>5. time' \in Hours /\ to_check \in Nat /\ approved \in Nat /\ to_check + approved <= MaxBatch
    BY <1>1 DEF OverrunInv
  <1>6. PICK b \in Nat, m \in Nat : b = MaxBatch /\ m = MaxSignalsHour
    BY RateAssumption
  <1>7. PICK c \in Nat, a \in Nat : c = to_check /\ a = approved /\ c > 0 /\ c + a <= b
    BY <1>1, <1>5, <1>6
  <1>8. to_check' = c - 1 /\ c - 1 \in Nat
    BY <1>1, <1>7
  <1>9. a > 0 => w < m
    BY <1>4, <1>6, <1>7 DEF OverrunInv
  <1>10. w + a <= m + b - 1
    BY <1>4, <1>6, <1>7 DEF OverrunInv, OverrunIsOneTick
  <1>11. PICK d \in Nat : d = approved' /\ (d = a \/ (d = a + 1 /\ w < m))
    <2>1. SignalsThisHour < MaxSignalsHour => w < m
      <3>1. SignalsThisHour = w /\ MaxSignalsHour = m
        BY <1>4, <1>6
      <3> QED
        BY <3>1, Zenon
    <2>2. approved' = a \/ (approved' = a + 1 /\ w < m)
      <3>1. approved = a
        BY <1>7
      <3> QED
        BY <1>3, <3>1, <2>1, Zenon
    <2>3. approved' \in Nat
      BY <2>2
    <2> QED
      BY <2>2, <2>3, Zenon
  <1>12. (c - 1) + d <= b /\ (d > 0 => w < m) /\ w + d <= m + b - 1
    <2>1. c > 0 /\ c + a <= b /\ (a > 0 => w < m) /\ w + a <= m + b - 1
      BY <1>7, <1>9, <1>10
    <2>2. d = a \/ (d = a + 1 /\ w < m)
      BY <1>11
    <2> QED
      BY <2>1, <2>2
  <1> QED
    BY <1>2, <1>4, <1>5, <1>6, <1>8, <1>11, <1>12 DEF OverrunInv, OverrunIsOneTick

(* A record moves a signal from those let through to those counted.        *)
LEMMA RecordCounts ==
    ASSUME OverrunInv, RecordSignal
    PROVE  OverrunInv'
  <1>1. /\ to_check = 0 /\ approved > 0 /\ approved' = approved - 1
        /\ signal_times' = [signal_times EXCEPT ![time] = @ + 1]
        /\ UNCHANGED <<time, to_check>>
    BY DEF RecordSignal
  <1>2. PICK n \in Nat : n = signal_times[time]
    BY DEF OverrunInv
  <1>3. signal_times' = [signal_times EXCEPT ![time] = n + 1]
    BY <1>1, <1>2
  <1>4. signal_times' \in [Hours -> Nat] /\ signal_times'[time] = n + 1
        /\ \A t \in Hours \ {time} : signal_times'[t] = signal_times[t]
    BY <1>2, <1>3 DEF OverrunInv
  <1>5. InWindow' = [t \in Hours |-> IF t > time - Hour THEN signal_times'[t] ELSE 0]
    BY <1>1 DEF InWindow, Hours
  <1>6. time \in Hours /\ time \in Int /\ time > time - Hour
    BY RateAssumption DEF OverrunInv, Hours
  <1>7. /\ InWindow'[time] = InWindow[time] + 1
        /\ \A t \in Hours \ {time} : InWindow'[t] = InWindow[t]
    BY <1>2, <1>4, <1>5, <1>6, WindowIs
  <1>8. SignalsThisHour' = SignalsThisHour + 1
    <2>1. PICK v : v = InWindow
      OBVIOUS
    <2>2. PICK u : u = InWindow'
      OBVIOUS
    <2>3. SumFunctionOnSet(u, Hours) = SumFunctionOnSet(v, Hours) + 1
      BY <1>6, <1>7, <2>1, <2>2, WindowCounts, HoursFinite, SumOneMore
    <2> QED
      BY <2>1, <2>2, <2>3 DEF SignalsThisHour, Hours
  <1>9. PICK w \in Int : w = SignalsThisHour /\ SignalsThisHour' = w + 1
    BY <1>8, WindowCounts
  <1> QED
    BY <1>1, <1>4, <1>9, RateAssumption DEF OverrunInv, OverrunIsOneTick

(* As time passes signals leave the window and none enters it.             *)
LEMMA TimeCounts ==
    ASSUME OverrunInv, TimePasses
    PROVE  OverrunInv'
  <1>1. /\ time < MaxTime /\ to_check = 0 /\ time' = time + 1
        /\ UNCHANGED <<signal_times, to_check, approved>>
    BY DEF TimePasses
  <1>2. time \in Int /\ time' \in Hours
    BY <1>1, RateAssumption DEF OverrunInv, Hours
  <1>3. InWindow' = [t \in Hours |-> IF t > (time + 1) - Hour THEN signal_times[t] ELSE 0]
    BY <1>1 DEF InWindow, Hours
  <1>4. \A t \in Hours : InWindow'[t] \in Int /\ InWindow[t] \in Int /\ InWindow'[t] <= InWindow[t]
    BY <1>2, <1>3, WindowIs, RateAssumption DEF OverrunInv, Hours
  <1>5. SignalsThisHour' <= SignalsThisHour /\ SignalsThisHour' \in Int
    <2>1. PICK v : v = InWindow
      OBVIOUS
    <2>2. PICK u : u = InWindow'
      OBVIOUS
    <2>3. SumFunctionOnSet(u, Hours) <= SumFunctionOnSet(v, Hours)
      BY <1>4, <2>1, <2>2, HoursFinite, SumMonotone
    <2>4. SumFunctionOnSet(u, Hours) \in Int
      BY <1>4, <2>2, HoursFinite, SumType
    <2> QED
      BY <2>1, <2>2, <2>3, <2>4 DEF SignalsThisHour, Hours
  <1>6. SignalsThisHour \in Int
    BY WindowCounts
  <1>7. PICK a \in Nat : a = approved /\ a = approved'
    BY <1>1 DEF OverrunInv
  <1>8. PICK b \in Nat, m \in Nat : b = MaxBatch /\ m = MaxSignalsHour
    BY RateAssumption
  <1>9. PICK w \in Int, x \in Int : w = SignalsThisHour /\ x = SignalsThisHour' /\ x <= w
    BY <1>5, <1>6
  <1>10. w + a <= m + b - 1 /\ 0 + a <= b
    BY <1>1, <1>7, <1>8, <1>9 DEF OverrunInv, OverrunIsOneTick
  <1>11. x + a <= m + b - 1
    <2>1. x <= w /\ w + a <= m + b - 1
      BY <1>9, <1>10
    <2> QED
      BY <2>1
  <1>12. to_check' = 0 /\ approved' = a /\ signal_times' \in [Hours -> Nat]
    BY <1>1, <1>7 DEF OverrunInv
  <1>13. to_check' + approved' <= MaxBatch
    BY <1>8, <1>10, <1>12
  <1>14. SignalsThisHour' + approved' <= MaxSignalsHour + MaxBatch - 1
    BY <1>8, <1>9, <1>11, <1>12
  <1> QED
    BY <1>2, <1>12, <1>13, <1>14 DEF OverrunInv, OverrunIsOneTick

LEMMA OthersCount ==
    ASSUME OverrunInv, TickBegins \/ DropSignal \/ (\E won \in BOOLEAN : RecordTrade(won))
                         \/ UNCHANGED BreakerVars
    PROVE  OverrunInv'
  <1>1. /\ UNCHANGED <<time, signal_times>>
        /\ \/ approved = 0 /\ to_check' \in 1..MaxBatch /\ approved' = approved
           \/ to_check' = to_check /\ approved' = approved - 1 /\ approved > 0 /\ to_check = 0
           \/ UNCHANGED <<to_check, approved>>
    BY DEF TickBegins, DropSignal, RecordTrade, BreakerVars
  <1>2. SignalsThisHour' = SignalsThisHour
    BY <1>1, PrunedCount
  <1>3. PICK w \in Int : w = SignalsThisHour /\ w = SignalsThisHour'
    BY <1>2, WindowCounts
  <1>4. PICK b \in Nat, m \in Nat : b = MaxBatch /\ m = MaxSignalsHour /\ m > 0
    BY RateAssumption
  <1>5. PICK c \in Nat, a \in Nat : c = to_check /\ a = approved /\ c + a <= b
    BY <1>4 DEF OverrunInv
  <1>6. PICK e \in Nat, d \in Nat :
           /\ e = to_check' /\ d = approved'
           /\ \/ a = 0 /\ e <= b /\ d = 0
              \/ e = c /\ c = 0 /\ d + 1 = a
              \/ e = c /\ d = a
    BY <1>1, <1>4, <1>5
  <1>7. w + a <= m + b - 1 /\ (c > 0 /\ a > 0 => w < m)
    BY <1>3, <1>4, <1>5 DEF OverrunInv, OverrunIsOneTick
  <1>8. e + d <= b /\ (e > 0 /\ d > 0 => w < m) /\ w + d <= m + b - 1
    <2>1. c + a <= b /\ w + a <= m + b - 1 /\ (c > 0 /\ a > 0 => w < m)
      BY <1>5, <1>7
    <2>2. (a = 0 /\ e <= b /\ d = 0) \/ (e = c /\ c = 0 /\ d + 1 = a) \/ (e = c /\ d = a)
      BY <1>6
    <2> QED
      BY <2>1, <2>2
  <1> QED
    BY <1>1, <1>3, <1>4, <1>6, <1>8 DEF OverrunInv, OverrunIsOneTick

LEMMA ForgetCounts == ASSUME OverrunInv, Forget PROVE OverrunInv'
  <1>1. SignalsThisHour' = 0
    <2>1. \A t \in Hours : InWindow'[t] = 0
      BY DEF Forget, InWindow, Hours
    <2> QED
      BY <2>1, HoursFinite, SumOfZeros DEF SignalsThisHour, Hours
  <1> QED
    BY <1>1, RateAssumption DEF Forget, OverrunInv, OverrunIsOneTick, Hours

(* The hourly limit is overrun by no more than one tick brings, less one,  *)
(* however the signals of the tick are recorded (check, record_signal).    *)
THEOREM OverrunIsBounded == BreakerSpec => []OverrunIsOneTick
  <1>1. OverrunInv /\ [BreakerNext]_BreakerVars => OverrunInv'
    BY ChecksCount, RecordCounts, TimeCounts, OthersCount, ForgetCounts DEF BreakerNext
  <1>2. OverrunInv => OverrunIsOneTick
    BY DEF OverrunInv
  <1> QED
    BY <1>1, <1>2, OverrunInit, PTL DEF BreakerSpec

-----------------------------------------------------------------------------
CountersTyped == trades_today \in Nat /\ last_reset \in -1..MaxTime

LEMMA TodayIsNoLater == ASSUME time \in Hours PROVE Today \in Hours
  <1>1. PICK k \in Nat : DayLength = k + 1
    <2>1. DayLength - 1 \in Nat /\ DayLength = (DayLength - 1) + 1
      BY DayAssumption
    <2> QED
      BY <2>1
  <1>2. PICK q \in Nat : q = Today /\ DayLength * q <= time
    BY RateAssumption, DayAssumption, DivIs DEF Hours, Today
  <1>3. (k + 1) * q = k * q + q /\ k * q \in Nat
    BY <1>1, <1>2
  <1>4. PICK r \in Nat : r = k * q
    BY <1>3
  <1>5. r + q <= time
    BY <1>1, <1>2, <1>3, <1>4
  <1> QED
    BY <1>2, <1>5, RateAssumption DEF Hours

LEMMA CountersStep ==
    ASSUME OverrunInv, CountersTyped, [BreakerNext]_BreakerVars
    PROVE  CountersTyped'
  <1>1. Today \in -1..MaxTime
    BY TodayIsNoLater, RateAssumption DEF Hours, OverrunInv
  <1>2. TradesToday \in Nat
    BY DEF TradesToday, CountersTyped
  <1>3. CASE BlockedByCooldown \/ BlockedByLimit \/ BlockedByLosses \/ LetThrough
    BY <1>1, <1>2, <1>3 DEF BlockedByCooldown, BlockedByLimit, BlockedByLosses, LetThrough,
       CheckSignal, CountersTyped
  <1>4. CASE RecordSignal
    BY <1>1, <1>2, <1>4 DEF RecordSignal, CountersTyped
  <1>5. ASSUME NEW won \in BOOLEAN, RecordTrade(won) PROVE CountersTyped'
    BY <1>1, <1>2, <1>5 DEF RecordTrade, CountersTyped
  <1>6. CASE TickBegins \/ DropSignal \/ TimePasses
    BY <1>6 DEF TickBegins, DropSignal, TimePasses, CountersTyped
  <1>7. CASE Forget
    BY <1>7, RateAssumption DEF Forget, CountersTyped
  <1>8. CASE UNCHANGED BreakerVars
    BY <1>8 DEF BreakerVars, CountersTyped
  <1> QED
    BY <1>3, <1>4, <1>5, <1>6, <1>7, <1>8 DEF BreakerNext

BreakerAllInv == BreakerInv /\ OverrunInv /\ CountersTyped

LEMMA BreakerAllInit == BreakerInit => BreakerAllInv
  <1>1. BreakerInit => CountersTyped
    BY RateAssumption DEF BreakerInit, CountersTyped
  <1> QED
    BY <1>1, BreakerInitInv, OverrunInit DEF BreakerAllInv

LEMMA BreakerAllStep == BreakerAllInv /\ [BreakerNext]_BreakerVars => BreakerAllInv'
  <1> SUFFICES ASSUME BreakerAllInv, [BreakerNext]_BreakerVars PROVE BreakerAllInv'
    OBVIOUS
  <1>1. OverrunInv'
    BY ChecksCount, RecordCounts, TimeCounts, OthersCount, ForgetCounts
       DEF BreakerNext, BreakerAllInv
  <1> QED
    BY <1>1, BreakerKeepsInv, CountersStep DEF BreakerAllInv

LEMMA BreakerTyped == BreakerAllInv => BreakerTypeOK
  BY RateAssumption DEF BreakerAllInv, BreakerInv, BreakerTypes, OverrunInv, CountersTyped,
     BreakerTypeOK, Hours

(* The counters of the breaker stay counters, its dates on the clock.      *)
THEOREM BreakerTypeCorrect == BreakerSpec => []BreakerTypeOK
  BY BreakerAllInit, BreakerAllStep, BreakerTyped, PTL DEF BreakerSpec

-----------------------------------------------------------------------------
(* The selection: SelectionIsSafe and NoneDroppedInVain for any signals,   *)
(* groups and caps. Sorting and picking are what they should be (ranks in  *)
(* a finite total order are all taken, once each), every list along the    *)
(* way is drawn from the one before without using a member twice, and a    *)
(* signal the filter drops has a kept one before it.                       *)

(* R is a strict total order on I.                                         *)
Orders(R, I) ==
    /\ \A i \in I : <<i, i>> \notin R
    /\ \A i, j \in I : i # j => <<i, j>> \in R \/ <<j, i>> \in R
    /\ \A i, j, k \in I : <<i, j>> \in R /\ <<j, k>> \in R => <<i, k>> \in R

(* How many come before i.                                                 *)
RankIn(R, I, i) == Cardinality({j \in I : <<j, i>> \in R})

(* In a finite set every rank is taken.                                    *)
LEMMA Ranks ==
    ASSUME NEW I, IsFiniteSet(I), NEW R, Orders(R, I)
    PROVE  /\ \A i \in I : RankIn(R, I, i) \in Nat /\ RankIn(R, I, i) + 1 \in 1..Cardinality(I)
           /\ \A k \in 1..Cardinality(I) : \E i \in I : RankIn(R, I, i) = k - 1
           /\ \A i, k \in I : <<i, k>> \in R => RankIn(R, I, i) < RankIn(R, I, k)
<1> USE DEF Orders
<1> DEFINE Below(i) == {j \in I : <<j, i>> \in R}
           f == [i \in I |-> Cardinality(Below(i)) + 1]
<1>1. PICK n \in Nat : n = Cardinality(I)
  BY FS_CardinalityType
<1>2. \A i \in I : IsFiniteSet(Below(i)) /\ Cardinality(Below(i)) \in Nat
  <2>1. \A i \in I : Below(i) \in SUBSET I
    OBVIOUS
  <2> HIDE DEF Below
  <2> QED
    BY <2>1, FS_Subset, FS_CardinalityType
<1>3. ASSUME NEW i \in I, NEW k \in I, <<i, k>> \in R
      PROVE  Cardinality(Below(i)) < Cardinality(Below(k))
  <2>1. Below(i) \cup {i} \in SUBSET Below(k) /\ i \notin Below(i)
    BY <1>3
  <2> HIDE DEF Below
  <2>2. Cardinality(Below(i) \cup {i}) = Cardinality(Below(i)) + 1
    BY <1>2, <2>1, FS_AddElement
  <2>3. Cardinality(Below(i) \cup {i}) <= Cardinality(Below(k))
    BY <1>2, <2>1, FS_Subset
  <2> QED
    BY <1>2, <2>2, <2>3
<1>4. ASSUME NEW i \in I PROVE Cardinality(Below(i)) + 1 \in 1..n
  <2>1. Below(i) \in SUBSET (I \ {i})
    OBVIOUS
  <2>2. IsFiniteSet(I \ {i}) /\ Cardinality(I \ {i}) = n - 1
    BY <1>1, FS_RemoveElement
  <2> HIDE DEF Below
  <2>3. Cardinality(Below(i)) <= n - 1
    BY <2>1, <2>2, FS_Subset
  <2>4. Cardinality(Below(i)) \in Nat
    BY <1>2
  <2> QED
    BY <1>1, <2>3, <2>4
<1>5. f \in [I -> 1..n]
  BY <1>4
<1>6. ASSUME NEW i \in I, NEW k \in I, f[i] = f[k] PROVE i = k
  <2>1. Cardinality(Below(i)) = Cardinality(Below(k))
    <3>1. Cardinality(Below(i)) \in Nat /\ Cardinality(Below(k)) \in Nat
      BY <1>2
    <3>2. Cardinality(Below(i)) + 1 = Cardinality(Below(k)) + 1
      BY <1>6
    <3> HIDE DEF Below
    <3> QED
      BY <3>1, <3>2
  <2>2. <<i, k>> \notin R /\ <<k, i>> \notin R
    <3> HIDE DEF Below, f
    <3> QED
      BY <1>2, <1>3, <2>1
  <2> QED
    BY <2>2
<1>7. f \in Injection(I, 1..n)
  <2> HIDE DEF f
  <2> QED
    BY <1>5, <1>6 DEF Injection, IsInjective
<1>8. IsFiniteSet(1..n) /\ Cardinality(1..n) = n
  <2>1. 1 \in Int /\ n \in Int /\ (1 > n => n = 0) /\ n - 1 + 1 = n
    BY <1>1
  <2> QED
    BY <2>1, FS_Interval
<1>9. f \in Surjection(I, 1..n)
  <2> HIDE DEF f
  <2> QED
    BY <1>1, <1>7, <1>8, FS_Injection
<1>10. \A k \in 1..n : \E i \in I : Cardinality(Below(i)) + 1 = k
  BY <1>9 DEF Surjection
<1>11. ASSUME NEW k \in 1..n PROVE \E i \in I : Cardinality(Below(i)) = k - 1
  <2>1. PICK i \in I : Cardinality(Below(i)) + 1 = k
    BY <1>10
  <2>2. Cardinality(Below(i)) \in Nat
    BY <1>2
  <2> HIDE DEF Below
  <2>3. Cardinality(Below(i)) = k - 1
    BY <2>1, <2>2
  <2> QED
    BY <2>3
<1>12. \A i, k \in I : <<i, k>> \in R => Cardinality(Below(i)) < Cardinality(Below(k))
  BY <1>3
<1>13. \A i \in I : RankIn(R, I, i) = Cardinality(Below(i))
  BY DEF RankIn
<1> HIDE DEF Below
<1> QED
  BY <1>1, <1>2, <1>4, <1>11, <1>12, <1>13

(* h lists I by rank.                                                      *)
Lists(h, I, R) ==
    \A k \in 1..Cardinality(I) : h[k] \in I /\ RankIn(R, I, h[k]) = k - 1

(* What is listed by rank is listed in order and completely.               *)
LEMMA InOrder ==
    ASSUME NEW I, IsFiniteSet(I), NEW R, Orders(R, I), NEW n \in Nat, n = Cardinality(I),
           NEW h, Lists(h, I, R)
    PROVE  /\ \A k, l \in 1..n : k < l => <<h[k], h[l]>> \in R
           /\ \A k, l \in 1..n : h[k] = h[l] => k = l
           /\ \A i \in I : \E k \in 1..n : h[k] = i
<1> DEFINE rank(i) == RankIn(R, I, i)
<1>1. /\ \A i \in I : rank(i) + 1 \in 1..n
      /\ \A i, k \in I : <<i, k>> \in R => rank(i) < rank(k)
  BY Ranks
<1>2. \A k \in 1..n : h[k] \in I /\ rank(h[k]) = k - 1
  BY DEF Lists
<1>3. \A i \in I : rank(i) \in Int
  BY Ranks
<1> HIDE DEF rank
<1>4. ASSUME NEW k \in 1..n, NEW l \in 1..n, h[k] = h[l] PROVE k = l
  <2>1. k - 1 = l - 1
    BY <1>2, <1>4
  <2> QED
    BY <2>1
<1>5. ASSUME NEW k \in 1..n, NEW l \in 1..n, k < l PROVE <<h[k], h[l]>> \in R
  <2>1. h[k] # h[l]
    BY <1>4, <1>5
  <2>2. ~(rank(h[l]) < rank(h[k]))
    BY <1>2, <1>5
  <2>3. <<h[l], h[k]>> \notin R
    BY <1>1, <1>2, <2>2
  <2> QED
    BY <1>2, <2>1, <2>3 DEF Orders
<1>6. ASSUME NEW i \in I PROVE \E k \in 1..n : h[k] = i
  <2>1. PICK r \in Int : r = rank(i)
    BY <1>3
  <2>2. r + 1 \in 1..n
    BY <1>1, <2>1
  <2>3. rank(h[r + 1]) = r /\ h[r + 1] \in I
    <3>1. rank(h[r + 1]) = (r + 1) - 1
      BY <1>2, <2>2
    <3> QED
      BY <1>2, <2>2, <3>1
  <2>4. <<h[r + 1], i>> \notin R /\ <<i, h[r + 1]>> \notin R
    BY <1>1, <2>1, <2>3
  <2> QED
    BY <2>2, <2>3, <2>4 DEF Orders
<1> QED
  BY <1>4, <1>5, <1>6

-----------------------------------------------------------------------------
(* Nth(I, .) lists the positions I in their order,                         *)
LEMMA NthInOrder ==
    ASSUME NEW I \in SUBSET Int, IsFiniteSet(I), NEW n \in Nat, n = Cardinality(I)
    PROVE  /\ \A k \in 1..n : Nth(I, k) \in I
           /\ \A k, l \in 1..n : k < l => Nth(I, k) < Nth(I, l)
           /\ \A i \in I : \E k \in 1..n : Nth(I, k) = i
<1> DEFINE R == {p \in I \X I : p[1] < p[2]}
           h == [k \in 1..n |-> Nth(I, k)]
<1>1. \A i, j \in I : <<j, i>> \in R <=> j < i
  OBVIOUS
<1>2. \A i \in I : RankIn(R, I, i) = Cardinality({j \in I : j < i})
  <2>1. \A i \in I : {j \in I : <<j, i>> \in R} = {j \in I : j < i}
    BY <1>1
  <2> HIDE DEF R
  <2> QED
    BY <2>1 DEF RankIn
<1> HIDE DEF R
<1>3. Orders(R, I)
  BY <1>1 DEF Orders
<1>4. \A k \in 1..n : \E i \in I : Cardinality({j \in I : j < i}) = k - 1
  <2>1. \A k \in 1..n : \E i \in I : RankIn(R, I, i) = k - 1
    BY <1>3, Ranks
  <2> QED
    BY <1>2, <2>1
<1>5. \A k \in 1..n : Nth(I, k) \in I /\ Cardinality({j \in I : j < Nth(I, k)}) = k - 1
  BY <1>4 DEF Nth
<1>6. Lists(h, I, R)
  BY <1>2, <1>5 DEF Lists
<1> HIDE DEF h
<1>7. /\ \A k, l \in 1..n : k < l => <<h[k], h[l]>> \in R
      /\ \A i \in I : \E k \in 1..n : h[k] = i
  BY <1>3, <1>6, InOrder
<1>8. \A k \in 1..n : h[k] = Nth(I, k)
  BY DEF h
<1> QED
  BY <1>1, <1>5, <1>7, <1>8

(* Confidence, and among equals the place, orders the signals at I.        *)
ByRank(s, I) == {p \in I \X I : Outranks(s, p[1], p[2])}

LEMMA RankOrders ==
    ASSUME NEW s, NEW I \in SUBSET Int, \A i \in I : s[i].confidence \in Int
    PROVE  /\ Orders(ByRank(s, I), I)
           /\ \A i, j \in I : <<i, j>> \in ByRank(s, I) <=> Outranks(s, i, j)
<1>1. \A i, j \in I : <<i, j>> \in ByRank(s, I) <=> Outranks(s, i, j)
  BY DEF ByRank
<1>2. /\ \A i \in I : ~Outranks(s, i, i)
      /\ \A i, j \in I : i # j => Outranks(s, i, j) \/ Outranks(s, j, i)
  BY DEF Outranks
<1>3. ASSUME NEW i \in I, NEW j \in I, NEW k \in I, Outranks(s, i, j), Outranks(s, j, k)
      PROVE  Outranks(s, i, k)
  BY <1>3 DEF Outranks
<1> QED
  BY <1>1, <1>2, <1>3 DEF Orders

(* and Ranked(s, .) the positions of a sequence by confidence.             *)
LEMMA RankedInOrder ==
    ASSUME NEW n \in Nat, NEW s, DOMAIN s = 1..n, \A i \in 1..n : s[i] \in Candidates
    PROVE  /\ \A k \in 1..n : Ranked(s, k) \in 1..n
           /\ \A k, l \in 1..n : k < l => Outranks(s, Ranked(s, k), Ranked(s, l))
           /\ \A k, l \in 1..n : Ranked(s, k) = Ranked(s, l) => k = l
           /\ \A i \in 1..n : \E k \in 1..n : Ranked(s, k) = i
<1> DEFINE I == 1..n
           R == ByRank(s, I)
           h == [k \in 1..n |-> Ranked(s, k)]
<1>1. DOMAIN s = I /\ I = 1..n /\ I \in SUBSET Int /\ \A i \in I : s[i].confidence \in Int
  BY SelectionAssumption
<1>2. IsFiniteSet(I) /\ Cardinality(I) = n
  <2>1. 1 \in Int /\ n \in Int /\ (1 > n => n = 0) /\ n - 1 + 1 = n
    OBVIOUS
  <2> QED
    BY <2>1, FS_Interval
<1> HIDE DEF I, R
<1>3. Orders(R, I) /\ \A i, j \in I : <<i, j>> \in R <=> Outranks(s, i, j)
  BY <1>1, RankOrders DEF R
<1>4. \A i \in I : RankIn(R, I, i) = Cardinality({j \in I : Outranks(s, j, i)})
  <2>1. \A i \in I : {j \in I : <<j, i>> \in R} = {j \in I : Outranks(s, j, i)}
    BY <1>3
  <2> QED
    BY <2>1 DEF RankIn
<1>5. \A k \in 1..n : \E i \in I : Cardinality({j \in I : Outranks(s, j, i)}) = k - 1
  <2>1. \A k \in 1..Cardinality(I) : \E i \in I : RankIn(R, I, i) = k - 1
    BY <1>2, <1>3, Ranks
  <2> QED
    BY <1>2, <1>4, <2>1
<1>6. \A k \in 1..n : Ranked(s, k) \in I
                      /\ Cardinality({j \in I : Outranks(s, j, Ranked(s, k))}) = k - 1
  BY <1>1, <1>5 DEF Ranked
<1>7. Lists(h, I, R)
  BY <1>2, <1>4, <1>6 DEF Lists
<1> HIDE DEF h
<1>8. /\ \A k, l \in 1..n : k < l => <<h[k], h[l]>> \in R
      /\ \A k, l \in 1..n : h[k] = h[l] => k = l
      /\ \A i \in I : \E k \in 1..n : h[k] = i
  <2>1. n = Cardinality(I)
    BY <1>2
  <2> QED
    BY <1>2, <1>3, <1>7, <2>1, InOrder
<1>9. \A k \in 1..n : h[k] = Ranked(s, k)
  BY DEF h
<1>10. \A k, l \in 1..n : k < l => Outranks(s, Ranked(s, k), Ranked(s, l))
  BY <1>3, <1>6, <1>8, <1>9
<1>11. \A k, l \in 1..n : Ranked(s, k) = Ranked(s, l) => k = l
  BY <1>8, <1>9
<1>12. \A i \in I : \E k \in 1..n : Ranked(s, k) = i
  BY <1>8, <1>9
<1> QED
  BY <1>1, <1>6, <1>10, <1>11, <1>12

-----------------------------------------------------------------------------
(* Lists of signals, and what is drawn from one.                           *)
LEMMA ListOf ==
    ASSUME NEW n \in Nat, NEW t \in [1..n -> Candidates]
    PROVE  t \in Seq(Candidates) /\ Len(t) = n
<1>1. t \in Seq(Candidates)
  BY SeqDef
<1>2. PICK m \in Nat : m = Len(t)
  BY <1>1, LenProperties
<1>3. 1..m = 1..n
  BY <1>1, <1>2, LenProperties
<1>4. m = n
  BY <1>3
<1> QED
  BY <1>1, <1>2, <1>4

LEMMA ListParts ==
    ASSUME NEW s \in Seq(Candidates)
    PROVE  /\ Len(s) \in Nat /\ DOMAIN s = 1..Len(s)
           /\ \A i \in DOMAIN s : s[i] \in Candidates /\ s[i].confidence \in Int
           /\ IsFiniteSet(DOMAIN s) /\ Cardinality(DOMAIN s) = Len(s)
<1>1. Len(s) \in Nat /\ DOMAIN s = 1..Len(s)
  BY LenProperties
<1>2. \A i \in DOMAIN s : s[i] \in Candidates
  BY <1>1, ElementOfSeq
<1>3. PICK n \in Nat : n = Len(s)
  BY <1>1
<1>4. IsFiniteSet(1..n) /\ Cardinality(1..n) = n
  <2>1. 1 \in Int /\ n \in Int /\ (1 > n => n = 0) /\ n - 1 + 1 = n
    OBVIOUS
  <2> QED
    BY <2>1, FS_Interval
<1> QED
  BY <1>1, <1>2, <1>3, <1>4, SelectionAssumption

(* The members of t are members of s, none of them twice.                  *)
Drawn(t, s) ==
    /\ t \in Seq(Candidates)
    /\ \E f \in [DOMAIN t -> DOMAIN s] :
          /\ \A k \in DOMAIN t : t[k] = s[f[k]]
          /\ \A k, l \in DOMAIN t : f[k] = f[l] => k = l

(* Every member of s is one of t.                                          *)
Keeps(t, s, I) == \A i \in I : \E k \in DOMAIN t : t[k] = s[i]

(* No symbol twice; no two correlated; the most confident first.           *)
OncePerSymbol(s) == \A i, j \in DOMAIN s : i # j => s[i].symbol # s[j].symbol

Uncorrelated(s) == \A i, j \in DOMAIN s : i # j => ~Correlated(s[i], s[j])

Descending(s) == \A i, j \in DOMAIN s : i <= j => s[i].confidence >= s[j].confidence

LEMMA DrawnKeeps ==
    ASSUME NEW s \in Seq(Candidates), NEW t, Drawn(t, s)
    PROVE  /\ OncePerSymbol(s) => OncePerSymbol(t)
           /\ Uncorrelated(s) => Uncorrelated(t)
           /\ \A k \in DOMAIN t : \E i \in DOMAIN s : t[k] = s[i]
<1>1. PICK f \in [DOMAIN t -> DOMAIN s] :
             /\ \A k \in DOMAIN t : t[k] = s[f[k]]
             /\ \A k, l \in DOMAIN t : f[k] = f[l] => k = l
  BY DEF Drawn
<1>2. OncePerSymbol(s) => OncePerSymbol(t)
  BY <1>1 DEF OncePerSymbol
<1>3. Uncorrelated(s) => Uncorrelated(t)
  BY <1>1 DEF Uncorrelated
<1> QED
  BY <1>1, <1>2, <1>3

(* Picking keeps the order,                                                *)
LEMMA Picked ==
    ASSUME NEW s \in Seq(Candidates), NEW I \in SUBSET DOMAIN s
    PROVE  /\ Drawn(Pick(s, I), s)
           /\ Keeps(Pick(s, I), s, I)
           /\ \A k \in DOMAIN Pick(s, I) : \E i \in I : Pick(s, I)[k] = s[i]
           /\ Descending(s) => Descending(Pick(s, I))
<1> DEFINE t == Pick(s, I)
<1>1. IsFiniteSet(I) /\ I \in SUBSET Int
  BY ListParts, FS_Subset
<1>2. PICK n \in Nat : n = Cardinality(I)
  BY <1>1, FS_CardinalityType
<1>3. /\ \A k \in 1..n : Nth(I, k) \in I
      /\ \A k, l \in 1..n : k < l => Nth(I, k) < Nth(I, l)
      /\ \A i \in I : \E k \in 1..n : Nth(I, k) = i
  BY <1>1, <1>2, NthInOrder
<1>4. t = [k \in 1..n |-> s[Nth(I, k)]]
  BY <1>2 DEF Pick
<1>5. \A i \in I : i \in Int /\ s[i] \in Candidates /\ s[i].confidence \in Int
  BY <1>1, ListParts
<1>6. t \in Seq(Candidates) /\ DOMAIN t = 1..n
  <2>1. t \in [1..n -> Candidates]
    BY <1>3, <1>4, <1>5
  <2> QED
    BY <2>1, ListOf
<1>7. \A k \in 1..n : t[k] = s[Nth(I, k)]
  BY <1>4
<1> HIDE DEF t
<1>8. Drawn(t, s)
  <2> DEFINE f == [k \in 1..n |-> Nth(I, k)]
  <2>1. f \in [DOMAIN t -> DOMAIN s]
    BY <1>3, <1>6
  <2>2. \A k \in DOMAIN t : t[k] = s[f[k]]
    BY <1>6, <1>7
  <2>3. \A k, l \in 1..n : k # l => Nth(I, k) # Nth(I, l)
    BY <1>3, <1>5
  <2>4. \A k, l \in DOMAIN t : f[k] = f[l] => k = l
    BY <1>6, <2>3
  <2> HIDE DEF f
  <2> QED
    BY <1>6, <2>1, <2>2, <2>4 DEF Drawn
<1>9. Keeps(t, s, I)
  BY <1>3, <1>6, <1>7 DEF Keeps
<1>10. Descending(s) => Descending(t)
  <2> SUFFICES ASSUME Descending(s), NEW k \in 1..n, NEW l \in 1..n, k <= l
               PROVE  t[k].confidence >= t[l].confidence
    BY <1>6 DEF Descending
  <2>1. Nth(I, k) <= Nth(I, l)
    BY <1>3, <1>5
  <2> QED
    BY <1>3, <1>7, <2>1 DEF Descending
<1>11. \A k \in DOMAIN t : \E i \in I : t[k] = s[i]
  BY <1>3, <1>6, <1>7
<1> QED
  BY <1>8, <1>9, <1>10, <1>11 DEF t

(* sorting keeps everything and puts the most confident first,             *)
LEMMA Sorted ==
    ASSUME NEW s \in Seq(Candidates)
    PROVE  /\ Drawn(ByConfidence(s), s)
           /\ Keeps(ByConfidence(s), s, DOMAIN s)
           /\ DOMAIN ByConfidence(s) = DOMAIN s
           /\ Len(ByConfidence(s)) = Len(s)
           /\ Descending(ByConfidence(s))
<1> DEFINE t == ByConfidence(s)
<1>1. PICK n \in Nat : n = Len(s)
  BY ListParts
<1>2. DOMAIN s = 1..n /\ \A i \in 1..n : s[i] \in Candidates /\ s[i].confidence \in Int
  BY <1>1, ListParts
<1>3. /\ \A k \in 1..n : Ranked(s, k) \in 1..n
      /\ \A k, l \in 1..n : k < l => Outranks(s, Ranked(s, k), Ranked(s, l))
      /\ \A k, l \in 1..n : Ranked(s, k) = Ranked(s, l) => k = l
      /\ \A i \in 1..n : \E k \in 1..n : Ranked(s, k) = i
  <2>1. \A i \in 1..n : s[i] \in Candidates
    BY <1>2
  <2> QED
    BY <1>2, <2>1, RankedInOrder
<1>4. t = [k \in 1..n |-> s[Ranked(s, k)]]
  BY <1>2 DEF ByConfidence
<1>5. t \in Seq(Candidates) /\ DOMAIN t = 1..n /\ Len(t) = n
  <2>1. t \in [1..n -> Candidates]
    BY <1>2, <1>3, <1>4
  <2> QED
    BY <2>1, ListOf
<1>6. \A k \in 1..n : t[k] = s[Ranked(s, k)]
  BY <1>4
<1> HIDE DEF t
<1>7. Drawn(t, s)
  <2> DEFINE f == [k \in 1..n |-> Ranked(s, k)]
  <2>1. f \in [DOMAIN t -> DOMAIN s]
    BY <1>2, <1>3, <1>5
  <2>2. \A k \in DOMAIN t : t[k] = s[f[k]]
    BY <1>5, <1>6
  <2>3. \A k, l \in DOMAIN t : f[k] = f[l] => k = l
    BY <1>3, <1>5
  <2> HIDE DEF f
  <2> QED
    BY <1>5, <2>1, <2>2, <2>3 DEF Drawn
<1>8. Keeps(t, s, DOMAIN s)
  BY <1>2, <1>3, <1>5, <1>6 DEF Keeps
<1>9. Descending(t)
  <2> SUFFICES ASSUME NEW k \in 1..n, NEW l \in 1..n, k <= l
               PROVE  t[k].confidence >= t[l].confidence
    BY <1>5 DEF Descending
  <2>1. k = l \/ Outranks(s, Ranked(s, k), Ranked(s, l))
    BY <1>3
  <2>2. /\ t[k].confidence = s[Ranked(s, k)].confidence
        /\ t[l].confidence = s[Ranked(s, l)].confidence
    BY <1>6
  <2>3. s[Ranked(s, k)].confidence \in Int /\ s[Ranked(s, l)].confidence \in Int
    BY <1>2, <1>3
  <2>4. CASE k = l
    BY <2>2, <2>3, <2>4
  <2>5. CASE Outranks(s, Ranked(s, k), Ranked(s, l))
    BY <2>2, <2>3, <2>5 DEF Outranks
  <2> QED
    BY <2>1, <2>4, <2>5
<1> QED
  BY <1>1, <1>2, <1>5, <1>7, <1>8, <1>9 DEF t

(* and cutting keeps the first.                                            *)
LEMMA Cut ==
    ASSUME NEW s \in Seq(Candidates), NEW m \in Nat
    PROVE  /\ Drawn(FirstOf(s, m), s)
           /\ Len(FirstOf(s, m)) = IF m < Len(s) THEN m ELSE Len(s)
           /\ DOMAIN FirstOf(s, m) = {k \in DOMAIN s : k <= m}
           /\ \A k \in DOMAIN FirstOf(s, m) : FirstOf(s, m)[k] = s[k]
<1> DEFINE t == FirstOf(s, m)
<1>1. PICK n \in Nat : n = Len(s)
  BY ListParts
<1>2. PICK c \in Nat : c = IF m < n THEN m ELSE n
  OBVIOUS
<1>3. DOMAIN s = 1..n /\ \A i \in 1..n : s[i] \in Candidates
  BY <1>1, ListParts
<1>4. t = [k \in 1..c |-> s[k]]
  BY <1>1, <1>2 DEF FirstOf
<1>5. 1..c = {k \in 1..n : k <= m}
  BY <1>2
<1>6. t \in Seq(Candidates) /\ DOMAIN t = 1..c /\ Len(t) = c
  <2>1. t \in [1..c -> Candidates]
    BY <1>3, <1>4, <1>5
  <2> QED
    BY <2>1, ListOf
<1>7. \A k \in 1..c : t[k] = s[k]
  BY <1>4
<1> HIDE DEF t
<1>8. Drawn(t, s)
  <2> DEFINE f == [k \in 1..c |-> k]
  <2>1. f \in [DOMAIN t -> DOMAIN s]
    BY <1>3, <1>5, <1>6
  <2>2. \A k \in DOMAIN t : t[k] = s[f[k]]
    BY <1>6, <1>7
  <2>3. \A k, l \in DOMAIN t : f[k] = f[l] => k = l
    BY <1>6
  <2> HIDE DEF f
  <2> QED
    BY <1>6, <2>1, <2>2, <2>3 DEF Drawn
<1> QED
  BY <1>1, <1>2, <1>3, <1>5, <1>6, <1>7, <1>8 DEF t

-----------------------------------------------------------------------------
(* The router leaves one signal of a symbol.                               *)
LEMMA BestIsOne ==
    ASSUME NEW s \in Seq(Candidates), NEW x, OfSymbol(s, x) # {}
    PROVE  Best(s, x) \in DOMAIN s /\ s[Best(s, x)].symbol = x
<1> DEFINE I == OfSymbol(s, x)
           R == ByRank(s, I)
<1>1. I \in SUBSET DOMAIN s /\ \A i \in I : s[i].symbol = x
  BY DEF OfSymbol
<1> HIDE DEF I
<1>2. I \in SUBSET Int /\ IsFiniteSet(I) /\ \A i \in I : s[i].confidence \in Int
  BY <1>1, ListParts, FS_Subset
<1>3. Orders(R, I) /\ \A i, j \in I : <<i, j>> \in R <=> Outranks(s, i, j)
  BY <1>2, RankOrders
<1>4. PICK n \in Nat : n = Cardinality(I)
  BY <1>2, FS_CardinalityType
<1>5. n # 0
  BY <1>2, <1>4, FS_EmptySet DEF I
<1>6. 1 \in 1..n
  BY <1>5
<1> HIDE DEF R
<1>7. /\ \A i \in I : RankIn(R, I, i) \in Nat
      /\ \E i \in I : RankIn(R, I, i) = 1 - 1
      /\ \A i, k \in I : <<i, k>> \in R => RankIn(R, I, i) < RankIn(R, I, k)
  BY <1>2, <1>3, <1>4, <1>6, Ranks
<1>8. PICK i \in I : RankIn(R, I, i) = 0
  BY <1>7
<1>9. \A j \in I : <<j, i>> \notin R
  BY <1>7, <1>8
<1>10. \A j \in I \ {i} : Outranks(s, i, j)
  BY <1>3, <1>9 DEF Orders
<1>11. Best(s, x) \in I
  BY <1>10 DEF Best, I
<1> QED
  BY <1>1, <1>11

LEMMA ResolvedOnce ==
    ASSUME NEW s \in Seq(Candidates)
    PROVE  Resolve(s) \in Seq(Candidates) /\ OncePerSymbol(Resolve(s))
<1> DEFINE L == {i \in DOMAIN s : /\ ~Conflict(s, s[i].symbol)
                                 /\ \A j \in OfSymbol(s, s[i].symbol) : i <= j}
<1>1. L \in SUBSET DOMAIN s /\ L \in SUBSET Int
  BY ListParts
<1>2. \A i, j \in L : i # j => s[i].symbol # s[j].symbol
  <2> SUFFICES ASSUME NEW i \in L, NEW j \in L, s[i].symbol = s[j].symbol
               PROVE  i = j
    OBVIOUS
  <2>1. i <= j /\ j <= i
    BY DEF OfSymbol
  <2>2. i \in Int /\ j \in Int
    BY <1>1
  <2> QED
    BY <2>1, <2>2
<1>3. Leaders(s) = Pick(s, L)
  BY DEF Leaders
<1> HIDE DEF L
<1>4. PICK n \in Nat : n = Cardinality(L)
  BY <1>1, ListParts, FS_Subset, FS_CardinalityType
<1>5. /\ \A k \in 1..n : Nth(L, k) \in L
      /\ \A k, l \in 1..n : k < l => Nth(L, k) < Nth(L, l)
  BY <1>1, <1>4, ListParts, FS_Subset, NthInOrder
<1>6. Leaders(s) = [k \in 1..n |-> s[Nth(L, k)]]
  BY <1>3, <1>4 DEF Pick
<1>7. Resolve(s) = [k \in 1..n |-> s[Best(s, s[Nth(L, k)].symbol)]]
  BY <1>6 DEF Resolve, Strongest
<1>8. ASSUME NEW k \in 1..n
      PROVE  /\ Resolve(s)[k] \in Candidates
             /\ Resolve(s)[k].symbol = s[Nth(L, k)].symbol
  <2>1. Nth(L, k) \in OfSymbol(s, s[Nth(L, k)].symbol)
    BY <1>1, <1>5 DEF OfSymbol
  <2>2. /\ Best(s, s[Nth(L, k)].symbol) \in DOMAIN s
        /\ s[Best(s, s[Nth(L, k)].symbol)].symbol = s[Nth(L, k)].symbol
    BY <2>1, BestIsOne
  <2> QED
    BY <1>7, <2>2, ListParts
<1>9. Resolve(s) \in [1..n -> Candidates]
  BY <1>7, <1>8
<1>10. \A k, l \in 1..n : k # l => Nth(L, k) # Nth(L, l)
  BY <1>1, <1>5
<1>11. \A k, l \in 1..n : k # l => Resolve(s)[k].symbol # Resolve(s)[l].symbol
  BY <1>2, <1>5, <1>8, <1>10
<1> QED
  BY <1>9, <1>11, ListOf DEF OncePerSymbol

LEMMA RoutedOnce ==
    ASSUME NEW s \in Seq(Candidates)
    PROVE  Route(s) \in Seq(Candidates) /\ OncePerSymbol(Route(s))
<1> DEFINE fit == Pick(s, {i \in DOMAIN s : s[i].fit})
<1>1. fit \in Seq(Candidates)
  BY Picked DEF Drawn
<1> HIDE DEF fit
<1>2. Resolve(fit) \in Seq(Candidates) /\ OncePerSymbol(Resolve(fit))
  BY <1>1, ResolvedOnce
<1>3. Route(s) = ByConfidence(Resolve(fit))
  BY DEF Route, fit
<1>4. Drawn(Route(s), Resolve(fit))
  BY <1>2, <1>3, Sorted
<1> QED
  BY <1>2, <1>4, DrawnKeeps DEF Drawn

-----------------------------------------------------------------------------
(* The correlation filter leaves no two correlated, and drops a signal     *)
(* only for one that comes before it.                                      *)
LEMMA CorrelatedAlike ==
    \A c, d, e : /\ Correlated(c, d) => Correlated(d, c)
                 /\ Correlated(c, d) /\ Correlated(d, e) => Correlated(c, e)
  BY DEF Correlated

(* Of the positions correlated with p the least is kept.                   *)
LEMMA LeastIn ==
    ASSUME NEW P, NEW p \in Nat, NEW i \in 1..p, i \in P
    PROVE  \E j \in 1..p : j \in P /\ \A k \in 1..(j - 1) : k \notin P
<1> DEFINE I == {k \in 1..p : k \in P}
<1>1. I \in SUBSET Int /\ i \in I /\ I \in SUBSET (1..p)
  OBVIOUS
<1>2. IsFiniteSet(I)
  <2>1. 1 \in Int /\ p \in Int
    OBVIOUS
  <2>2. IsFiniteSet(1..p)
    BY <2>1, FS_Interval
  <2> QED
    BY <1>1, <2>2, FS_Subset
<1>3. \A j \in 1..p : (j \in P <=> j \in I) /\ \A k \in 1..(j - 1) : k \in P => k \in I
  OBVIOUS
<1> HIDE DEF I
<1>4. PICK n \in Nat : n = Cardinality(I)
  BY <1>2, FS_CardinalityType
<1>5. /\ \A k \in 1..n : Nth(I, k) \in I
      /\ \A k, l \in 1..n : k < l => Nth(I, k) < Nth(I, l)
      /\ \A j \in I : \E k \in 1..n : Nth(I, k) = j
  BY <1>1, <1>2, <1>4, NthInOrder
<1>6. 1 \in 1..n
  BY <1>1, <1>5
<1>7. \A k \in I : Nth(I, 1) <= k
  <2> SUFFICES ASSUME NEW m \in 1..n
               PROVE  Nth(I, 1) <= Nth(I, m)
    BY <1>5
  <2>1. m = 1 \/ 1 < m
    OBVIOUS
  <2>2. Nth(I, 1) \in Int
    BY <1>1, <1>5, <1>6
  <2>3. CASE m = 1
    BY <2>2, <2>3
  <2>4. CASE 1 < m
    <3>1. Nth(I, 1) < Nth(I, m)
      BY <1>5, <1>6, <2>4
    <3>2. Nth(I, m) \in Int
      BY <1>1, <1>5
    <3> QED
      BY <2>2, <3>1, <3>2
  <2> QED
    BY <2>1, <2>3, <2>4
<1>8. PICK j \in 1..p : j = Nth(I, 1) /\ j \in I
  BY <1>1, <1>5, <1>6
<1>9. \A k \in 1..(j - 1) : k \notin I
  BY <1>7, <1>8
<1> QED
  BY <1>3, <1>8, <1>9

LEMMA Filtered ==
    ASSUME NEW s \in Seq(Candidates)
    PROVE  LET t == ByConfidence(s)
               F == ApplyCorrelationFilter(s)
           IN  /\ Drawn(F, t) /\ Uncorrelated(F) /\ Descending(F)
               /\ \A p \in DOMAIN t :
                     \E q \in DOMAIN F : \/ F[q] = t[p]
                                       \/ /\ Correlated(F[q], t[p])
                                          /\ F[q].confidence >= t[p].confidence
<1> DEFINE t == ByConfidence(s)
           I == {i \in DOMAIN t : \A j \in 1..(i - 1) : ~Correlated(t[j], t[i])}
           F == ApplyCorrelationFilter(s)
<1>1. t \in Seq(Candidates) /\ Descending(t)
  BY Sorted DEF Drawn
<1>2. F = Pick(t, I)
  BY DEF ApplyCorrelationFilter
<1> HIDE DEF t, F
<1>3. PICK n \in Nat : n = Len(t) /\ DOMAIN t = 1..n
  BY <1>1, ListParts
<1>4. I \in SUBSET DOMAIN t
  OBVIOUS
<1>5. /\ Drawn(F, t) /\ Keeps(F, t, I)
      /\ Descending(F)
  BY <1>1, <1>2, <1>4, Picked
<1>6. \A i, j \in I : i # j => ~Correlated(t[i], t[j])
  <2> SUFFICES ASSUME NEW i \in I, NEW j \in I, i < j
               PROVE  ~Correlated(t[i], t[j])
    BY <1>3, CorrelatedAlike
  <2>1. i \in 1..(j - 1)
    BY <1>3
  <2> QED
    BY <2>1
<1>7. Uncorrelated(F)
  <2>1. PICK m \in Nat : m = Cardinality(I)
    BY <1>1, <1>4, ListParts, FS_Subset, FS_CardinalityType
  <2>2. /\ \A k \in 1..m : Nth(I, k) \in I
        /\ \A k, l \in 1..m : k < l => Nth(I, k) < Nth(I, l)
    <3>1. I \in SUBSET Int
      BY <1>3, <1>4
    <3>2. IsFiniteSet(DOMAIN t)
      BY <1>1, ListParts
    <3> HIDE DEF I
    <3>3. IsFiniteSet(I)
      BY <1>4, <3>2, FS_Subset
    <3> QED
      BY <2>1, <3>1, <3>3, NthInOrder
  <2>3. F = [k \in 1..m |-> t[Nth(I, k)]]
    BY <1>2, <2>1 DEF Pick
  <2>4. \A k \in 1..m : Nth(I, k) \in Int
    BY <1>3, <2>2
  <2> HIDE DEF I
  <2>5. \A k, l \in 1..m : k # l => Nth(I, k) # Nth(I, l)
    BY <2>2, <2>4
  <2> QED
    BY <1>6, <2>2, <2>3, <2>5 DEF Uncorrelated
<1>8. ASSUME NEW p \in 1..n
      PROVE  \E i \in I : i = p \/ (Correlated(t[i], t[p]) /\ t[i].confidence >= t[p].confidence)
  <2>1. CASE p \in I
    BY <2>1
  <2>2. CASE p \notin I
    <3> DEFINE P == {j \in 1..n : Correlated(t[j], t[p])}
    <3>1. PICK i \in 1..(p - 1) : i \in P
      BY <1>3, <2>2
    <3>2. i \in 1..p /\ p \in Nat
      OBVIOUS
    <3> HIDE DEF P
    <3>3. PICK j \in 1..p : j \in P /\ \A k \in 1..(j - 1) : k \notin P
      BY <3>1, <3>2, LeastIn
    <3>4. \A k \in 1..(j - 1) : k \in 1..n /\ ~Correlated(t[k], t[p])
      BY <3>3 DEF P
    <3>5. Correlated(t[j], t[p])
      BY <3>3 DEF P
    <3>6. \A k \in 1..(j - 1) : ~Correlated(t[k], t[j])
      BY <3>4, <3>5, CorrelatedAlike
    <3>7. j \in I
      BY <1>3, <3>6
    <3>8. t[j].confidence >= t[p].confidence
      BY <1>1, <1>3, <3>3 DEF Descending
    <3> QED
      BY <3>5, <3>7, <3>8
  <2> QED
    BY <2>1, <2>2
<1>9. ASSUME NEW p \in DOMAIN t
      PROVE  \E q \in DOMAIN F : \/ F[q] = t[p]
                               \/ /\ Correlated(F[q], t[p])
                                  /\ F[q].confidence >= t[p].confidence
  <2>1. PICK i \in I : i = p \/ (Correlated(t[i], t[p]) /\ t[i].confidence >= t[p].confidence)
    BY <1>3, <1>8
  <2>2. PICK q \in DOMAIN F : F[q] = t[i]
    BY <1>5 DEF Keeps
  <2> QED
    BY <2>1, <2>2
<1> QED
  BY <1>5, <1>7, <1>9 DEF t, F

-----------------------------------------------------------------------------
(* How many slots the two caps leave.                                      *)
LEMMA SlotsLeft ==
    ASSUME NEW a \in Nat, a = Cardinality(open_symbols), a <= PositionCap,
           day_trades \in 0..TradeCap
    PROVE  /\ Slots \in Nat
           /\ Slots <= TradeCap - day_trades /\ Slots <= PositionCap - a
<1>1. TradeCap \in Nat /\ PositionCap \in Nat
  BY SelectionAssumption
<1> DEFINE left == {TradeCap - day_trades, PositionCap - a}
<1>2. \E n \in left : \A m \in left : n <= m
  BY <1>1
<1>3. Slots \in left /\ \A m \in left : Slots <= m
  BY <1>2 DEF Slots
<1> QED
  BY <1>1, <1>3

(* What evaluate_signals returns.                                          *)
LEMMA Evaluated ==
    ASSUME NEW s \in Seq(Candidates), OncePerSymbol(s), Slots \in Nat
    PROVE  LET e == EvaluateSignals(s)
           IN  /\ e \in Seq(Candidates) /\ OncePerSymbol(e) /\ Uncorrelated(e)
               /\ Len(e) <= Slots
               /\ \A k \in DOMAIN e : Tradable(e[k])
               /\ \A i \in DOMAIN s :
                     Tradable(s[i]) =>
                        \/ \E k \in DOMAIN e : e[k] = s[i]
                        \/ \E k \in DOMAIN e : /\ Correlated(e[k], s[i])
                                              /\ e[k].confidence >= s[i].confidence
                        \/ /\ Len(e) = Slots
                           /\ \A k \in DOMAIN e : e[k].confidence >= s[i].confidence
<1> DEFINE T == TradableOnes(s)
           t == ByConfidence(T)
           F == ApplyCorrelationFilter(T)
           c == FirstOf(F, Slots)
           e == EvaluateSignals(s)
<1>1. T \in Seq(Candidates) /\ Drawn(T, s) /\ OncePerSymbol(T)
      /\ (\A k \in DOMAIN T : Tradable(T[k]))
      /\ \A i \in DOMAIN s : Tradable(s[i]) => \E k \in DOMAIN T : T[k] = s[i]
  <2> DEFINE I == {i \in DOMAIN s : Tradable(s[i])}
  <2>1. T = Pick(s, I) /\ I \in SUBSET DOMAIN s
    BY DEF TradableOnes
  <2>2. /\ Drawn(T, s) /\ Keeps(T, s, I)
        /\ \A k \in DOMAIN T : \E i \in I : T[k] = s[i]
    <3> HIDE DEF T, I
    <3> QED
      BY <2>1, Picked
  <2>3. OncePerSymbol(T)
    BY <2>2, DrawnKeeps
  <2> HIDE DEF T
  <2> QED
    BY <2>2, <2>3 DEF Drawn, Keeps
<1> HIDE DEF T
<1>2. Drawn(t, T) /\ Keeps(t, T, DOMAIN T)
  BY <1>1, Sorted
<1>3. /\ Drawn(F, t) /\ Uncorrelated(F) /\ Descending(F)
      /\ \A p \in DOMAIN t :
            \E q \in DOMAIN F : \/ F[q] = t[p]
                              \/ /\ Correlated(F[q], t[p])
                                 /\ F[q].confidence >= t[p].confidence
  BY <1>1, Filtered
<1> HIDE DEF t, F
<1>4. /\ Drawn(c, F)
      /\ Len(c) = IF Slots < Len(F) THEN Slots ELSE Len(F)
      /\ DOMAIN c = {k \in DOMAIN F : k <= Slots}
      /\ \A k \in DOMAIN c : c[k] = F[k]
  BY <1>3, Cut DEF Drawn
<1>5. e = ByConfidence(c)
  BY DEF EvaluateSignals, F, T
<1> HIDE DEF c, e
<1>6. Drawn(e, c) /\ Keeps(e, c, DOMAIN c) /\ Len(e) = Len(c)
  <2>1. c \in Seq(Candidates)
    BY <1>4 DEF Drawn
  <2> QED
    BY <1>5, <2>1, Sorted
<1>7. t \in Seq(Candidates) /\ F \in Seq(Candidates) /\ c \in Seq(Candidates) /\ e \in Seq(Candidates)
  BY <1>2, <1>3, <1>4, <1>6 DEF Drawn
<1>8. OncePerSymbol(e) /\ Uncorrelated(e)
  BY <1>1, <1>2, <1>3, <1>4, <1>6, <1>7, DrawnKeeps
<1>9. PICK n \in Nat : n = Len(F) /\ DOMAIN F = 1..n
  BY <1>7, ListParts
<1>10. Len(e) <= Slots
  BY <1>4, <1>6, <1>9
<1>11. \A k \in DOMAIN e : \E j \in DOMAIN c : e[k] = F[j]
  BY <1>4, <1>6, <1>7, DrawnKeeps
<1>12. \A k \in DOMAIN e : Tradable(e[k])
  <2>1. \A k \in DOMAIN F : \E i \in DOMAIN T : F[k] = T[i]
    <3>1. \A k \in DOMAIN F : \E p \in DOMAIN t : F[k] = t[p]
      BY <1>3, <1>7, DrawnKeeps
    <3>2. \A p \in DOMAIN t : \E i \in DOMAIN T : t[p] = T[i]
      BY <1>1, <1>2, DrawnKeeps
    <3> QED
      BY <3>1, <3>2
  <2>2. DOMAIN c \subseteq DOMAIN F
    BY <1>4
  <2> QED
    BY <1>1, <1>11, <2>1, <2>2
<1>13. ASSUME NEW i \in DOMAIN s, Tradable(s[i])
       PROVE  \/ \E k \in DOMAIN e : e[k] = s[i]
              \/ \E k \in DOMAIN e : /\ Correlated(e[k], s[i])
                                    /\ e[k].confidence >= s[i].confidence
              \/ /\ Len(e) = Slots
                 /\ \A k \in DOMAIN e : e[k].confidence >= s[i].confidence
  <2>1. PICK r \in DOMAIN T : T[r] = s[i]
    BY <1>1, <1>13
  <2>2. PICK p \in DOMAIN t : t[p] = s[i]
    BY <1>2, <2>1 DEF Keeps
  <2>3. PICK q \in DOMAIN F : \/ F[q] = s[i]
                             \/ /\ Correlated(F[q], s[i])
                                /\ F[q].confidence >= s[i].confidence
    BY <1>3, <2>2
  <2>4. F[q].confidence \in Int /\ s[i].confidence \in Int
    BY <1>7, ListParts
  <2>5. F[q].confidence >= s[i].confidence
    BY <2>3, <2>4
  <2>6. CASE q <= Slots
    <3>1. q \in DOMAIN c /\ c[q] = F[q]
      BY <1>4, <2>6
    <3>2. PICK k \in DOMAIN e : e[k] = F[q]
      BY <1>6, <3>1 DEF Keeps
    <3> QED
      BY <2>3, <3>2
  <2>7. CASE ~(q <= Slots)
    <3>1. Len(e) = Slots
      BY <1>4, <1>6, <1>9, <2>7
    <3>2. ASSUME NEW k \in DOMAIN e PROVE e[k].confidence >= s[i].confidence
      <4>1. PICK j \in DOMAIN c : e[k] = F[j]
        BY <1>11
      <4>2. j \in DOMAIN F /\ j <= q
        BY <1>4, <1>9, <2>7
      <4>3. F[j].confidence >= F[q].confidence
        BY <1>3, <4>2 DEF Descending
      <4>4. F[j].confidence \in Int
        BY <1>7, <4>2, ListParts
      <4> QED
        BY <2>4, <2>5, <4>1, <4>3, <4>4
    <3> QED
      BY <3>1, <3>2
  <2> QED
    BY <2>6, <2>7
<1> QED
  BY <1>7, <1>8, <1>10, <1>12, <1>13 DEF e

-----------------------------------------------------------------------------
SelectionInv ==
    /\ SelectionTypeOK
    /\ IsFiniteSet(open_symbols)
    /\ SelectionIsSafe
    /\ NoneDroppedInVain

LEMMA SelectionBegins == SelectionInit => SelectionInv
<1> SUFFICES ASSUME SelectionInit PROVE SelectionInv
  OBVIOUS
<1>1. <<>> \in Seq(Candidates) /\ Len(<<>>) = 0 /\ DOMAIN <<>> = {}
  BY EmptySeq, LenProperties
<1>2. IsFiniteSet({}) /\ Cardinality({}) = 0
  BY FS_EmptySet
<1>3. TradeCap \in Nat /\ PositionCap \in Nat
  BY SelectionAssumption
<1>4. SelectionTypeOK
  BY <1>1, <1>3 DEF SelectionInit, SelectionTypeOK
<1>5. SelectionIsSafe
  BY <1>1, <1>2, <1>3 DEF SelectionInit, SelectionIsSafe
<1>6. NoneDroppedInVain
  BY DEF SelectionInit, NoneDroppedInVain
<1> QED
  BY <1>2, <1>4, <1>5, <1>6 DEF SelectionInit, SelectionInv

(* The slots that are left, under the invariant.                           *)
LEMMA SlotsInInv ==
    ASSUME SelectionInv
    PROVE  /\ Cardinality(open_symbols) \in Nat /\ Slots \in Nat
           /\ Slots <= TradeCap - day_trades
           /\ Slots <= PositionCap - Cardinality(open_symbols)
<1>1. PICK a \in Nat : a = Cardinality(open_symbols)
  BY FS_CardinalityType DEF SelectionInv
<1>2. Len(selected) \in Nat
  BY LenProperties DEF SelectionInv, SelectionTypeOK
<1>3. a <= PositionCap /\ day_trades \in 0..TradeCap
  BY <1>1, <1>2, SelectionAssumption DEF SelectionInv, SelectionIsSafe, SelectionTypeOK
<1> QED
  BY <1>1, <1>3, SlotsLeft

LEMMA SelectingKeeps == SelectionInv /\ SelectSignals => SelectionInv'
<1> SUFFICES ASSUME SelectionInv, SelectSignals PROVE SelectionInv'
  OBVIOUS
<1>1. PICK I \in SUBSET DOMAIN Route(raw) : passed' = Pick(Route(raw), I)
  BY DEF SelectSignals
<1>2. raw \in Seq(Candidates) /\ open_symbols \subseteq Symbols /\ day_trades \in 0..TradeCap
  BY DEF SelectionInv, SelectionTypeOK
<1>3. Route(raw) \in Seq(Candidates) /\ OncePerSymbol(Route(raw))
  BY <1>2, RoutedOnce
<1>4. passed' \in Seq(Candidates) /\ OncePerSymbol(passed')
  BY <1>1, <1>3, Picked, DrawnKeeps DEF Drawn
<1>5. /\ Cardinality(open_symbols) \in Nat /\ Slots \in Nat
      /\ Slots <= TradeCap - day_trades
      /\ Slots <= PositionCap - Cardinality(open_symbols)
  BY SlotsInInv
<1>6. PICK s \in Seq(Candidates) : s = passed'
  BY <1>4
<1>7. PICK e : e = EvaluateSignals(s)
  OBVIOUS
<1>8. /\ e \in Seq(Candidates) /\ OncePerSymbol(e) /\ Uncorrelated(e)
      /\ Len(e) <= Slots
      /\ \A k \in DOMAIN e : Tradable(e[k])
      /\ \A i \in DOMAIN s :
            Tradable(s[i]) =>
               \/ \E k \in DOMAIN e : e[k] = s[i]
               \/ \E k \in DOMAIN e : /\ Correlated(e[k], s[i])
                                     /\ e[k].confidence >= s[i].confidence
               \/ /\ Len(e) = Slots
                  /\ \A k \in DOMAIN e : e[k].confidence >= s[i].confidence
  BY <1>4, <1>5, <1>6, <1>7, Evaluated
<1>9. selected' = e /\ passed' = s /\ step' = "selected" /\ raw' = raw
      /\ open_symbols' = open_symbols /\ day_trades' = day_trades
  BY <1>6, <1>7 DEF SelectSignals
<1>10. Slots' = Slots /\ \A x : Tradable(x)' <=> Tradable(x)
  BY <1>9 DEF Slots, Tradable
<1>11. SelectionTypeOK' /\ IsFiniteSet(open_symbols')
  BY <1>2, <1>8, <1>9 DEF SelectionTypeOK, SelectionInv
<1>12. SelectionIsSafe'
  <2>1. \A k \in DOMAIN e : e[k].symbol \notin open_symbols
    BY <1>8 DEF Tradable
  <2>2. \A i, j \in DOMAIN e : i # j => e[i].symbol # e[j].symbol /\ ~Correlated(e[i], e[j])
    BY <1>8 DEF OncePerSymbol, Uncorrelated
  <2>3. /\ Cardinality(open_symbols) + Len(e) <= PositionCap
        /\ day_trades + Len(e) <= TradeCap
    <3>1. PICK a \in Nat : a = Cardinality(open_symbols)
      BY <1>5
    <3>2. PICK l \in Nat : l = Len(e)
      BY <1>8, LenProperties
    <3> QED
      BY <1>2, <1>5, <1>8, <3>1, <3>2, SelectionAssumption
  <2> QED
    BY <1>9, <2>1, <2>2, <2>3 DEF SelectionIsSafe
<1>13. NoneDroppedInVain'
  BY <1>8, <1>9, <1>10 DEF NoneDroppedInVain, Tradable, Slots
<1> QED
  BY <1>9, <1>11, <1>12, <1>13 DEF SelectionInv

(* As many symbols as positions, or fewer.                                 *)
LEMMA SymbolsOf ==
    ASSUME NEW s \in Seq(Candidates), NEW P \in SUBSET {s[i].symbol : i \in DOMAIN s}
    PROVE  IsFiniteSet(P) /\ Cardinality(P) \in Nat /\ Cardinality(P) <= Len(s)
<1> DEFINE f == [i \in DOMAIN s |-> s[i].symbol]
           Q == {s[i].symbol : i \in DOMAIN s}
<1>1. PICK n \in Nat : n = Len(s) /\ Cardinality(DOMAIN s) = n /\ IsFiniteSet(DOMAIN s)
  BY ListParts
<1>2. f \in Surjection(DOMAIN s, Q)
  BY DEF Surjection
<1>3. P \in SUBSET Q
  OBVIOUS
<1> HIDE DEF f, Q
<1>4. IsFiniteSet(Q) /\ Cardinality(Q) <= n
  BY <1>1, <1>2, FS_Surjection
<1>5. IsFiniteSet(P) /\ Cardinality(P) <= Cardinality(Q)
  BY <1>3, <1>4, FS_Subset
<1>6. Cardinality(P) \in Nat /\ Cardinality(Q) \in Nat
  BY <1>4, <1>5, FS_CardinalityType
<1> QED
  BY <1>1, <1>4, <1>5, <1>6

LEMMA NextTickKeeps == SelectionInv /\ NextTick => SelectionInv'
<1> SUFFICES ASSUME SelectionInv, NextTick PROVE SelectionInv'
  OBVIOUS
<1>1. PICK placed \in SUBSET {selected[i].symbol : i \in DOMAIN selected} :
             /\ open_symbols' \in SUBSET (open_symbols \cup placed)
             /\ day_trades' \in {day_trades + Cardinality(placed), 0}
  BY DEF NextTick
<1>2. /\ selected \in Seq(Candidates) /\ open_symbols \subseteq Symbols
      /\ day_trades \in 0..TradeCap /\ IsFiniteSet(open_symbols)
  BY DEF SelectionInv, SelectionTypeOK
<1>3. PICK l \in Nat : l = Len(selected)
  BY <1>2, LenProperties
<1>4. PICK p \in Nat : p = Cardinality(placed) /\ p <= l
  BY <1>2, <1>3, SymbolsOf
<1>5. IsFiniteSet(placed)
  BY <1>2, SymbolsOf
<1>6. PICK a \in Nat : a = Cardinality(open_symbols)
  BY <1>2, FS_CardinalityType
<1>7. a + l <= PositionCap /\ day_trades + l <= TradeCap
  BY <1>3, <1>6 DEF SelectionInv, SelectionIsSafe
<1>8. IsFiniteSet(open_symbols') /\ Cardinality(open_symbols') <= PositionCap
  <2>1. IsFiniteSet(open_symbols \cup placed)
    BY <1>2, <1>5, FS_Union
  <2>2. Cardinality(open_symbols \cup placed) <= a + p
    <3>1. IsFiniteSet(open_symbols \cap placed)
      BY <1>2, FS_Intersection
    <3>2. PICK b \in Nat : b = Cardinality(open_symbols \cap placed)
      BY <3>1, FS_CardinalityType
    <3>3. Cardinality(open_symbols \cup placed) = a + p - b
      BY <1>2, <1>4, <1>5, <1>6, <3>2, FS_Union
    <3> QED
      BY <3>3
  <2>3. /\ IsFiniteSet(open_symbols')
        /\ Cardinality(open_symbols') <= Cardinality(open_symbols \cup placed)
    BY <1>1, <2>1, FS_Subset
  <2>4. Cardinality(open_symbols') \in Nat /\ Cardinality(open_symbols \cup placed) \in Nat
    BY <2>1, <2>3, FS_CardinalityType
  <2> QED
    BY <1>4, <1>7, <2>2, <2>3, <2>4, SelectionAssumption
<1>9. day_trades' \in 0..TradeCap
  BY <1>1, <1>2, <1>4, <1>7, SelectionAssumption
<1>10. open_symbols' \subseteq Symbols
  <2>1. \A i \in DOMAIN selected : selected[i].symbol \in Symbols
    BY <1>2, ListParts, SelectionAssumption
  <2> QED
    BY <1>1, <1>2, <2>1
<1>11. raw' = <<>> /\ passed' = <<>> /\ selected' = <<>> /\ step' = "generate"
  BY DEF NextTick
<1>12. <<>> \in Seq(Candidates) /\ Len(<<>>) = 0 /\ DOMAIN <<>> = {}
  BY EmptySeq, LenProperties
<1>13. SelectionTypeOK'
  BY <1>9, <1>10, <1>11, <1>12 DEF SelectionTypeOK
<1>14. SelectionIsSafe'
  <2>1. PICK b \in Nat : b = Cardinality(open_symbols')
    BY <1>8, FS_CardinalityType
  <2>2. b + 0 <= PositionCap /\ day_trades' + 0 <= TradeCap
    <3>1. PositionCap \in Nat /\ TradeCap \in Nat
      BY SelectionAssumption
    <3>2. b <= PositionCap
      BY <1>8, <2>1
    <3>3. PICK n \in Nat : n = day_trades' /\ n <= TradeCap
      BY <1>9, <3>1
    <3>4. b + 0 = b /\ n + 0 = n
      OBVIOUS
    <3> QED
      BY <3>2, <3>3, <3>4
  <2>3. Len(selected') = 0 /\ DOMAIN selected' = {}
    BY <1>11, <1>12
  <2>4. /\ Cardinality(open_symbols') + Len(selected') <= PositionCap
        /\ day_trades' + Len(selected') <= TradeCap
    BY <2>1, <2>2, <2>3
  <2> QED
    BY <2>3, <2>4 DEF SelectionIsSafe
<1>15. NoneDroppedInVain'
  BY <1>11 DEF NoneDroppedInVain
<1> QED
  BY <1>8, <1>13, <1>14, <1>15 DEF SelectionInv

LEMMA SelectionStep == SelectionInv /\ [SelectionNext]_SelectionVars => SelectionInv'
<1> SUFFICES ASSUME SelectionInv, [SelectionNext]_SelectionVars PROVE SelectionInv'
  OBVIOUS
<1>1. ASSUME NEW c \in Candidates, Generate(c) PROVE SelectionInv'
  <2>1. /\ raw' \in Seq(Candidates) /\ step' = step /\ step = "generate"
        /\ passed' = passed /\ selected' = selected
        /\ open_symbols' = open_symbols /\ day_trades' = day_trades
    BY <1>1, AppendProperties DEF Generate, SelectionInv, SelectionTypeOK
  <2>2. SelectionTypeOK'
    BY <2>1 DEF SelectionInv, SelectionTypeOK
  <2>3. SelectionIsSafe'
    BY <2>1 DEF SelectionInv, SelectionIsSafe
  <2>4. NoneDroppedInVain'
    BY <2>1 DEF NoneDroppedInVain
  <2> QED
    BY <2>1, <2>2, <2>3, <2>4 DEF SelectionInv
<1>2. CASE UNCHANGED SelectionVars
  <2>1. /\ raw' = raw /\ step' = step /\ passed' = passed /\ selected' = selected
        /\ open_symbols' = open_symbols /\ day_trades' = day_trades
    BY <1>2 DEF SelectionVars
  <2>2. SelectionTypeOK'
    BY <2>1 DEF SelectionInv, SelectionTypeOK
  <2>3. SelectionIsSafe'
    BY <2>1 DEF SelectionInv, SelectionIsSafe
  <2>4. NoneDroppedInVain'
    BY <2>1 DEF SelectionInv, NoneDroppedInVain, Tradable, Slots
  <2> QED
    BY <2>1, <2>2, <2>3, <2>4 DEF SelectionInv
<1> QED
  BY <1>1, <1>2, SelectingKeeps, NextTickKeeps DEF SelectionNext

LEMMA SelectionInvariant == SelectionSpec => []SelectionInv
  BY SelectionBegins, SelectionStep, PTL DEF SelectionSpec

(* For any signals, groups and caps, what evaluate_signals hands to the    *)
(* orders can all be traded: no symbol twice or with a position, no two    *)
(* of a group in one direction, within the caps on trades and positions.   *)
THEOREM SelectionSafe == SelectionSpec => []SelectionIsSafe
<1>1. SelectionInv => SelectionIsSafe
  BY DEF SelectionInv
<1> QED
  BY <1>1, SelectionInvariant, PTL

(* And a tradable signal that the breaker let through is dropped only for  *)
(* a correlated one at least as confident, or because the slots are full   *)
(* of signals at least as confident.                                       *)
THEOREM NothingLost == SelectionSpec => []NoneDroppedInVain
<1>1. SelectionInv => NoneDroppedInVain
  BY DEF SelectionInv
<1> QED
  BY <1>1, SelectionInvariant, PTL

(* The lists hold signals, the counts stay within their caps.              *)
THEOREM SelectionTypeCorrect == SelectionSpec => []SelectionTypeOK
<1>1. SelectionInv => SelectionTypeOK
  BY DEF SelectionInv
<1> QED
  BY <1>1, SelectionInvariant, PTL
=============================================================================
