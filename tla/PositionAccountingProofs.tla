---------------------- MODULE PositionAccountingProofs ----------------------
(* What holds of the demo runner's books for any number of positions, any  *)
(* profits and limits, and any number of crashes.                          *)
(* AccountingInv holds under every fault: of a position that was never     *)
(* executed nothing is on record, and every close counted has closed a row *)
(* or lost its update. SoundInv needs every executed order to be recorded  *)
(* and counted, every close update to be written and no crash: then the    *)
(* runner counts a position exactly until its row is closed.               *)
EXTENDS PositionAccounting, FiniteSums, TLAPS

UsedTickets == {t \in Tickets : tickets[t].status # "unused"}

(* Records, rows and the order being recorded are of positions in use.     *)
Bookkeeping ==
    /\ \A t \in Tickets :
          /\ t \in UsedTickets => tickets[t].symbol \in Symbols
          /\ t \notin UsedTickets => records[t] = "none" /\ ~Journaled(t)
    /\ IF pc \in {"record", "mark"} THEN placed \in UsedTickets ELSE placed = NoTicket

AccountingInv == TypeOK /\ Bookkeeping /\ NeverScoredTwice

(* A row is closed only once its position is; no position has two; and no  *)
(* record is left to reconcile but that of the order being recorded.       *)
RowsComplete ==
    /\ \A t \in Tickets :
          /\ records[t] \in {"acked", "pending"} => pc \in {"record", "mark"} /\ t = placed
          /\ rows[t].open + rows[t].closed <= 1
          /\ tickets[t].status = "open" => rows[t].closed = 0
    /\ pc \in {"record", "mark"} => records[placed] = "acked" /\ rows[placed].closed = 0
    /\ pc = "record" => rows[placed].open = 0

(* What left the snapshot since the last pass has been closed.             *)
GoneIsClosed ==
    /\ risk.seen \cup listed \subseteq UsedTickets
    /\ pc \in {"diff", "closing"} =>
          \A t \in risk.seen \ listed : tickets[t].status = "closed"
    /\ pc = "closing" => closing \subseteq risk.seen \ listed

(* Each symbol is taken by one position, and an approved signal's by none. *)
SymbolsTaken ==
    /\ \A t, u \in Held : tickets[t].symbol = tickets[u].symbol => t = u
    /\ pc \in {"orders", "record", "mark"} => batch \cap port.symbols = {}
    /\ pc \in {"record", "mark"} =>
          /\ tickets[placed].symbol \notin batch
          /\ \A t \in Held : tickets[t].symbol # tickets[placed].symbol

RoomLeft ==
    /\ risk.open <= MAX_OPEN_POSITIONS
    /\ pc \in {"record", "mark"} => risk.open < MAX_OPEN_POSITIONS

SoundInv == RowsComplete /\ GoneIsClosed /\ SymbolsTaken /\ RoomLeft /\ CountsMatch

(* The saved halt is not ahead of the halt in memory.                      *)
HaltKept ==
    /\ utc = day
    /\ disk.risk.last_reset <= risk.last_reset /\ risk.last_reset <= day
    /\ disk.risk.halted /\ ~risk.halted => disk.risk.last_reset < risk.last_reset

-----------------------------------------------------------------------------
(* The helpers keep the counters in their types.                           *)
LEMMA NewStates == new_state \in RiskStates /\ new_portfolio \in PortfolioStates
  BY DEF new_state, new_portfolio, RiskStates, PortfolioStates, Never

LEMMA RiskUpdate ==
    ASSUME NEW r \in RiskStates, NEW n \in Nat, NEW m \in Nat, NEW k \in Nat, NEW l \in Nat,
           NEW h \in BOOLEAN, NEW S \in SUBSET Tickets, NEW d \in 0..LastDay
    PROVE  /\ [r EXCEPT !.open = n] \in RiskStates
           /\ [r EXCEPT !.seen = S] \in RiskStates
           /\ [r EXCEPT !.trades = n, !.open = m, !.loss = k, !.losses = l, !.halted = h]
                 \in RiskStates
           /\ [r EXCEPT !.trades = n, !.loss = k, !.losses = l, !.halted = h, !.last_reset = d]
                 \in RiskStates
  BY DEF RiskStates

LEMMA PortUpdate ==
    ASSUME NEW p \in PortfolioStates, NEW n \in Nat, NEW a \in Int, NEW b \in Int,
           NEW S \in SUBSET Symbols, NEW d \in 0..LastDay
    PROVE  /\ [p EXCEPT !.trades = n, !.daily = a, !.last_reset = d] \in PortfolioStates
           /\ [p EXCEPT !.symbols = S, !.daily = a, !.total = b] \in PortfolioStates
           /\ [p EXCEPT !.trades = n, !.symbols = S] \in PortfolioStates
  BY DEF PortfolioStates

LEMMA StateFields ==
    ASSUME NEW r \in RiskStates, NEW p \in PortfolioStates
    PROVE  /\ r.trades \in Nat /\ r.open \in Nat /\ r.loss \in Nat /\ r.losses \in Nat
           /\ r.halted \in BOOLEAN /\ r.seen \in SUBSET Tickets
           /\ p.trades \in Nat /\ p.daily \in Int /\ p.total \in Int
           /\ p.symbols \in SUBSET Symbols
  BY DEF RiskStates, PortfolioStates

LEMMA SomeStates == ASSUME TypeOK PROVE risk \in RiskStates /\ port \in PortfolioStates
                                        /\ utc \in 0..LastDay /\ day \in 0..LastDay
  BY DEF TypeOK

LEMMA ResetType ==
    ASSUME TypeOK
    PROVE  /\ reset_daily \in RiskStates
           /\ maybe_reset_daily \in PortfolioStates
<1>1. PICK z \in Nat, i \in Int : z = 0 /\ i = 0
  OBVIOUS
<1>2. PICK h \in BOOLEAN : h = FALSE
  BY Zenon
<1>3. {} \in SUBSET Tickets
  OBVIOUS
<1>4. [risk EXCEPT !.trades = z, !.loss = z, !.losses = z, !.halted = h, !.last_reset = utc]
        \in RiskStates
  BY <1>3, SomeStates, RiskUpdate
<1>5. [port EXCEPT !.trades = z, !.daily = i, !.last_reset = day] \in PortfolioStates
  BY {} \in SUBSET Symbols, SomeStates, PortUpdate
<1> QED
  BY <1>1, <1>2, <1>4, <1>5, SomeStates DEF reset_daily, maybe_reset_daily

LEMMA RecordType ==
    ASSUME TypeOK, NEW profit \in Int, NEW s
    PROVE  /\ record_result(profit) \in RiskStates
           /\ record_close(s, profit) \in PortfolioStates
<1> risk \in RiskStates /\ port \in PortfolioStates
  BY SomeStates
<1>1. PICK n \in Nat : n = risk.trades + 1
  BY StateFields
<1>2. PICK m \in Nat : m = IF risk.open > 0 THEN risk.open - 1 ELSE 0
  BY StateFields
<1>3. PICK k \in Nat : k = risk.loss + (IF profit < 0 THEN -profit ELSE 0)
  BY StateFields
<1>4. PICK l \in Nat : l = IF profit < 0 THEN risk.losses + 1 ELSE 0
  BY StateFields
<1>5. PICK h \in BOOLEAN :
         h = (risk.halted \/ k >= DAILY_LOSS_LIMIT \/ l >= MAX_CONSECUTIVE_LOSSES)
  BY Zenon
<1>6. PICK a \in Int, b \in Int : a = port.daily + profit /\ b = port.total + profit
  BY StateFields
<1>7. PICK S \in SUBSET Symbols : S = port.symbols \ {s}
  BY StateFields
<1>8. 0 \in 0..LastDay /\ {} \in SUBSET Tickets
  BY AccountingAssumption
<1>9. [risk EXCEPT !.trades = n, !.open = m, !.loss = k, !.losses = l, !.halted = h] \in RiskStates
  BY <1>8, RiskUpdate
<1>10. [port EXCEPT !.symbols = S, !.daily = a, !.total = b] \in PortfolioStates
  BY <1>8, PortUpdate
<1> QED
  BY <1>1, <1>2, <1>3, <1>4, <1>5, <1>6, <1>7, <1>9, <1>10 DEF record_result, record_close

LEMMA SnapshotType ==
    ASSUME TypeOK, NEW S \in SUBSET Tickets
    PROVE  risk \in RiskStates /\ [risk EXCEPT !.seen = S] \in RiskStates
  BY RiskUpdate, SomeStates, 0 \in Nat, FALSE \in BOOLEAN

LEMMA OpenType ==
    ASSUME TypeOK, NEW s \in Symbols
    PROVE  [port EXCEPT !.trades = @ + 1, !.symbols = @ \cup {s}] \in PortfolioStates
<1> risk \in RiskStates /\ port \in PortfolioStates
  BY SomeStates
<1>1. PICK m \in Nat : m = port.trades + 1
  BY StateFields
<1>2. PICK S \in SUBSET Symbols : S = port.symbols \cup {s}
  BY StateFields
<1>3. 0 \in 0..LastDay /\ {} \in SUBSET Tickets /\ FALSE \in BOOLEAN /\ 0 \in Int
  BY AccountingAssumption
<1>4. [port EXCEPT !.trades = m, !.symbols = S] \in PortfolioStates
  BY <1>3, PortUpdate
<1> QED
  BY <1>1, <1>2, <1>4

LEMMA CountType == ASSUME TypeOK PROVE [risk EXCEPT !.open = @ + 1] \in RiskStates
<1> risk \in RiskStates /\ port \in PortfolioStates
  BY SomeStates
<1>1. PICK n \in Nat : n = risk.open + 1
  BY StateFields
<1>2. 0 \in 0..LastDay /\ {} \in SUBSET Tickets /\ FALSE \in BOOLEAN /\ 0 \in Int
  BY AccountingAssumption
<1>3. [risk EXCEPT !.open = n] \in RiskStates
  BY <1>2, RiskUpdate
<1> QED
  BY <1>1, <1>3

JournalRows == [Tickets -> [open : Nat, closed : Nat, profit : Int]]

(* What one row more, or one row closed, makes of the journal.             *)
LEMMA InsertedRow ==
    ASSUME TypeOK, NEW t \in Tickets
    PROVE  /\ inserted(t) \in JournalRows
           /\ inserted(t)[t].open = rows[t].open + 1
           /\ inserted(t)[t].closed = rows[t].closed
           /\ inserted(t)[t].profit = rows[t].profit
           /\ \A u \in Tickets \ {t} : inserted(t)[u] = rows[u]
<1>1. rows \in JournalRows
  BY DEF TypeOK, JournalRows
<1>2. inserted(t) = [rows EXCEPT ![t] = [rows[t] EXCEPT !.open = rows[t].open + 1]]
  BY <1>1 DEF inserted, JournalRows
<1>3. [rows[t] EXCEPT !.open = rows[t].open + 1] \in [open : Nat, closed : Nat, profit : Int]
  BY <1>1 DEF JournalRows
<1> QED
  BY <1>1, <1>2, <1>3 DEF JournalRows

LEMMA ClosedRow ==
    ASSUME TypeOK, NEW t \in Tickets, NEW profit \in Int, match_journal_trade(t)
    PROVE  /\ update_close(t, profit) \in JournalRows
           /\ update_close(t, profit)[t].open = rows[t].open - 1
           /\ update_close(t, profit)[t].closed = rows[t].closed + 1
           /\ update_close(t, profit)[t].profit = rows[t].profit + profit
           /\ \A u \in Tickets \ {t} : update_close(t, profit)[u] = rows[u]
<1>1. rows \in JournalRows
  BY DEF TypeOK, JournalRows
<1>2. rows[t].open - 1 \in Nat /\ rows[t].closed + 1 \in Nat /\ rows[t].profit + profit \in Int
  BY <1>1 DEF JournalRows, match_journal_trade
<1>3. PICK r \in [open : Nat, closed : Nat, profit : Int] :
        r = [open |-> rows[t].open - 1, closed |-> rows[t].closed + 1,
             profit |-> rows[t].profit + profit]
  BY <1>2
<1>4. update_close(t, profit) = [rows EXCEPT ![t] = r]
  BY <1>3 DEF update_close
<1> QED
  BY <1>1, <1>3, <1>4 DEF JournalRows

LEMMA TypeTick == ASSUME TypeOK, Bookkeeping, Tick PROVE TypeOK'
<1>1. CASE TickLatched \/ TickOpen \/ TickStopped \/ ScanFails \/ NoSignals
  BY <1>1, ResetType DEF TickLatched, TickOpen, TickStopped, ScanFails, NoSignals,
     TypeOK, books, locals, clock, counts
<1>2. CASE Signals
  <2>1. port' \in PortfolioStates
    BY <1>2, ResetType DEF Signals
  <2>2. batch' \subseteq Symbols
    BY <1>2 DEF Signals, evaluate
  <2> QED
    BY <1>2, <2>1, <2>2 DEF Signals, TypeOK, clock, counts
<1>3. ASSUME NEW s \in Symbols, Skip(s) PROVE TypeOK'
  BY <1>3 DEF Skip, TypeOK, books, clock, counts
<1>4. ASSUME NEW s \in Symbols, NEW t \in Tickets,
             Place(s, t) \/ PlaceAmbiguous(s, t) \/ Duplicate(s, t)
      PROVE  TypeOK'
  <2>1. tickets' \in [Tickets -> [status : {"unused", "open", "closed"},
                                  symbol : Symbols \cup {NoTicket}]]
    BY <1>4 DEF Place, PlaceAmbiguous, Duplicate, Execute, TypeOK
  <2>2. records' \in [Tickets -> {"none", "pending", "acked", "done"}]
    BY <1>4 DEF Place, PlaceAmbiguous, Duplicate, books, TypeOK
  <2>3. batch' \subseteq Symbols /\ placed' \in Tickets \cup {NoTicket}
    BY <1>4 DEF Place, PlaceAmbiguous, Duplicate, Execute, TypeOK
  <2> QED
    BY <1>4, <2>1, <2>2, <2>3 DEF Place, PlaceAmbiguous, Duplicate, TypeOK, books, clock, counts
<1>5. CASE RecordSignal
  <2>1. placed \in Tickets /\ tickets[placed].symbol \in Symbols
    BY <1>5 DEF RecordSignal, Bookkeeping, UsedTickets
  <2>2. port' \in PortfolioStates
    BY <1>5, <2>1, OpenType DEF RecordSignal, TypeOK
  <2>3. rows' \in JournalRows
    BY <1>5, <2>1, InsertedRow DEF RecordSignal, TypeOK, JournalRows
  <2> QED
    BY <1>5, <2>2, <2>3 DEF RecordSignal, TypeOK, JournalRows, locals, clock, counts
<1>6. CASE MarkCompleted
  <2>1. risk' \in RiskStates
    BY <1>6, CountType DEF MarkCompleted
  <2>2. records' \in [Tickets -> {"none", "pending", "acked", "done"}]
    BY <1>6 DEF MarkCompleted, TypeOK
  <2> QED
    BY <1>6, <2>1, <2>2 DEF MarkCompleted, TypeOK, clock, counts
<1>7. CASE RecordFails \/ MarkFails \/ OrdersDone \/ ListPositions \/ ListFails
  BY <1>7 DEF RecordFails, MarkFails, OrdersDone, ListPositions, ListFails, OpenTickets,
     TypeOK, books, locals, clock, counts
<1> QED
  BY <1>1, <1>2, <1>3, <1>4, <1>5, <1>6, <1>7 DEF Tick

LEMMA TypeCloses == ASSUME TypeOK, Closes PROVE TypeOK'
<1>1. CASE NoneClosed \/ BalanceFails \/ AllScored
  <2>1. listed \in SUBSET Tickets
    BY DEF TypeOK
  <2>2. risk' = risk \/ risk' = [risk EXCEPT !.seen = listed]
    BY <1>1 DEF NoneClosed, BalanceFails, AllScored, deferred
  <2>3. risk' \in RiskStates
    BY <2>1, <2>2, SnapshotType
  <2> QED
    BY <1>1, <2>3 DEF NoneClosed, BalanceFails, AllScored, NoLocals, TypeOK, clock, counts
<1>2. CASE SomeClosed
  BY <1>2 DEF SomeClosed, closed_positions, TypeOK, RiskStates, books, clock, counts
<1>3. ASSUME NEW t \in Tickets, CloseUnmatched(t) \/ DealFails(t) PROVE TypeOK'
  BY <1>3 DEF CloseUnmatched, DealFails, deferred, NoLocals, TypeOK, books, clock, counts
<1>4. ASSUME NEW t \in Tickets, NEW profit \in Profits,
             Score(t, profit) \/ ScoreUnwritten(t, profit)
      PROVE  TypeOK'
  <2>1. profit \in Int /\ Count(t, profit)
    BY <1>4, AccountingAssumption DEF Score, ScoreUnwritten
  <2>2. risk' \in RiskStates /\ port' \in PortfolioStates
    BY <2>1, RecordType DEF Count
  <2>3. rows' \in JournalRows
    BY <1>4, <2>1, ClosedRow DEF Score, ScoreUnwritten, Count, TypeOK, JournalRows
  <2>4. unwritten' \in 0..MaxUnwritten
    BY <1>4, AccountingAssumption DEF Score, ScoreUnwritten, TypeOK
  <2> QED
    BY <2>1, <2>2, <2>3, <2>4 DEF Count, TypeOK, JournalRows, clock, counts
<1>5. CASE SaveRisk \/ SavePortfolio
  BY <1>5 DEF SaveRisk, SavePortfolio, TypeOK, books, locals, clock, counts
<1> QED
  BY <1>1, <1>2, <1>3, <1>4, <1>5 DEF Closes

(* A pass adds rows, one to a position without any, and closes none.       *)
LEMMA ReconciledRows ==
    ASSUME TypeOK, NEW young, Reconciled(young)
    PROVE  /\ rows' \in JournalRows
           /\ records' \in [Tickets -> {"none", "pending", "acked", "done"}]
           /\ \A t \in Tickets :
                 /\ rows'[t].closed = rows[t].closed /\ rows'[t].profit = rows[t].profit
                 /\ records'[t] \in {records[t], "done"}
                 /\ records[t] = "none" => records'[t] = "none"
                 /\ rows'[t] # rows[t] => records[t] = "acked" \/ t \in OpenTickets
<1> DEFINE due == {t \in Tickets \ young : records[t] \in {"acked", "pending"}}
           acked == {t \in due : records[t] = "acked" /\ ~Journaled(t)}
           free == {t \in OpenTickets : ~Journaled(t)}
<1>1. PICK T \in SUBSET Tickets :
        /\ \A t \in T : records[t] = "acked" \/ t \in OpenTickets
        /\ rows' = [t \in Tickets |-> IF t \in T THEN inserted(t)[t] ELSE rows[t]]
  <2>1. PICK matched \in SUBSET free :
          \E unrowed \in IF "insert" \in Faults THEN SUBSET (acked \cup matched) ELSE {{}} :
            rows' = [t \in Tickets |-> IF t \in (acked \cup matched) \ unrowed
                                      THEN inserted(t)[t] ELSE rows[t]]
    BY DEF Reconciled
  <2>2. PICK unrowed \in IF "insert" \in Faults THEN SUBSET (acked \cup matched) ELSE {{}} :
            rows' = [t \in Tickets |-> IF t \in (acked \cup matched) \ unrowed
                                      THEN inserted(t)[t] ELSE rows[t]]
    BY <2>1
  <2>3. (acked \cup matched) \ unrowed \in SUBSET Tickets
    BY DEF OpenTickets
  <2>4. \A t \in (acked \cup matched) \ unrowed : records[t] = "acked" \/ t \in OpenTickets
    OBVIOUS
  <2> QED
    BY <2>2, <2>3, <2>4
<1>2. \A t \in Tickets : rows'[t] = inserted(t)[t] \/ rows'[t] = rows[t]
  BY <1>1
<1>3. ASSUME NEW t \in Tickets
      PROVE  rows'[t] \in [open : Nat, closed : Nat, profit : Int]
  <2>1. inserted(t) \in JournalRows /\ rows \in JournalRows
    BY InsertedRow DEF TypeOK, JournalRows
  <2> QED
    BY <1>2, <2>1 DEF JournalRows
<1>4. rows' \in JournalRows
  BY <1>1, <1>3 DEF JournalRows
<1>5. \A t \in Tickets : rows'[t].closed = rows[t].closed /\ rows'[t].profit = rows[t].profit
  BY <1>2, InsertedRow
<1>6. \A t \in Tickets : rows'[t] # rows[t] => records[t] = "acked" \/ t \in OpenTickets
  BY <1>1
<1>7. records' = [t \in Tickets |-> IF t \in due THEN "done" ELSE records[t]]
  BY DEF Reconciled
<1> QED
  BY <1>4, <1>5, <1>6, <1>7 DEF TypeOK

LEMMA TypeRest == ASSUME TypeOK, Process \/ Environment PROVE TypeOK'
<1>1. CASE Periodic
  BY <1>1, ReconciledRows DEF Periodic, TypeOK, JournalRows, locals, clock, counts
<1>2. CASE Startup
  BY <1>2, ReconciledRows DEF Startup, OpenTickets, TypeOK, JournalRows, clock, counts
<1>3. CASE StartupSkipped \/ Shutdown \/ Restart
  BY <1>3 DEF StartupSkipped, Shutdown, Restart, TypeOK, books, locals, clock, counts
<1>4. CASE Crash \/ TornSave
  <2>1. disk' \in [risk : RiskStates, port : PortfolioStates]
    BY <1>4, NewStates DEF Crash, TornSave, TypeOK
  <2>2. crashes' \in 0..MaxCrashes
    BY <1>4, AccountingAssumption DEF Crash, TornSave, Down, TypeOK
  <2> QED
    BY <1>4, <2>1, <2>2 DEF Crash, TornSave, Down, NoLocals, TypeOK, clock, counts
<1>5. ASSUME NEW t \in Tickets, BrokerCloses(t) PROVE TypeOK'
  BY <1>5 DEF BrokerCloses, TypeOK, books, locals, clock, counts
<1>6. CASE Midnight \/ UtcMidnight
  <2>1. day' \in 0..LastDay /\ utc' \in 0..LastDay
    BY <1>6, AccountingAssumption DEF Midnight, UtcMidnight, TypeOK
  <2> QED
    BY <1>6, <2>1 DEF Midnight, UtcMidnight, TypeOK, books, locals, counts
<1> QED
  BY <1>1, <1>2, <1>3, <1>4, <1>5, <1>6 DEF Process, Environment

LEMMA TypeInit == Init => TypeOK
<1> SUFFICES ASSUME Init PROVE TypeOK
  OBVIOUS
<1>1. /\ tickets \in [Tickets -> [status : {"unused", "open", "closed"},
                                  symbol : Symbols \cup {NoTicket}]]
      /\ rows \in [Tickets -> [open : Nat, closed : Nat, profit : Int]]
      /\ records \in [Tickets -> {"none", "pending", "acked", "done"}]
  BY DEF Init
<1>2. disk \in [risk : RiskStates, port : PortfolioStates]
  BY NewStates DEF Init
<1>3. day \in 0..LastDay /\ utc \in 0..LastDay /\ crashes \in 0..MaxCrashes
      /\ unwritten \in 0..MaxUnwritten
  BY AccountingAssumption DEF Init
<1> QED
  BY <1>1, <1>2, <1>3, NewStates DEF Init, TypeOK

LEMMA TypeStep == TypeOK /\ Bookkeeping /\ [Next]_vars => TypeOK'
<1>1. TypeOK /\ UNCHANGED vars => TypeOK'
  BY DEF TypeOK, vars, books, locals, clock, counts
<1> QED
  BY <1>1, TypeTick, TypeCloses, TypeRest DEF Next

-----------------------------------------------------------------------------
(* Bookkeeping.                                                            *)
LEMMA BookkeepingInit == Init => Bookkeeping
  BY DEF Init, UsedTickets, Journaled, Bookkeeping

(* The steps that touch neither positions, rows nor records.               *)
Quiet ==
    /\ UNCHANGED <<tickets, rows, records, unwritten>>
    /\ \/ UNCHANGED <<pc, placed>>
       \/ pc' \notin {"record", "mark"} /\ placed' = NoTicket
    /\ risk'.trades \in {0, risk.trades, disk.risk.trades}
    /\ disk'.risk.trades \in {0, risk.trades, disk.risk.trades}

LEMMA SeenKeepsTrades ==
    ASSUME TypeOK, NEW S PROVE [risk EXCEPT !.seen = S].trades = risk.trades
  BY DEF TypeOK, RiskStates

LEMMA QuietTick ==
    ASSUME TypeOK, Bookkeeping,
           \/ TickLatched \/ TickOpen \/ TickStopped \/ ScanFails \/ NoSignals \/ Signals
           \/ (\E s \in Symbols : Skip(s)) \/ RecordFails \/ MarkFails \/ OrdersDone
           \/ ListPositions \/ ListFails
    PROVE  Quiet
<1>1. reset_daily.trades = 0
  BY DEF reset_daily, TypeOK, RiskStates
<1> QED
  BY <1>1 DEF Quiet, TickLatched, TickOpen, TickStopped, ScanFails, NoSignals, Signals, Skip,
     RecordFails, MarkFails, OrdersDone, ListPositions, ListFails, Bookkeeping,
     books, locals, clock, counts

LEMMA QuietCloses ==
    ASSUME TypeOK, Bookkeeping,
           \/ NoneClosed \/ BalanceFails \/ SomeClosed \/ AllScored
                   \/ (\E t \in Tickets : CloseUnmatched(t) \/ DealFails(t))
                   \/ SaveRisk \/ SavePortfolio
    PROVE  Quiet
<1>1. disk' = disk \/ disk' = [disk EXCEPT !.risk = risk] \/ disk' = [disk EXCEPT !.port = port]
  BY DEF NoneClosed, BalanceFails, SomeClosed, AllScored, CloseUnmatched, DealFails,
     SaveRisk, SavePortfolio
<1>2. disk'.risk.trades \in {risk.trades, disk.risk.trades}
  BY <1>1 DEF TypeOK
<1>3. risk'.trades = risk.trades
  BY SeenKeepsTrades DEF NoneClosed, BalanceFails, SomeClosed, AllScored, CloseUnmatched,
     DealFails, SaveRisk, SavePortfolio, deferred, books
<1> QED
  BY <1>2, <1>3 DEF Quiet, NoneClosed, BalanceFails, SomeClosed, AllScored, CloseUnmatched,
     DealFails, SaveRisk, SavePortfolio, NoLocals, Bookkeeping, books, locals, counts

LEMMA QuietProcess ==
    ASSUME TypeOK, Bookkeeping,
           \/ StartupSkipped \/ Shutdown \/ Crash \/ TornSave \/ Restart
           \/ Midnight \/ UtcMidnight \/ UNCHANGED vars
    PROVE  Quiet
<1>1. CASE StartupSkipped \/ Restart \/ Midnight \/ UtcMidnight \/ UNCHANGED vars
  BY <1>1 DEF Quiet, StartupSkipped, Restart, Midnight, UtcMidnight, vars, Bookkeeping,
     books, locals, counts
<1>2. CASE Shutdown
  BY <1>2 DEF Quiet, Shutdown, Bookkeeping, books, locals, counts
<1>3. CASE Crash
  BY <1>3 DEF Quiet, Crash, Down, NoLocals
<1>4. CASE TornSave
  <2>1. new_state.trades = 0
    BY DEF new_state
  <2>2. disk'.risk \in {new_state, disk.risk}
    BY <1>4 DEF TornSave, TypeOK
  <2> QED
    BY <1>4, <2>1, <2>2 DEF Quiet, TornSave, Down, NoLocals
<1> QED
  BY <1>1, <1>2, <1>3, <1>4

LEMMA StepCases ==
    ASSUME TypeOK, Bookkeeping, [Next]_vars
    PROVE  \/ Quiet \/ RecordSignal \/ MarkCompleted \/ Periodic \/ Startup
           \/ \E s \in Symbols, t \in Tickets :
                 Place(s, t) \/ PlaceAmbiguous(s, t) \/ Duplicate(s, t)
           \/ \E t \in Tickets, profit \in Profits : Score(t, profit) \/ ScoreUnwritten(t, profit)
           \/ \E t \in Tickets : BrokerCloses(t)
  BY QuietTick, QuietCloses, QuietProcess DEF Next, Tick, Closes, Process, Environment

LEMMA ReconciledUsed ==
    ASSUME TypeOK, Bookkeeping, NEW young, Reconciled(young), NEW t \in Tickets \ UsedTickets
    PROVE  records'[t] = "none" /\ rows'[t] = rows[t]
<1>1. records[t] = "none" /\ t \notin OpenTickets
  BY DEF Bookkeeping, UsedTickets, OpenTickets
<1> QED
  BY <1>1, ReconciledRows

LEMMA BookkeepingStep ==
    ASSUME TypeOK, Bookkeeping, [Next]_vars PROVE Bookkeeping'
<1>1. CASE Quiet
  BY <1>1 DEF Quiet, Bookkeeping, UsedTickets, Journaled
<1>2. ASSUME NEW s \in Symbols, NEW t \in Tickets, Place(s, t) \/ PlaceAmbiguous(s, t)
      PROVE  Bookkeeping'
  <2>1. t \notin UsedTickets
    BY <1>2 DEF Place, PlaceAmbiguous, Execute, UsedTickets
  <2>2. tickets'[t].status = "open" /\ tickets'[t].symbol = s /\ rows' = rows
    BY <1>2 DEF Place, PlaceAmbiguous, Execute, TypeOK
  <2>3. \A u \in Tickets \ {t} : tickets'[u] = tickets[u] /\ records'[u] = records[u]
    BY <1>2 DEF Place, PlaceAmbiguous, Execute, TypeOK
  <2>4. \/ pc' = "record" /\ placed' = t
        \/ pc' = "orders" /\ pc = "orders" /\ placed' = placed
    BY <1>2 DEF Place, PlaceAmbiguous, Execute
  <2>5. UsedTickets' = UsedTickets \cup {t}
    BY <2>2, <2>3 DEF UsedTickets
  <2> QED
    BY <2>1, <2>2, <2>3, <2>4, <2>5 DEF Bookkeeping, Journaled
<1>3. ASSUME NEW s \in Symbols, NEW t \in Tickets, Duplicate(s, t) PROVE Bookkeeping'
  <2>1. t \in UsedTickets
    BY <1>3 DEF Duplicate, Bookkeeping
  <2> QED
    BY <1>3, <2>1 DEF Duplicate, Bookkeeping, UsedTickets, Journaled, books
<1>4. CASE RecordSignal
  <2>1. placed \in UsedTickets /\ placed \in Tickets
    BY <1>4 DEF RecordSignal, Bookkeeping, UsedTickets
  <2>2. \A u \in Tickets \ {placed} : rows'[u] = rows[u]
    BY <1>4, <2>1, InsertedRow DEF RecordSignal
  <2> QED
    BY <1>4, <2>1, <2>2 DEF RecordSignal, Bookkeeping, UsedTickets, Journaled, locals
<1>5. CASE MarkCompleted
  BY <1>5 DEF MarkCompleted, Bookkeeping, UsedTickets, Journaled, TypeOK
<1>6. ASSUME NEW t \in Tickets, NEW profit \in Profits,
             Score(t, profit) \/ ScoreUnwritten(t, profit)
      PROVE  Bookkeeping'
  <2>1. Count(t, profit) /\ t \in UsedTickets
    BY <1>6 DEF Score, ScoreUnwritten, Count, match_journal_trade, Bookkeeping, Journaled, TypeOK
  <2>2. \A u \in Tickets \ {t} : rows'[u] = rows[u]
    BY <1>6 DEF Score, ScoreUnwritten, update_close, TypeOK
  <2> QED
    BY <2>1, <2>2 DEF Count, Bookkeeping, UsedTickets, Journaled
<1>7. CASE Periodic \/ Startup
  <2>1. PICK young : Reconciled(young)
    BY <1>7 DEF Periodic, Startup
  <2>2. UNCHANGED <<tickets, placed>> /\ pc' \notin {"record", "mark"} /\ placed = NoTicket
    BY <1>7 DEF Periodic, Startup, Bookkeeping, locals
  <2> QED
    BY <2>1, <2>2, ReconciledUsed DEF Bookkeeping, UsedTickets, Journaled
<1>8. ASSUME NEW t \in Tickets, BrokerCloses(t) PROVE Bookkeeping'
  <2>1. \A u \in Tickets : /\ tickets'[u].symbol = tickets[u].symbol
                           /\ tickets'[u].status = "unused" <=> tickets[u].status = "unused"
    BY <1>8 DEF BrokerCloses, TypeOK
  <2>2. UsedTickets' = UsedTickets
    BY <2>1 DEF UsedTickets
  <2> QED
    BY <1>8, <2>1, <2>2 DEF BrokerCloses, Bookkeeping, Journaled, books, locals
<1> QED
  BY <1>1, <1>2, <1>3, <1>4, <1>5, <1>6, <1>7, <1>8, StepCases

-----------------------------------------------------------------------------
(* Scores and closed rows.                                                 *)
LEMMA TicketsFinite == ASSUME NEW S \in SUBSET Tickets PROVE IsFiniteSet(S)
  BY AccountingAssumption, FS_Subset

Closed == [t \in Tickets |-> rows[t].closed]

LEMMA ClosedType ==
    ASSUME TypeOK
    PROVE  /\ ClosedRows = SumFunctionOnSet(Closed, Tickets)
           /\ \A t \in Tickets : Closed[t] = rows[t].closed /\ Closed[t] \in Int
           /\ ClosedRows \in Int
           /\ risk.trades \in Nat /\ disk.risk.trades \in Nat /\ unwritten \in Nat
<1>1. ClosedRows = SumFunctionOnSet(Closed, Tickets)
  BY DEF ClosedRows, Closed
<1>2. \A t \in Tickets : Closed[t] = rows[t].closed /\ Closed[t] \in Int
  BY DEF TypeOK, Closed
<1>3. ClosedRows \in Int
  BY <1>1, <1>2, TicketsFinite, Tickets \in SUBSET Tickets, SumType
<1> QED
  BY <1>1, <1>2, <1>3, AccountingAssumption DEF TypeOK, RiskStates

LEMMA SameClosed ==
    ASSUME \A t \in Tickets : rows'[t].closed = rows[t].closed
    PROVE  ClosedRows' = ClosedRows
<1>1. [t \in Tickets |-> rows'[t].closed] = [t \in Tickets |-> rows[t].closed]
  OBVIOUS
<1> QED
  BY <1>1 DEF ClosedRows

LEMMA OneMoreClosed ==
    ASSUME TypeOK, NEW t \in Tickets, NEW profit \in Profits, Score(t, profit)
    PROVE  ClosedRows' = ClosedRows + 1
<1>1. rows' = update_close(t, profit) /\ match_journal_trade(t) /\ profit \in Int
  BY AccountingAssumption DEF Score, Count
<1>2. Closed'[t] = Closed[t] + 1 /\ \A u \in Tickets \ {t} : Closed'[u] = Closed[u]
  BY <1>1, ClosedRow DEF Closed
<1>3. PICK v, w : v = Closed /\ w = Closed'
  OBVIOUS
<1>4. SumFunctionOnSet(w, Tickets) = SumFunctionOnSet(v, Tickets) + 1
  BY <1>2, <1>3, ClosedType, AccountingAssumption, SumOneMore
<1> QED
  BY <1>3, <1>4 DEF ClosedRows, Closed

LEMMA ScoredStep ==
    ASSUME AccountingInv, [Next]_vars PROVE NeverScoredTwice'
<1> USE DEF AccountingInv
<1> USE ClosedType
<1>1. CASE Quiet
  <2>1. ClosedRows' = ClosedRows
    BY <1>1 DEF Quiet, ClosedRows
  <2> QED
    BY <1>1, <2>1 DEF Quiet, NeverScoredTwice
<1>2. ASSUME NEW t \in Tickets, NEW profit \in Profits,
             Score(t, profit) \/ ScoreUnwritten(t, profit)
      PROVE  NeverScoredTwice'
  <2>1. risk'.trades = risk.trades + 1 /\ disk' = disk
    BY <1>2 DEF Score, ScoreUnwritten, Count, record_result, TypeOK, RiskStates
  <2>2. CASE Score(t, profit)
    BY <2>1, <2>2, OneMoreClosed DEF Score, NeverScoredTwice
  <2>3. CASE ScoreUnwritten(t, profit)
    <3>1. ClosedRows' = ClosedRows /\ unwritten' = unwritten + 1
      BY <2>3 DEF ScoreUnwritten, ClosedRows
    <3> QED
      BY <2>1, <3>1 DEF NeverScoredTwice
  <2> QED
    BY <1>2, <2>2, <2>3
<1>3. CASE RecordSignal
  <2>1. \A t \in Tickets : rows'[t].closed = rows[t].closed
    BY <1>3, InsertedRow DEF RecordSignal, Bookkeeping, UsedTickets
  <2> QED
    BY <1>3, <2>1, SameClosed DEF RecordSignal, NeverScoredTwice, counts
<1>4. CASE MarkCompleted
  <2>1. risk'.trades = risk.trades
    BY <1>4 DEF MarkCompleted, TypeOK, RiskStates
  <2> QED
    BY <1>4, <2>1 DEF MarkCompleted, ClosedRows, NeverScoredTwice, counts
<1>5. CASE Periodic \/ Startup
  <2>1. PICK young : Reconciled(young)
    BY <1>5 DEF Periodic, Startup
  <2> QED
    BY <1>5, <2>1, ReconciledRows, SameClosed DEF Periodic, Startup, NeverScoredTwice, counts
<1>6. CASE UNCHANGED <<rows, risk, disk, unwritten>>
  BY <1>6 DEF ClosedRows, NeverScoredTwice
<1> QED
  BY <1>1, <1>2, <1>3, <1>4, <1>5, <1>6, StepCases
     DEF Place, PlaceAmbiguous, Duplicate, BrokerCloses, books, counts

LEMMA AccountingInvInit == Init => AccountingInv
<1> SUFFICES ASSUME Init PROVE NeverScoredTwice
  BY TypeInit, BookkeepingInit DEF AccountingInv
<1>1. \A t \in Tickets : Closed[t] = 0
  BY DEF Init, Closed
<1>2. SumFunctionOnSet(Closed, Tickets) = 0
  BY <1>1, AccountingAssumption, SumOfZeros
<1> QED
  BY <1>2 DEF Init, NeverScoredTwice, ClosedRows, Closed, new_state

(* Every variable keeps its type, and no counter of the demo runner ever   *)
(* becomes negative, under every fault and any number of crashes.          *)
THEOREM AccountingTyped == Spec => []TypeOK
<1>1. AccountingInv /\ [Next]_vars => AccountingInv'
  BY TypeStep, BookkeepingStep, ScoredStep DEF AccountingInv
<1>2. AccountingInv => TypeOK
  BY DEF AccountingInv
<1> QED
  BY <1>1, <1>2, AccountingInvInit, PTL DEF Spec

(* process_closed_positions counts no journal row twice, whatever fails,   *)
(* tears or crashes: every close it has counted has closed a row of its    *)
(* own, but for those whose update the journal swallowed.                  *)
THEOREM ScoredOnce == Spec => []NeverScoredTwice
<1>1. AccountingInv /\ [Next]_vars => AccountingInv'
  BY TypeStep, BookkeepingStep, ScoredStep DEF AccountingInv
<1>2. AccountingInv => NeverScoredTwice
  BY DEF AccountingInv
<1> QED
  BY <1>1, <1>2, AccountingInvInit, PTL DEF Spec

-----------------------------------------------------------------------------
(* The daily halt.                                                         *)
OneDate == HostIsUtc = TRUE /\ "torn_save" \notin Faults

LEMMA ResetTypes ==
    ASSUME TypeOK
    PROVE  /\ risk.last_reset \in Int /\ disk.risk.last_reset \in Int
           /\ day \in Int /\ utc \in Int
           /\ risk.halted \in BOOLEAN /\ disk.risk.halted \in BOOLEAN
  BY DEF TypeOK, RiskStates, Never

(* The steps that neither reset, save nor load: a halt may only be set.    *)
Halting ==
    /\ UNCHANGED <<day, utc>> /\ disk'.risk = disk.risk
    /\ risk'.last_reset = risk.last_reset /\ (risk.halted => risk'.halted)

LEMMA HaltingKeeps == ASSUME HaltKept, Halting PROVE HaltKept'
  BY DEF HaltKept, Halting

LEMMA HaltingSteps ==
    ASSUME TypeOK, Tick \/ Closes \/ Process \/ Environment \/ UNCHANGED vars
    PROVE  \/ Halting \/ TickLatched \/ TickOpen \/ SaveRisk \/ Shutdown \/ Crash \/ TornSave
           \/ Midnight \/ UtcMidnight
<1>1. CASE UNCHANGED <<risk, disk, day, utc>>
  BY <1>1 DEF Halting
<1>2. CASE MarkCompleted \/ NoneClosed \/ AllScored
  <2>1. \/ risk' = [risk EXCEPT !.open = @ + 1]
        \/ risk' = [risk EXCEPT !.seen = listed]
    BY <1>2 DEF MarkCompleted, NoneClosed, AllScored
  <2>2. risk'.last_reset = risk.last_reset /\ risk'.halted = risk.halted
    BY <2>1 DEF TypeOK, RiskStates
  <2> QED
    BY <1>2, <2>2 DEF Halting, MarkCompleted, NoneClosed, AllScored, clock
<1>3. ASSUME NEW t \in Tickets, NEW profit \in Profits, Count(t, profit) PROVE Halting
  <2>1. risk'.last_reset = risk.last_reset /\ (risk.halted => risk'.halted)
    BY <1>3 DEF Count, record_result, TypeOK, RiskStates
  <2> QED
    BY <1>3, <2>1 DEF Halting, Count, clock
<1>4. CASE SavePortfolio
  BY <1>4 DEF Halting, SavePortfolio, TypeOK, books, clock
<1> QED
  BY <1>1, <1>2, <1>3, <1>4
     DEF vars, books, clock, Tick, Closes, Process, Environment, TickStopped, ScanFails,
     NoSignals, Signals, Skip, Place, PlaceAmbiguous, Duplicate, RecordSignal, RecordFails,
     MarkFails, OrdersDone, ListPositions, ListFails, BalanceFails, SomeClosed, CloseUnmatched,
     DealFails, deferred, Score, ScoreUnwritten, Periodic, Startup, StartupSkipped, Restart,
     BrokerCloses

LEMMA HaltKeptStep ==
    ASSUME OneDate, TypeOK, HaltKept, [Next]_vars PROVE HaltKept'
<1> USE ResetTypes
<1>1. CASE Halting
  BY <1>1, HaltingKeeps
<1>2. CASE TickLatched \/ TickOpen
  <2>1. risk' = IF day_changed THEN reset_daily ELSE risk
    BY <1>2 DEF TickLatched, TickOpen
  <2>2. UNCHANGED <<day, utc, disk>>
    BY <1>2 DEF TickLatched, TickOpen, clock
  <2>3. CASE ~day_changed
    BY <2>1, <2>2, <2>3 DEF HaltKept
  <2>4. CASE day_changed
    <3>1. risk'.last_reset = utc
      BY <2>1, <2>4 DEF reset_daily, TypeOK, RiskStates
    <3> QED
      BY <2>2, <2>4, <3>1 DEF day_changed, HaltKept
  <2> QED
    BY <2>3, <2>4
<1>3. CASE SaveRisk \/ Shutdown
  <2>1. disk'.risk = risk
    BY <1>3 DEF SaveRisk, Shutdown, TypeOK
  <2> QED
    BY <1>3, <2>1 DEF SaveRisk, Shutdown, HaltKept, books, clock
<1>4. CASE Crash
  BY <1>4 DEF Crash, Down, HaltKept, clock
<1>5. CASE TornSave
  BY <1>5 DEF TornSave, OneDate
<1>6. CASE Midnight
  BY <1>6 DEF Midnight, HaltKept, OneDate, books
<1>7. CASE UtcMidnight
  BY <1>7 DEF UtcMidnight, HaltKept
<1> QED
  BY <1>1, <1>2, <1>3, <1>4, <1>5, <1>6, <1>7, HaltingSteps DEF Next

(* Only a save writes the halt on disk, and it writes what HaltKept says.  *)
LEMMA HaltStep ==
    ASSUME OneDate, TypeOK, HaltKept, [Next]_vars
    PROVE  disk.risk.halted /\ ~disk'.risk.halted
             => disk'.risk.last_reset > disk.risk.last_reset
<1> USE ResetTypes
<1>1. CASE disk'.risk = disk.risk
  BY <1>1
<1>2. CASE SaveRisk \/ Shutdown
  <2>1. disk'.risk = risk
    BY <1>2 DEF SaveRisk, Shutdown, TypeOK
  <2> QED
    BY <2>1 DEF HaltKept
<1> QED
  BY <1>1, <1>2, HaltingSteps DEF Next, Halting, TickLatched, TickOpen, Crash, TornSave,
     Midnight, UtcMidnight, OneDate

(* A saved halt is lifted by the reset of a later day and by nothing else, *)
(* over any number of crashes and restarts, as long as the host's date is  *)
(* the UTC date and no crash tears the file.                               *)
THEOREM HaltSurvives == ASSUME OneDate PROVE Spec => HaltOutlivesRestart
<1>1. Init => HaltKept
  BY DEF Init, HaltKept, new_state, Never, OneDate
<1>2. TypeOK /\ HaltKept /\ [Next]_vars => HaltKept'
  BY HaltKeptStep
<1>3. TypeOK /\ HaltKept /\ [Next]_vars =>
        [disk.risk.halted /\ ~disk.risk'.halted =>
           disk.risk'.last_reset > disk.risk.last_reset]_vars
  BY HaltStep
<1> QED
  BY <1>1, <1>2, <1>3, AccountingTyped, PTL DEF Spec, HaltOutlivesRestart

-----------------------------------------------------------------------------
(* The books while every order is recorded and counted, every close update *)
(* is written and nothing has crashed.                                     *)
OrdersRecorded == {"ambiguous", "log_open", "mark", "update_close"} \cap Faults = {}

(* Held are the positions executed, not scored and not being recorded.     *)
LEMMA HeldIs ==
    ASSUME TypeOK, Bookkeeping, RowsComplete, NEW t \in Tickets
    PROVE  t \in Held <=> t \in UsedTickets /\ rows[t].closed = 0 /\ t # placed
<1>1. rows[t].open \in Nat /\ rows[t].closed \in Nat /\ rows[t].open + rows[t].closed <= 1
  BY DEF TypeOK, RowsComplete
<1>2. t \notin UsedTickets => rows[t].open + rows[t].closed = 0
  BY <1>1 DEF Bookkeeping, Journaled
<1> QED
  BY <1>1, <1>2 DEF Held, OpenRows, Unjournaled, Journaled, UsedTickets

LEMMA HeldIsNext ==
    ASSUME TypeOK', Bookkeeping', RowsComplete', NEW t \in Tickets
    PROVE  t \in Held' <=> t \in UsedTickets' /\ rows'[t].closed = 0 /\ t # placed'
<1>1. rows'[t].open \in Nat /\ rows'[t].closed \in Nat /\ rows'[t].open + rows'[t].closed <= 1
  BY DEF TypeOK, RowsComplete
<1>2. t \notin UsedTickets' => rows'[t].open + rows'[t].closed = 0
  BY <1>1 DEF Bookkeeping, Journaled
<1> QED
  BY <1>1, <1>2 DEF Held, OpenRows, Unjournaled, Journaled, UsedTickets

LEMMA HeldFinite ==
    /\ Held \subseteq Tickets /\ IsFiniteSet(Held) /\ Cardinality(Held) \in Nat
<1>1. Held \subseteq Tickets
  BY DEF Held, OpenRows, Unjournaled
<1> QED
  BY <1>1, TicketsFinite, FS_CardinalityType

LEMMA SameHeld ==
    ASSUME UNCHANGED <<rows, placed>>, UsedTickets' = UsedTickets PROVE Held' = Held
<1>1. OpenRows' = OpenRows
  BY DEF OpenRows
<1>2. Unjournaled = {t \in UsedTickets : ~Journaled(t)}
  BY DEF Unjournaled, UsedTickets
<1>3. Unjournaled' = {t \in UsedTickets' : ~Journaled(t)'}
  BY DEF Unjournaled, UsedTickets
<1>4. Unjournaled' = Unjournaled
  BY <1>2, <1>3 DEF Journaled
<1> QED
  BY <1>1, <1>4 DEF Held

(* The steps that neither open, list nor score a position.                 *)
Steady ==
    /\ UNCHANGED <<tickets, rows, records, placed>>
    /\ risk'.open = risk.open /\ port'.symbols = port.symbols
    /\ \/ /\ pc \notin {"record", "mark"}
          /\ pc' \notin {"orders", "record", "mark", "diff", "closing"}
          /\ risk'.seen \cup listed' \subseteq risk.seen \cup listed
       \/ UNCHANGED <<pc, batch, closing, listed>> /\ risk'.seen = risk.seen

LEMMA SteadyKeeps == ASSUME SoundInv, Steady PROVE SoundInv'
<1> USE DEF SoundInv, Steady
<1>1. UsedTickets' = UsedTickets
  BY DEF UsedTickets
<1>2. Held' = Held
  BY <1>1, SameHeld
<1>3. RowsComplete' /\ RoomLeft'
  BY DEF RowsComplete, RoomLeft
<1>4. GoneIsClosed'
  BY <1>1 DEF GoneIsClosed
<1>5. SymbolsTaken'
  BY <1>2 DEF SymbolsTaken
<1>6. Taken' = Taken
  BY <1>2 DEF Taken
<1>7. CountsMatch'
  BY <1>2, <1>6 DEF CountsMatch
<1> QED
  BY <1>3, <1>4, <1>5, <1>7

LEMMA ResetKeeps ==
    ASSUME TypeOK
    PROVE  /\ reset_daily.open = risk.open /\ reset_daily.seen = risk.seen
           /\ maybe_reset_daily.symbols = port.symbols
           /\ \A S : [risk EXCEPT !.seen = S].open = risk.open
                    /\ [risk EXCEPT !.seen = S].seen = S
  BY DEF TypeOK, RiskStates, PortfolioStates, reset_daily, maybe_reset_daily

LEMMA SteadySteps ==
    ASSUME TypeOK, Bookkeeping, Tick \/ Closes \/ Process \/ Environment \/ UNCHANGED vars
    PROVE  \/ Steady \/ Crash \/ TornSave \/ RecordFails \/ MarkFails
           \/ Signals \/ RecordSignal \/ MarkCompleted \/ ListPositions \/ SomeClosed
           \/ Periodic \/ Startup
           \/ \E s \in Symbols : Skip(s) \/ \E t \in Tickets : Place(s, t) \/ PlaceAmbiguous(s, t)
                                                             \/ Duplicate(s, t)
           \/ \E t \in Tickets : \/ CloseUnmatched(t) \/ BrokerCloses(t)
                                 \/ \E profit \in Profits : \/ Score(t, profit)
                                                           \/ ScoreUnwritten(t, profit)
<1>1. CASE TickLatched \/ TickOpen \/ TickStopped \/ ScanFails \/ NoSignals \/ OrdersDone \/ ListFails
  BY <1>1, ResetKeeps DEF Steady, TickLatched, TickOpen, TickStopped, ScanFails, NoSignals,
     OrdersDone, ListFails, books, locals
<1>2. CASE NoneClosed \/ BalanceFails \/ AllScored \/ \E t \in Tickets : DealFails(t)
  <2>1. placed = NoTicket
    BY <1>2 DEF NoneClosed, BalanceFails, AllScored, DealFails, Bookkeeping
  <2> QED
    BY <1>2, <2>1, ResetKeeps DEF Steady, NoneClosed, BalanceFails, AllScored, DealFails,
       deferred, NoLocals
<1>3. CASE SaveRisk \/ SavePortfolio \/ StartupSkipped \/ Shutdown \/ Restart
  BY <1>3 DEF Steady, SaveRisk, SavePortfolio, StartupSkipped, Shutdown, Restart, books, locals
<1>4. CASE Midnight \/ UtcMidnight \/ UNCHANGED vars
  BY <1>4 DEF Steady, Midnight, UtcMidnight, vars, books, locals
<1> QED
  BY <1>1, <1>2, <1>3, <1>4 DEF Tick, Closes, Process, Environment

(* A step of the tick or of the closes that leaves positions, rows,        *)
(* records and counters alone.                                             *)
LEMMA SoundQuiet ==
    ASSUME SoundInv, UNCHANGED <<tickets, rows, records, placed>>,
           risk'.open = risk.open, port'.symbols = port.symbols,
           pc \notin {"record", "mark"}, pc' \notin {"record", "mark"},
           GoneIsClosed', pc' = "orders" => batch' \cap port.symbols = {}
    PROVE  SoundInv'
<1> USE DEF SoundInv
<1>1. Held' = Held
  BY SameHeld DEF UsedTickets
<1>2. RowsComplete' /\ RoomLeft'
  BY DEF RowsComplete, RoomLeft
<1>3. SymbolsTaken'
  BY <1>1 DEF SymbolsTaken
<1>4. Taken' = Taken
  BY <1>1 DEF Taken
<1>5. CountsMatch'
  BY <1>1, <1>4 DEF CountsMatch
<1> QED
  BY <1>2, <1>3, <1>5

LEMMA SoundSignals ==
    ASSUME TypeOK, SoundInv, Signals \/ \E s \in Symbols : Skip(s) PROVE SoundInv'
<1>1. /\ UNCHANGED <<tickets, rows, records, placed, risk, listed>>
      /\ port'.symbols = port.symbols
      /\ pc \in {"scan", "orders"} /\ pc' \in {"idle", "orders"}
  BY ResetKeeps DEF Signals, Skip, books
<1>2. batch' \cap port.symbols = {}
  BY ResetKeeps DEF Signals, Skip, evaluate, SoundInv, SymbolsTaken
<1>3. GoneIsClosed'
  BY <1>1 DEF GoneIsClosed, SoundInv, UsedTickets
<1> QED
  BY <1>1, <1>2, <1>3, SoundQuiet

(* check_limits leaves room, and the symbol of an approved signal is free. *)
LEMMA SoundPlace ==
    ASSUME TypeOK, Bookkeeping, TypeOK', Bookkeeping', SoundInv,
           NEW s \in Symbols, NEW t \in Tickets, Place(s, t)
    PROVE  SoundInv'
<1> USE DEF SoundInv
<1>1. /\ t \notin UsedTickets /\ placed = NoTicket
      /\ tickets'[t] = [status |-> "open", symbol |-> s]
      /\ \A u \in Tickets \ {t} : tickets'[u] = tickets[u] /\ records'[u] = records[u]
      /\ records'[t] = "acked" /\ UNCHANGED <<rows, risk, port, listed, closing>>
      /\ pc = "orders" /\ pc' = "record" /\ placed' = t
      /\ s \in batch /\ batch' = batch \ {s}
  BY DEF Place, Execute, Bookkeeping, UsedTickets, TypeOK
<1>2. UsedTickets' = UsedTickets \cup {t} /\ NoTicket \notin Tickets
  BY <1>1, AccountingAssumption DEF UsedTickets
<1>3. rows[t].open = 0 /\ rows[t].closed = 0
  <2>1. rows[t].open \in Nat /\ rows[t].closed \in Nat
    BY DEF TypeOK
  <2>2. ~(rows[t].open + rows[t].closed > 0)
    BY <1>1 DEF Bookkeeping, Journaled
  <2> QED
    BY <2>1, <2>2
<1>4. RowsComplete'
  BY <1>1, <1>3 DEF RowsComplete
<1>5. Held' = Held
  <2>1. \A u \in Tickets : u \in Held' <=> u \in Held
    BY <1>1, <1>2, <1>4, HeldIs, HeldIsNext
  <2> QED
    BY <2>1, HeldFinite DEF Held, OpenRows, Unjournaled
<1>6. GoneIsClosed'
  BY <1>1, <1>2 DEF GoneIsClosed
<1>7. \A u \in Held : u \in Tickets /\ u # t /\ tickets'[u].symbol = tickets[u].symbol
  BY <1>1, HeldIs, HeldFinite
<1>8. \A u \in Held : tickets[u].symbol \in port.symbols
  BY DEF CountsMatch, Taken
<1>9. SymbolsTaken'
  BY <1>1, <1>5, <1>7, <1>8 DEF SymbolsTaken
<1>10. CountsMatch'
  <2>1. Taken' = Held /\ Taken = Held
    BY <1>1, <1>5 DEF Taken
  <2>2. {tickets'[u].symbol : u \in Held} = {tickets[u].symbol : u \in Held}
    BY <1>7
  <2> QED
    BY <1>1, <1>5, <2>1, <2>2 DEF CountsMatch
<1>11. RoomLeft'
  BY <1>1 DEF RoomLeft, Place, Execute, check_limits
<1> QED
  BY <1>4, <1>6, <1>9, <1>10, <1>11

(* The row and the symbol of the order being recorded.                     *)
LEMMA SoundSignal ==
    ASSUME TypeOK, Bookkeeping, TypeOK', Bookkeeping', SoundInv, RecordSignal PROVE SoundInv'
<1> USE DEF SoundInv
<1> PICK t \in Tickets : t = placed
  BY DEF Bookkeeping, RecordSignal, UsedTickets
<1>1. /\ UNCHANGED <<tickets, records, risk, batch, placed, listed, closing>>
      /\ pc = "record" /\ pc' = "mark"
  BY DEF RecordSignal, locals
<1>2. /\ rows'[t].open \in {rows[t].open, rows[t].open + 1} /\ rows'[t].closed = rows[t].closed
      /\ \A u \in Tickets \ {t} : rows'[u] = rows[u]
  BY InsertedRow DEF RecordSignal
<1>3. port'.symbols = port.symbols \cup {tickets[t].symbol}
  BY DEF RecordSignal, TypeOK, PortfolioStates
<1>4. UsedTickets' = UsedTickets
  BY <1>1 DEF UsedTickets
<1>5. RowsComplete'
  BY <1>1, <1>2 DEF RowsComplete
<1>6. Held' = Held
  <2>1. \A u \in Tickets : u \in Held' <=> u \in Held
    BY <1>1, <1>2, <1>4, <1>5, HeldIs, HeldIsNext
  <2> QED
    BY <2>1, HeldFinite DEF Held, OpenRows, Unjournaled
<1>7. GoneIsClosed' /\ RoomLeft'
  BY <1>1, <1>4 DEF GoneIsClosed, RoomLeft
<1>8. SymbolsTaken'
  BY <1>1, <1>3, <1>6 DEF SymbolsTaken
<1>9. CountsMatch'
  <2>1. Taken' = Held \cup {t} /\ Taken = Held
    BY <1>1, <1>6 DEF Taken
  <2>2. {tickets[u].symbol : u \in Held \cup {t}}
          = {tickets[u].symbol : u \in Held} \cup {tickets[t].symbol}
    OBVIOUS
  <2> QED
    BY <1>1, <1>3, <1>6, <2>1, <2>2 DEF CountsMatch
<1> QED
  BY <1>5, <1>7, <1>8, <1>9

(* The position is counted.                                                *)
LEMMA SoundMark ==
    ASSUME TypeOK, Bookkeeping, TypeOK', Bookkeeping', SoundInv, MarkCompleted PROVE SoundInv'
<1> USE DEF SoundInv
<1> PICK t \in Tickets : t = placed
  BY DEF Bookkeeping, MarkCompleted, UsedTickets
<1>1. /\ UNCHANGED <<tickets, rows, port, batch, listed, closing>>
      /\ pc = "mark" /\ pc' = "orders" /\ placed' = NoTicket
      /\ records'[t] = "done" /\ \A u \in Tickets \ {t} : records'[u] = records[u]
  BY DEF MarkCompleted, TypeOK
<1>2. /\ risk'.open = risk.open + 1 /\ risk'.seen = risk.seen
      /\ risk.open \in Nat /\ MAX_OPEN_POSITIONS \in Nat
  BY AccountingAssumption DEF MarkCompleted, TypeOK, RiskStates
<1>3. UsedTickets' = UsedTickets /\ t \in UsedTickets /\ NoTicket \notin Tickets
  BY <1>1, AccountingAssumption DEF UsedTickets, Bookkeeping
<1>4. RowsComplete'
  BY <1>1 DEF RowsComplete
<1>5. Held' = Held \cup {t} /\ t \notin Held
  <2>1. rows[t].closed = 0
    BY <1>1 DEF RowsComplete
  <2>2. \A u \in Tickets : u \in Held' <=> u \in Held \/ u = t
    BY <1>1, <1>3, <1>4, <2>1, HeldIs, HeldIsNext
  <2>3. t \notin Held /\ Held \subseteq Tickets /\ Held' \subseteq Tickets
    BY DEF Held, OpenRows, Unjournaled
  <2> QED
    BY <2>2, <2>3
<1>6. GoneIsClosed'
  BY <1>1, <1>2, <1>3 DEF GoneIsClosed
<1>7. SymbolsTaken'
  BY <1>1, <1>5 DEF SymbolsTaken
<1>8. RoomLeft'
  BY <1>1, <1>2 DEF RoomLeft
<1>9. CountsMatch'
  <2>1. Taken' = Held \cup {t} /\ Taken = Held \cup {t}
    BY <1>1, <1>5 DEF Taken
  <2>2. Cardinality(Held') = Cardinality(Held) + 1
    BY <1>5, HeldFinite, FS_AddElement
  <2>3. risk'.open = Cardinality(Held')
    BY <1>2, <2>2 DEF CountsMatch
  <2>4. port'.symbols = {tickets'[u].symbol : u \in Taken'}
    BY <1>1, <2>1 DEF CountsMatch
  <2> QED
    BY <2>3, <2>4 DEF CountsMatch
<1> QED
  BY <1>4, <1>6, <1>7, <1>8, <1>9

(* What is used and not open when the positions are listed is closed.      *)
LEMMA SoundList ==
    ASSUME TypeOK, SoundInv, UNCHANGED <<tickets, rows, records, risk, port, placed>>,
           listed' = OpenTickets, pc \notin {"record", "mark"}, pc' = "diff"
    PROVE  SoundInv'
<1>1. UsedTickets' = UsedTickets /\ OpenTickets \subseteq UsedTickets
  BY DEF UsedTickets, OpenTickets
<1>2. \A t \in risk.seen \ OpenTickets : tickets[t].status = "closed"
  BY DEF SoundInv, GoneIsClosed, UsedTickets, OpenTickets, TypeOK
<1>3. GoneIsClosed'
  BY <1>1, <1>2 DEF SoundInv, GoneIsClosed
<1> QED
  BY <1>3, SoundQuiet

LEMMA SoundClosing ==
    ASSUME TypeOK, SoundInv, SomeClosed \/ \E t \in Tickets : CloseUnmatched(t)
    PROVE  SoundInv'
<1>1. UNCHANGED <<tickets, rows, records, risk, port, placed, listed>>
  BY DEF SomeClosed, CloseUnmatched, books
<1>2. pc \in {"diff", "closing"} /\ pc' = "closing" /\ closing' \subseteq risk.seen \ listed
  BY DEF SomeClosed, CloseUnmatched, closed_positions, SoundInv, GoneIsClosed
<1>3. GoneIsClosed'
  BY <1>1, <1>2 DEF SoundInv, GoneIsClosed, UsedTickets
<1> QED
  BY <1>1, <1>2, <1>3, SoundQuiet

LEMMA SoundScore ==
    ASSUME TypeOK, Bookkeeping, TypeOK', Bookkeeping', SoundInv,
           NEW t \in Tickets, NEW profit \in Profits, Score(t, profit)
    PROVE  SoundInv'
<1> USE DEF SoundInv
<1>1. /\ pc = "closing" /\ pc' = "closing" /\ t \in closing /\ closing' \subseteq closing
      /\ placed = NoTicket /\ UNCHANGED <<tickets, records, listed, placed, batch>>
  BY DEF Score, Count, Bookkeeping
<1>2. /\ rows[t].open > 0 /\ rows'[t].open = rows[t].open - 1
      /\ rows'[t].closed = rows[t].closed + 1
      /\ rows[t].open \in Nat /\ rows[t].closed \in Nat
      /\ \A u \in Tickets \ {t} : rows'[u] = rows[u]
  BY AccountingAssumption, ClosedRow DEF Score, Count, match_journal_trade, TypeOK
<1>3. rows[t].closed = 0
  BY <1>2 DEF RowsComplete
<1>4. UsedTickets' = UsedTickets /\ t \in UsedTickets /\ NoTicket \notin Tickets
  BY <1>1, <1>2, AccountingAssumption DEF UsedTickets, Bookkeeping, Journaled
<1>5. RowsComplete'
  <2>1. tickets[t].status = "closed"
    BY <1>1 DEF GoneIsClosed
  <2>2. \A u \in Tickets : records[u] \notin {"acked", "pending"}
    BY <1>1 DEF RowsComplete
  <2>3. \A u \in Tickets : rows'[u].open + rows'[u].closed <= 1
    <3>1. ASSUME NEW u \in Tickets, u # t PROVE rows'[u].open + rows'[u].closed <= 1
      BY <1>2, <3>1 DEF RowsComplete
    <3>2. rows[t].open + rows[t].closed <= 1
      BY DEF RowsComplete
    <3>3. rows'[t].open + rows'[t].closed <= 1
      BY <1>2, <3>2
    <3> QED
      BY <3>1, <3>3
  <2>4. \A u \in Tickets : tickets'[u].status = "open" => rows'[u].closed = 0
    BY <1>1, <1>2, <2>1 DEF RowsComplete
  <2> QED
    BY <1>1, <2>2, <2>3, <2>4 DEF RowsComplete
<1>6. Held' = Held \ {t} /\ t \in Held
  <2>1. t \in Held
    BY <1>1, <1>3, <1>4, HeldIs
  <2>2. \A u \in Tickets : u \in Held' <=> u \in Held /\ u # t
    BY <1>1, <1>2, <1>3, <1>4, <1>5, HeldIs, HeldIsNext
  <2>3. Held \subseteq Tickets /\ Held' \subseteq Tickets
    BY DEF Held, OpenRows, Unjournaled
  <2> QED
    BY <2>1, <2>2, <2>3
<1>7. Cardinality(Held) \in Nat \ {0} /\ Cardinality(Held') = Cardinality(Held) - 1
  BY <1>6, HeldFinite, FS_RemoveElement, FS_EmptySet
<1>8. /\ risk'.open = risk.open - 1 /\ risk'.seen = risk.seen
      /\ port'.symbols = port.symbols \ {tickets[t].symbol}
  <2>1. risk.open = Cardinality(Held) /\ risk \in RiskStates /\ port \in PortfolioStates
    BY SomeStates DEF CountsMatch
  <2>2. risk' = record_result(profit) /\ port' = record_close(tickets[t].symbol, profit)
    BY DEF Score, Count
  <2>3. risk'.open = (IF risk.open > 0 THEN risk.open - 1 ELSE 0) /\ risk'.seen = risk.seen
    BY <2>1, <2>2 DEF record_result, RiskStates
  <2>4. port'.symbols = port.symbols \ {tickets[t].symbol}
    BY <2>1, <2>2 DEF record_close, PortfolioStates
  <2> QED
    BY <1>7, <2>1, <2>3, <2>4
<1>9. GoneIsClosed'
  BY <1>1, <1>4, <1>8 DEF GoneIsClosed
<1>10. SymbolsTaken'
  BY <1>1, <1>6 DEF SymbolsTaken
<1>11. RoomLeft'
  BY <1>1, <1>7, <1>8, AccountingAssumption DEF RoomLeft, CountsMatch
<1>12. CountsMatch'
  <2>1. Taken' = Held' /\ Taken = Held
    BY <1>1 DEF Taken
  <2>2. {tickets[u].symbol : u \in Held'}
          = {tickets[u].symbol : u \in Held} \ {tickets[t].symbol}
    BY <1>6 DEF SymbolsTaken
  <2> QED
    BY <1>1, <1>7, <1>8, <2>1, <2>2 DEF CountsMatch
<1> QED
  BY <1>5, <1>9, <1>10, <1>11, <1>12

(* Nothing awaits reconciliation between ticks.                            *)
LEMMA NothingToReconcile ==
    ASSUME TypeOK, Bookkeeping, RowsComplete, pc \notin {"record", "mark"},
           NEW young, Reconciled(young)
    PROVE  UNCHANGED <<rows, records>>
<1> DEFINE due == {t \in Tickets \ young : records[t] \in {"acked", "pending"}}
           pending == {t \in due : records[t] = "pending"}
           acked == {t \in due : records[t] = "acked" /\ ~Journaled(t)}
           free == {t \in OpenTickets : ~Journaled(t)}
<1>1. due = {} /\ pending = {} /\ acked = {}
  BY DEF RowsComplete
<1>2. PICK matched \in SUBSET free :
        /\ \A s \in Symbols : Cardinality(Of(matched, s)) <= Cardinality(Of(pending, s))
        /\ \E unrowed \in IF "insert" \in Faults THEN SUBSET (acked \cup matched) ELSE {{}} :
              rows' = [t \in Tickets |-> IF t \in (acked \cup matched) \ unrowed
                                        THEN inserted(t)[t] ELSE rows[t]]
  BY DEF Reconciled
<1>3. matched = {}
  <2>1. ASSUME NEW t \in matched PROVE FALSE
    <3>1. PICK s \in Symbols : s = tickets[t].symbol
      BY DEF OpenTickets, Bookkeeping, UsedTickets
    <3>2. Of(pending, s) = {} /\ t \in Of(matched, s)
      BY <1>1, <3>1 DEF Of
    <3>3. Of(matched, s) \subseteq Tickets
      BY DEF Of, OpenTickets
    <3>4. IsFiniteSet(Of(matched, s)) /\ Cardinality(Of(matched, s)) # 0
      BY <3>2, <3>3, TicketsFinite, FS_EmptySet
    <3>5. Cardinality(Of(matched, s)) <= 0 /\ Cardinality(Of(matched, s)) \in Nat
      BY <1>2, <3>2, <3>4, FS_EmptySet, FS_CardinalityType
    <3> QED
      BY <3>4, <3>5
  <2> QED
    BY <2>1
<1>4. rows' = [t \in Tickets |-> rows[t]]
  BY <1>1, <1>2, <1>3
<1>5. records' = [t \in Tickets |-> records[t]]
  <2>1. records' = [t \in Tickets |-> IF t \in due THEN "done" ELSE records[t]]
    BY DEF Reconciled
  <2> QED
    BY <1>1, <2>1
<1>6. rows = [t \in Tickets |-> rows[t]] /\ records = [t \in Tickets |-> records[t]]
  BY DEF TypeOK
<1> QED
  BY <1>4, <1>5, <1>6

LEMMA SoundBroker ==
    ASSUME TypeOK, Bookkeeping, SoundInv, NEW t \in Tickets, BrokerCloses(t) PROVE SoundInv'
<1> USE DEF SoundInv
<1>1. /\ UNCHANGED <<rows, records, risk, port, pc, batch, placed, listed, closing>>
      /\ tickets'[t].status = "closed" /\ tickets'[t].symbol = tickets[t].symbol
      /\ tickets[t].status = "open"
      /\ \A u \in Tickets \ {t} : tickets'[u] = tickets[u]
  BY DEF BrokerCloses, books, locals, TypeOK
<1>2. UsedTickets' = UsedTickets
  BY <1>1 DEF UsedTickets
<1>3. \A u \in Tickets : tickets'[u].symbol = tickets[u].symbol
  BY <1>1
<1>4. Held' = Held /\ Held \subseteq Tickets
  BY <1>1, <1>2, SameHeld, HeldFinite
<1>5. Taken' = Taken /\ Taken \subseteq Tickets
  BY <1>1, <1>4 DEF Taken, Bookkeeping, UsedTickets
<1>6. RowsComplete' /\ RoomLeft'
  BY <1>1 DEF RowsComplete, RoomLeft
<1>7. GoneIsClosed'
  BY <1>1, <1>2 DEF GoneIsClosed, UsedTickets
<1>8. {tickets'[u].symbol : u \in Taken} = {tickets[u].symbol : u \in Taken}
  BY <1>3, <1>5
<1>9. CountsMatch'
  BY <1>1, <1>4, <1>5, <1>8 DEF CountsMatch
<1>10. SymbolsTaken'
  BY <1>1, <1>3, <1>4 DEF SymbolsTaken, Bookkeeping, UsedTickets
<1> QED
  BY <1>6, <1>7, <1>9, <1>10

SoundWhileUp == crashes = 0 => SoundInv

LEMMA SoundInit == Init => SoundWhileUp
<1> SUFFICES ASSUME Init PROVE SoundInv
  BY DEF SoundWhileUp
<1>1. UsedTickets = {} /\ Held = {} /\ Taken = {}
  BY DEF Init, UsedTickets, Held, Taken, OpenRows, Unjournaled, Journaled
<1>2. RowsComplete /\ GoneIsClosed /\ SymbolsTaken
  BY <1>1 DEF Init, RowsComplete, GoneIsClosed, SymbolsTaken, new_state
<1>3. RoomLeft
  BY AccountingAssumption DEF Init, RoomLeft, new_state
<1>4. CountsMatch
  BY <1>1, FS_EmptySet DEF Init, CountsMatch, new_state, new_portfolio
<1> QED
  BY <1>2, <1>3, <1>4 DEF SoundInv

LEMMA SoundStep ==
    ASSUME OrdersRecorded, AccountingInv, AccountingInv', SoundWhileUp, [Next]_vars
    PROVE  SoundWhileUp'
<1> USE DEF AccountingInv, SoundWhileUp
<1> SUFFICES ASSUME crashes' = 0 PROVE SoundInv'
  OBVIOUS
<1>0. ~Crash /\ ~TornSave
  BY DEF Crash, TornSave, Down, TypeOK
<1>1. crashes = 0
  BY <1>0 DEF Next, vars, Tick, Closes, Process, Environment,
     TickLatched, TickOpen, TickStopped, ScanFails, NoSignals, Signals, Skip, Place,
     PlaceAmbiguous, Duplicate, RecordSignal, RecordFails, MarkCompleted, MarkFails, OrdersDone,
     ListPositions, ListFails, NoneClosed, BalanceFails, SomeClosed, AllScored, CloseUnmatched,
     DealFails, Count, Score, ScoreUnwritten, SaveRisk, SavePortfolio, Periodic, Startup,
     StartupSkipped, Shutdown, Restart, BrokerCloses, Midnight, UtcMidnight, counts
<1>2. /\ ~RecordFails /\ ~MarkFails
      /\ \A s \in Symbols, t \in Tickets : ~PlaceAmbiguous(s, t) /\ ~Duplicate(s, t)
      /\ \A t \in Tickets, profit \in Profits : ~ScoreUnwritten(t, profit)
  BY <1>1 DEF RecordFails, MarkFails, PlaceAmbiguous, Duplicate, ScoreUnwritten,
     OrdersRecorded, SoundInv, RowsComplete
<1>3. CASE Steady
  BY <1>1, <1>3, SteadyKeeps
<1>4. CASE Signals \/ RecordSignal \/ MarkCompleted \/ SomeClosed
  BY <1>1, <1>4, SoundSignals, SoundSignal, SoundMark, SoundClosing
<1>5. CASE ListPositions
  BY <1>1, <1>5, SoundList DEF ListPositions, books
<1>6. CASE Startup
  BY <1>1, <1>6, NothingToReconcile, SoundList DEF Startup, SoundInv
<1>7. CASE Periodic
  <2>1. UNCHANGED <<rows, records>>
    BY <1>1, <1>7, NothingToReconcile DEF Periodic, SoundInv
  <2>2. Steady
    BY <1>7, <2>1 DEF Periodic, Steady, locals
  <2> QED
    BY <1>1, <2>2, SteadyKeeps
<1>8. ASSUME NEW s \in Symbols, Skip(s) \/ \E t \in Tickets : Place(s, t) PROVE SoundInv'
  BY <1>1, <1>8, SoundSignals, SoundPlace
<1>9. ASSUME NEW t \in Tickets, CloseUnmatched(t) \/ BrokerCloses(t)
                                \/ \E profit \in Profits : Score(t, profit)
      PROVE  SoundInv'
  BY <1>1, <1>9, SoundClosing, SoundBroker, SoundScore
<1> QED
  BY <1>0, <1>2, <1>3, <1>4, <1>5, <1>6, <1>7, <1>8, <1>9, SteadySteps DEF Next

LEMMA SoundAlways == ASSUME OrdersRecorded PROVE Spec => [](AccountingInv /\ SoundWhileUp)
<1>1. AccountingInv /\ [Next]_vars => AccountingInv'
  BY TypeStep, BookkeepingStep, ScoredStep DEF AccountingInv
<1>2. AccountingInv /\ AccountingInv' /\ SoundWhileUp /\ [Next]_vars => SoundWhileUp'
  BY SoundStep
<1> QED
  BY <1>1, <1>2, AccountingInvInit, SoundInit, PTL DEF Spec

(* As many positions counted as the journal holds, and their symbols       *)
(* taken, until the first crash, whatever lookups and inserts fail.        *)
THEOREM CountsMirrorJournal ==
    ASSUME OrdersRecorded PROVE Spec => [](crashes = 0 => CountsMatch)
<1>1. SoundWhileUp => (crashes = 0 => CountsMatch)
  BY DEF SoundWhileUp, SoundInv
<1> QED
  BY <1>1, SoundAlways, PTL

LEMMA OpenIsCounted ==
    ASSUME AccountingInv, SoundInv
    PROVE  OpenTickets \subseteq IF pc \in {"record", "mark"} THEN Held \cup {placed} ELSE Held
<1> USE DEF AccountingInv, SoundInv
<1>1. ASSUME NEW t \in OpenTickets PROVE t \in UsedTickets /\ t \in Tickets /\ rows[t].closed = 0
  BY DEF OpenTickets, UsedTickets, RowsComplete
<1>2. \A t \in OpenTickets : t \in Held \/ t = placed
  BY <1>1, HeldIs
<1>3. pc \notin {"record", "mark"} => placed \notin Tickets
  BY AccountingAssumption DEF Bookkeeping
<1> QED
  BY <1>1, <1>2, <1>3

(* "one open position per symbol", at the broker: until the first crash no *)
(* two open positions share a symbol, whatever lookups and inserts fail.   *)
THEOREM OneOpenPerSymbol ==
    ASSUME OrdersRecorded PROVE Spec => [](crashes = 0 => OnePerSymbol)
<1>1. ASSUME AccountingInv, SoundInv PROVE OnePerSymbol
  BY <1>1, OpenIsCounted DEF SoundInv, SymbolsTaken, OnePerSymbol
<1>2. AccountingInv /\ SoundWhileUp => (crashes = 0 => OnePerSymbol)
  BY <1>1 DEF SoundWhileUp
<1> QED
  BY <1>2, SoundAlways, PTL

(* "max_open_positions", at the broker: until the first crash no more      *)
(* positions are open than LIMITS allows, as long as every executed order  *)
(* is recorded, marked and counted and every close update is written.      *)
THEOREM OpenStaysCapped ==
    ASSUME OrdersRecorded PROVE Spec => [](crashes = 0 => OpenCap)
<1>1. ASSUME AccountingInv, SoundInv PROVE OpenCap
  <2>1. risk.open = Cardinality(Held) /\ risk.open \in Nat /\ MAX_OPEN_POSITIONS \in Nat
    BY <1>1, AccountingAssumption DEF SoundInv, CountsMatch, AccountingInv, TypeOK, RiskStates
  <2>2. CASE pc \in {"record", "mark"}
    <3>1. /\ IsFiniteSet(Held \cup {placed})
          /\ Cardinality(Held \cup {placed}) <= Cardinality(Held) + 1
          /\ Cardinality(Held \cup {placed}) \in Nat
      BY HeldFinite, FS_AddElement, FS_CardinalityType
    <3>2. Cardinality(OpenTickets) <= Cardinality(Held \cup {placed})
          /\ Cardinality(OpenTickets) \in Nat
      BY <1>1, <2>2, <3>1, OpenIsCounted, FS_Subset, FS_CardinalityType
    <3> QED
      BY <1>1, <2>1, <2>2, <3>1, <3>2 DEF OpenCap, SoundInv, RoomLeft
  <2>3. CASE pc \notin {"record", "mark"}
    <3>1. Cardinality(OpenTickets) <= Cardinality(Held) /\ Cardinality(OpenTickets) \in Nat
      BY <1>1, <2>3, HeldFinite, OpenIsCounted, FS_Subset, FS_CardinalityType
    <3> QED
      BY <1>1, <2>1, <3>1 DEF OpenCap, SoundInv, RoomLeft
  <2> QED
    BY <2>2, <2>3
<1>2. AccountingInv /\ SoundWhileUp => (crashes = 0 => OpenCap)
  BY <1>1 DEF SoundWhileUp
<1> QED
  BY <1>2, SoundAlways, PTL

-----------------------------------------------------------------------------
(* The running result of the portfolio.                                    *)
Profit == [t \in Tickets |-> rows[t].profit]

LEMMA ProfitType == ASSUME TypeOK PROVE \A t \in Tickets : Profit[t] = rows[t].profit /\ Profit[t] \in Int
  BY DEF TypeOK, Profit

LEMMA SameProfit ==
    ASSUME \A t \in Tickets : rows'[t].profit = rows[t].profit
    PROVE  Profit' = Profit
  BY DEF Profit

LEMMA ScoreAdds ==
    ASSUME TypeOK, TypeOK', NEW t \in Tickets, NEW profit \in Profits, Score(t, profit),
           port.total = SumFunctionOnSet(Profit, Tickets)
    PROVE  port'.total = SumFunctionOnSet(Profit', Tickets)
<1>1. rows' = update_close(t, profit) /\ match_journal_trade(t) /\ profit \in Int
  BY AccountingAssumption DEF Score, Count
<1>2. Profit'[t] = Profit[t] + profit /\ \A u \in Tickets \ {t} : Profit'[u] = Profit[u]
  BY <1>1, ClosedRow DEF Profit
<1>3. PICK v, w : v = Profit /\ w = Profit'
  OBVIOUS
<1>4. PICK T : T = Tickets \ {t}
  OBVIOUS
<1>5. IsFiniteSet(T) /\ t \notin T /\ T \cup {t} = Tickets
  BY <1>4, TicketsFinite
<1>6. \A u \in T \cup {t} : v[u] \in Int /\ w[u] \in Int
  <2>1. \A u \in Tickets : v[u] \in Int
    BY <1>3, ProfitType
  <2> QED
    BY <1>1, <1>2, <1>3, <1>4, <2>1
<1>7. SumFunctionOnSet(v, T \cup {t}) = v[t] + SumFunctionOnSet(v, T)
  BY <1>5, <1>6, SumAdd
<1>8. SumFunctionOnSet(w, T \cup {t}) = w[t] + SumFunctionOnSet(w, T)
  BY <1>5, <1>6, SumAdd
<1>9. SumFunctionOnSet(w, T) = SumFunctionOnSet(v, T)
  BY <1>2, <1>3, <1>4, <1>5, SumSame
<1>10. PICK a \in Int, b \in Int : a = v[t] /\ b = SumFunctionOnSet(v, T)
  BY <1>5, <1>6, SumType
<1>11. w[t] = a + profit
  BY <1>2, <1>3, <1>10
<1>12. port'.total = port.total + profit
  BY DEF Score, Count, record_close, TypeOK, PortfolioStates
<1>13. port.total = a + b /\ SumFunctionOnSet(w, Tickets) = (a + profit) + b
  BY <1>3, <1>5, <1>7, <1>8, <1>9, <1>10, <1>11
<1> QED
  BY <1>1, <1>3, <1>12, <1>13

(* Only a close adds to the total, and only a crash takes it back.         *)
LEMMA TotalKept ==
    ASSUME TypeOK, Bookkeeping, [Next]_vars, crashes' = 0, unwritten' = 0
    PROVE  /\ crashes = 0 /\ unwritten = 0
           /\ \/ \E t \in Tickets, profit \in Profits : Score(t, profit)
              \/ /\ port'.total = port.total
                 /\ \A t \in Tickets : rows'[t].profit = rows[t].profit
<1>1. ~Crash /\ ~TornSave /\ \A t \in Tickets, profit \in Profits : ~ScoreUnwritten(t, profit)
  BY AccountingAssumption DEF Crash, TornSave, Down, ScoreUnwritten, TypeOK
<1>2. maybe_reset_daily.total = port.total
  BY DEF maybe_reset_daily, TypeOK, PortfolioStates
<1>3. RecordSignal => port'.total = port.total
  BY DEF RecordSignal, TypeOK, PortfolioStates
<1>4. /\ crashes = 0 /\ unwritten = 0
      /\ \/ \E t \in Tickets, profit \in Profits : Score(t, profit)
         \/ port'.total = port.total
  BY <1>1, <1>2, <1>3 DEF Next, vars, books, counts, Tick, Closes, Process, Environment,
     TickLatched, TickOpen, TickStopped, ScanFails, NoSignals, Signals, Skip, Place,
     PlaceAmbiguous, Duplicate, RecordSignal, RecordFails, MarkCompleted, MarkFails, OrdersDone,
     ListPositions, ListFails, NoneClosed, BalanceFails, SomeClosed, AllScored, CloseUnmatched,
     DealFails, Count, Score, SaveRisk, SavePortfolio, Periodic, Startup, StartupSkipped,
     Shutdown, Restart, BrokerCloses, Midnight, UtcMidnight
<1>5. \/ \E t \in Tickets, profit \in Profits : Score(t, profit)
      \/ \A t \in Tickets : rows'[t].profit = rows[t].profit
  <2>1. RecordSignal => \A t \in Tickets : rows'[t].profit = rows[t].profit
    BY InsertedRow DEF RecordSignal, Bookkeeping, UsedTickets
  <2>2. Periodic \/ Startup => \A t \in Tickets : rows'[t].profit = rows[t].profit
    BY ReconciledRows DEF Periodic, Startup
  <2> QED
    BY <1>1, <2>1, <2>2, StepCases
       DEF Quiet, Place, PlaceAmbiguous, Duplicate, MarkCompleted, BrokerCloses, books
<1> QED
  BY <1>4, <1>5

BooksWhileUp ==
    crashes = 0 /\ unwritten = 0 => port.total = SumFunctionOnSet(Profit, Tickets)

LEMMA BooksStep ==
    ASSUME AccountingInv, AccountingInv', BooksWhileUp, [Next]_vars PROVE BooksWhileUp'
<1> USE DEF AccountingInv, BooksWhileUp
<1> SUFFICES ASSUME crashes' = 0, unwritten' = 0
             PROVE  port'.total = SumFunctionOnSet(Profit', Tickets)
  OBVIOUS
<1>1. crashes = 0 /\ unwritten = 0 /\ port.total = SumFunctionOnSet(Profit, Tickets)
  BY TotalKept
<1>2. CASE \E t \in Tickets, profit \in Profits : Score(t, profit)
  BY <1>1, <1>2, ScoreAdds
<1>3. CASE /\ port'.total = port.total
           /\ \A t \in Tickets : rows'[t].profit = rows[t].profit
  BY <1>1, <1>3, SameProfit
<1> QED
  BY <1>2, <1>3, TotalKept

LEMMA BooksInit == Init => BooksWhileUp
<1> SUFFICES ASSUME Init PROVE port.total = SumFunctionOnSet(Profit, Tickets)
  BY DEF BooksWhileUp
<1>1. \A t \in Tickets : Profit[t] = 0
  BY DEF Init, Profit
<1> QED
  BY <1>1, AccountingAssumption, SumOfZeros DEF Init, new_portfolio

(* The portfolio's running result is the sum of the closed trades of the   *)
(* journal until the first crash or swallowed close update, however        *)
(* orders, inserts, marks and lookups fail: no result is counted twice,    *)
(* and none is dropped.                                                    *)
THEOREM BooksAddUp == Spec => []BooksAgreeUntilCrash
<1>1. AccountingInv /\ [Next]_vars => AccountingInv'
  BY TypeStep, BookkeepingStep, ScoredStep DEF AccountingInv
<1>2. AccountingInv /\ AccountingInv' /\ BooksWhileUp /\ [Next]_vars => BooksWhileUp'
  BY BooksStep
<1>3. BooksWhileUp => BooksAgreeUntilCrash
  BY DEF BooksWhileUp, BooksAgreeUntilCrash, BooksAgree, Profit
<1> QED
  BY <1>1, <1>2, <1>3, AccountingInvInit, BooksInit, PTL DEF Spec
=============================================================================
