------------------------- MODULE PositionAccounting -------------------------
(***************************************************************************)
(* What the demo runner believes about its positions and its losses: the   *)
(* tick of scripts/run_st_a2_demo.py with the risk counters of             *)
(* execution/demo_risk_manager.py, the portfolio counters of               *)
(* core/portfolio_manager.py, the close detection of                       *)
(* execution/close_reconciliation.py and the two state files that carry    *)
(* them over a restart. How a single order is submitted, retried and       *)
(* recovered is the subject of OrderExecution; here it is one step.        *)
(*                                                                         *)
(* One step of the model ends at each await and at each durable write.     *)
(***************************************************************************)
EXTENDS Integers, FiniteSets, FiniteSetsExt, Functions

CONSTANTS
    Symbols,
    Tickets,      \* broker positions, each used once
    Profits,      \* what a position may bring in
    NoTicket,
    MAX_TRADES_PER_DAY, MAX_OPEN_POSITIONS,          \* demo_risk_manager.LIMITS
    DAILY_LOSS_LIMIT, MAX_CONSECUTIVE_LOSSES,
    PORT_MAX_TRADES_PER_DAY, PORT_MAX_OPEN_POSITIONS, \* portfolio_manager config
    PORT_DAILY_LOSS_LIMIT, PORT_WEEKLY_LOSS_LIMIT,
    Faults,       \* the kinds of failure that happen in a behaviour
    HostIsUtc,    \* the host's calendar day is the UTC day
    MaxCrashes,   \* bound on crashes
    MaxUnwritten, \* bound on close updates the journal does not take
    MaxRows,      \* bound on the journal rows of one position
    LastDay       \* bound on days

(* The kinds of failure. insert and update_close: sqlite refuses a write   *)
(* of the trade journal, which swallows the error; mark: the execution     *)
(* store raises; log_open: the text journal or the notifier raises;        *)
(* balance: get_open_trades or the account lookup raises.                  *)
FaultKinds == {"ambiguous", "log_open", "insert", "mark",
               "get_positions", "balance", "closing_deal", "update_close", "torn_save"}

ASSUME AccountingAssumption ==
    /\ IsFiniteSet(Tickets) /\ NoTicket \notin Tickets
    /\ Profits \subseteq Int
    /\ {MAX_TRADES_PER_DAY, MAX_OPEN_POSITIONS, DAILY_LOSS_LIMIT, MAX_CONSECUTIVE_LOSSES,
        PORT_MAX_TRADES_PER_DAY, PORT_MAX_OPEN_POSITIONS,
        PORT_DAILY_LOSS_LIMIT, PORT_WEEKLY_LOSS_LIMIT} \subseteq Nat \ {0}
    /\ Faults \subseteq FaultKinds
    /\ HostIsUtc \in BOOLEAN
    /\ MaxCrashes \in Nat
    /\ MaxUnwritten \in Nat
    /\ MaxRows \in Nat
    /\ LastDay \in Nat

VARIABLES
    tickets,  \* the broker: symbol and status of each position
    rows,     \* the trade journal: of each position's rows, how many are OPEN,
              \* how many CLOSED, and the profit of the closed ones
    records,  \* the execution record of each position (see OrderExecution)
    risk,     \* risk_state, in memory
    port,     \* PortfolioManager's counters, in memory
    disk,     \* risk_state.json and portfolio_state.json
    pc,       \* where the runner is
    batch,    \* symbols of the approved signals still to be placed
    placed,   \* position of the order being recorded
    listed,   \* the positions get_positions returned
    closing,  \* closed positions still to be scored
    day, utc, \* the host's calendar day and the UTC day
    crashes,  \* crashes so far
    unwritten \* close updates the journal has not taken

books == <<rows, records, risk, port>>
locals == <<batch, placed, listed, closing>>
clock == <<day, utc>>
counts == <<crashes, unwritten>>
vars == <<tickets, books, disk, pc, locals, clock, counts>>

Never == -1

(* new_state(), with the _last_positions key absent.                       *)
new_state == [trades |-> 0, open |-> 0, loss |-> 0, losses |-> 0, halted |-> FALSE,
              seen |-> {}, last_reset |-> Never]

(* PortfolioManager.__init__. Nothing ever resets the weekly or monthly    *)
(* figure and both add up every close: one field, total, stands for both.  *)
new_portfolio == [trades |-> 0, symbols |-> {}, daily |-> 0, total |-> 0,
                  last_reset |-> Never]

OpenTickets == {t \in Tickets : tickets[t].status = "open"}
Journaled(t) == rows[t].open + rows[t].closed > 0
OpenRows == {t \in Tickets : rows[t].open > 0}

NoLocals == batch' = {} /\ placed' = NoTicket /\ listed' = {} /\ closing' = {}

-----------------------------------------------------------------------------
(* The rules.                                                              *)

check_limits_OpenOffByOne ==
    /\ ~risk.halted
    /\ risk.trades < MAX_TRADES_PER_DAY
    /\ risk.open <= MAX_OPEN_POSITIONS
    /\ risk.loss < DAILY_LOSS_LIMIT
    /\ risk.losses < MAX_CONSECUTIVE_LOSSES
check_limits ==
    /\ ~risk.halted
    /\ risk.trades < MAX_TRADES_PER_DAY
    /\ risk.open < MAX_OPEN_POSITIONS
    /\ risk.loss < DAILY_LOSS_LIMIT
    /\ risk.losses < MAX_CONSECUTIVE_LOSSES

record_result_NoFloor(profit) ==
    [risk EXCEPT !.trades = @ + 1, !.open = @ - 1]
record_result(profit) ==
    LET loss == risk.loss + (IF profit < 0 THEN -profit ELSE 0)
        losses == IF profit < 0 THEN risk.losses + 1 ELSE 0
    IN  [risk EXCEPT !.trades = @ + 1,
                     !.open = IF @ > 0 THEN @ - 1 ELSE 0,
                     !.loss = loss,
                     !.losses = losses,
                     !.halted = @ \/ loss >= DAILY_LOSS_LIMIT
                                  \/ losses >= MAX_CONSECUTIVE_LOSSES]

reset_daily == [risk EXCEPT !.trades = 0, !.loss = 0, !.losses = 0,
                            !.halted = FALSE, !.last_reset = utc]

any_loss_limit_hit ==
    \/ port.daily <= -PORT_DAILY_LOSS_LIMIT
    \/ port.total <= -PORT_WEEKLY_LOSS_LIMIT

maybe_reset_daily ==
    IF port.last_reset = day THEN port
    ELSE [port EXCEPT !.trades = 0, !.daily = 0, !.last_reset = day]

record_close_KeepsSymbol(s, profit) ==
    [port EXCEPT !.daily = @ + profit, !.total = @ + profit]
record_close_TotalFromDaily(s, profit) ==
    [port EXCEPT !.symbols = @ \ {s}, !.daily = @ + profit, !.total = port.daily + profit]
record_close(s, profit) ==
    [port EXCEPT !.symbols = @ \ {s}, !.daily = @ + profit, !.total = @ + profit]

(* The sets of signals evaluate() may return, by symbol (a strategy gives  *)
(* one signal per symbol).                                                 *)
evaluate_AnySymbol(p) == {B \in SUBSET Symbols : Cardinality(B) <= PORT_MAX_OPEN_POSITIONS}
evaluate(p) ==
    {B \in SUBSET (Symbols \ p.symbols) :
        /\ Cardinality(B) <= PORT_MAX_TRADES_PER_DAY - p.trades \/ B = {}
        /\ Cardinality(B) <= PORT_MAX_OPEN_POSITIONS - Cardinality(p.symbols) \/ B = {}}

(* match_journal_trade among get_open_trades.                              *)
match_journal_trade(t) == rows[t].open > 0

(* The journal after a row of position t is inserted, or closed.           *)
inserted(t) == [rows EXCEPT ![t].open = @ + 1]
update_close_NoStatus(t, profit) == [rows EXCEPT ![t].profit = @ + profit]
update_close(t, profit) ==
    [rows EXCEPT ![t] = [open |-> @.open - 1, closed |-> @.closed + 1,
                         profit |-> @.profit + profit]]

day_changed_Timestamp == TRUE
day_changed == risk.last_reset # day

-----------------------------------------------------------------------------
(* The tick.                                                               *)

(* Daily reset, then the portfolio loss guard. When a limit is hit the     *)
(* tick returns at once: no closes are processed and nothing is saved.     *)
TickLatched ==
    /\ pc = "idle"
    /\ risk' = IF day_changed THEN reset_daily ELSE risk
    /\ any_loss_limit_hit
    /\ UNCHANGED <<tickets, rows, records, port, disk, pc, locals, clock, counts>>

TickOpen ==
    /\ pc = "idle"
    /\ risk' = IF day_changed THEN reset_daily ELSE risk
    /\ ~any_loss_limit_hit
    /\ pc' = "scan"
    /\ UNCHANGED <<tickets, rows, records, port, disk, locals, clock, counts>>

(* Emergency stop active: straight to the closes, no daily reset.          *)
TickStopped ==
    /\ pc = "idle"
    /\ pc' = "positions"
    /\ UNCHANGED <<tickets, books, disk, locals, clock, counts>>

(* No connection, no ready pair, all signals refused by the router or the  *)
(* circuit breaker: the tick returns, nothing is saved.                    *)
ScanFails ==
    /\ pc = "scan"
    /\ pc' = "idle"
    /\ UNCHANGED <<tickets, books, disk, locals, clock, counts>>

NoSignals ==
    /\ pc = "scan"
    /\ pc' = "positions"
    /\ UNCHANGED <<tickets, books, disk, locals, clock, counts>>

(* PortfolioManager.evaluate; the tick returns if it approves nothing.     *)
Signals ==
    /\ pc = "scan"
    /\ port' = maybe_reset_daily
    /\ batch' \in evaluate(port')
    /\ pc' = IF batch' = {} THEN "idle" ELSE "orders"
    /\ UNCHANGED <<tickets, rows, records, risk, disk, placed, listed, closing, clock, counts>>

(* Trading not permitted, a risk limit reached, or the order refused.      *)
Skip(s) ==
    /\ pc = "orders"
    /\ s \in batch
    /\ batch' = batch \ {s}
    /\ UNCHANGED <<tickets, books, disk, pc, placed, listed, closing, clock, counts>>

Execute(s, t) ==
    /\ pc = "orders"
    /\ s \in batch
    /\ check_limits
    /\ tickets[t].status = "unused"
    /\ tickets' = [tickets EXCEPT ![t] = [status |-> "open", symbol |-> s]]
    /\ batch' = batch \ {s}

Place(s, t) ==
    /\ Execute(s, t)
    /\ records' = [records EXCEPT ![t] = "acked"]
    /\ placed' = t
    /\ pc' = "record"
    /\ UNCHANGED <<rows, risk, port, disk, listed, closing, clock, counts>>

(* The order is executed but its outcome is ambiguous to the runner, which *)
(* reports an order error and counts nothing.                              *)
PlaceAmbiguous(s, t) ==
    /\ "ambiguous" \in Faults
    /\ Execute(s, t)
    /\ records' = [records EXCEPT ![t] = "pending"]
    /\ UNCHANGED <<rows, risk, port, disk, pc, placed, listed, closing, clock, counts>>

(* The signal's own order of an earlier tick or process is acknowledged    *)
(* but not completed: open_position returns it and sends none, and the     *)
(* tick records it as it records a new one.                                *)
Duplicate(s, t) ==
    /\ pc = "orders"
    /\ s \in batch
    /\ check_limits
    /\ records[t] = "acked"
    /\ tickets[t].symbol = s
    /\ rows[t].open + rows[t].closed < MaxRows
    /\ batch' = batch \ {s}
    /\ placed' = t
    /\ pc' = "record"
    /\ UNCHANGED <<tickets, books, disk, listed, closing, clock, counts>>

(* record_signal, whose insert may be swallowed, then record_trade.        *)
RecordSignal ==
    /\ pc = "record"
    /\ \/ rows' = inserted(placed)
       \/ "insert" \in Faults /\ UNCHANGED rows
    /\ port' = [port EXCEPT !.trades = @ + 1, !.symbols = @ \cup {tickets[placed].symbol}]
    /\ pc' = "mark"
    /\ UNCHANGED <<tickets, records, risk, disk, locals, clock, counts>>

(* mark_execution_state up to COMPLETED, then open_positions + 1.          *)
MarkCompleted ==
    /\ pc = "mark"
    /\ records' = [records EXCEPT ![placed] = "done"]
    /\ risk' = [risk EXCEPT !.open = @ + 1]
    /\ placed' = NoTicket
    /\ pc' = "orders"
    /\ UNCHANGED <<tickets, rows, port, disk, batch, listed, closing, clock, counts>>

(* One of the three marks raises: an order error. Row and symbol stay, the *)
(* position is not counted, and the record is left short of COMPLETED.     *)
MarkFails ==
    /\ "mark" \in Faults
    /\ pc = "mark"
    /\ placed' = NoTicket
    /\ pc' = "orders"
    /\ UNCHANGED <<tickets, books, disk, batch, listed, closing, clock, counts>>

(* journal.log_open raises: an order error; the record stays acknowledged. *)
RecordFails ==
    /\ "log_open" \in Faults
    /\ pc = "record"
    /\ placed' = NoTicket
    /\ pc' = "orders"
    /\ UNCHANGED <<tickets, books, disk, batch, listed, closing, clock, counts>>

OrdersDone ==
    /\ pc = "orders"
    /\ batch = {}
    /\ pc' = "positions"
    /\ UNCHANGED <<tickets, books, disk, locals, clock, counts>>

ListPositions ==
    /\ pc = "positions"
    /\ listed' = OpenTickets
    /\ pc' = "diff"
    /\ UNCHANGED <<tickets, books, disk, batch, placed, closing, clock, counts>>

ListFails ==
    /\ "get_positions" \in Faults
    /\ pc = "positions"
    /\ pc' = "save"
    /\ UNCHANGED <<tickets, books, disk, locals, clock, counts>>

-----------------------------------------------------------------------------
(* process_closed_positions.                                               *)

(* The snapshot a later tick diffs against, when this pass is put off.     *)
deferred_Advances == [risk EXCEPT !.seen = listed]
deferred == risk

closed_positions == risk.seen \ listed

NoneClosed ==
    /\ pc = "diff"
    /\ closed_positions = {}
    /\ risk' = [risk EXCEPT !.seen = listed]
    /\ pc' = "save"
    /\ NoLocals
    /\ UNCHANGED <<tickets, rows, records, port, disk, clock, counts>>

(* The account balance cannot be fetched: everything waits.                *)
BalanceFails ==
    /\ "balance" \in Faults
    /\ pc = "diff"
    /\ closed_positions # {}
    /\ risk' = deferred
    /\ pc' = "save"
    /\ NoLocals
    /\ UNCHANGED <<tickets, rows, records, port, disk, clock, counts>>

SomeClosed ==
    /\ pc = "diff"
    /\ closed_positions # {}
    /\ closing' = closed_positions
    /\ pc' = "closing"
    /\ UNCHANGED <<tickets, books, disk, batch, placed, listed, clock, counts>>

CloseUnmatched(t) ==
    /\ pc = "closing"
    /\ t \in closing
    /\ ~match_journal_trade(t)
    /\ closing' = closing \ {t}
    /\ UNCHANGED <<tickets, books, disk, pc, batch, placed, listed, clock, counts>>

(* get_closing_deal raises: this close and the rest wait for a later tick, *)
(* the ones already scored stay in the snapshot.                           *)
DealFails(t) ==
    /\ "closing_deal" \in Faults
    /\ pc = "closing"
    /\ t \in closing
    /\ match_journal_trade(t)
    /\ risk' = deferred
    /\ pc' = "save"
    /\ NoLocals
    /\ UNCHANGED <<tickets, rows, records, port, disk, clock, counts>>

(* The close is scored with the profit of the closing deal or, when the    *)
(* broker has none yet, of the last snapshot.                              *)
Count(t, profit) ==
    /\ pc = "closing"
    /\ t \in closing
    /\ match_journal_trade(t)
    /\ risk' = record_result(profit)
    /\ port' = record_close(tickets[t].symbol, profit)
    /\ closing' = closing \ {t}
    /\ UNCHANGED <<tickets, records, disk, pc, batch, placed, listed, clock, crashes>>

Score(t, profit) ==
    /\ Count(t, profit)
    /\ rows' = update_close(t, profit)
    /\ UNCHANGED unwritten

(* update_close swallows an error of sqlite: the counters move, the row    *)
(* stays OPEN.                                                             *)
ScoreUnwritten(t, profit) ==
    /\ "update_close" \in Faults
    /\ unwritten < MaxUnwritten
    /\ Count(t, profit)
    /\ unwritten' = unwritten + 1
    /\ UNCHANGED rows

AllScored ==
    /\ pc = "closing"
    /\ closing = {}
    /\ risk' = [risk EXCEPT !.seen = listed]
    /\ pc' = "save"
    /\ NoLocals
    /\ UNCHANGED <<tickets, rows, records, port, disk, clock, counts>>

(* _save_risk_state, then _save_portfolio_state.                           *)
SaveRisk ==
    /\ pc = "save"
    /\ disk' = [disk EXCEPT !.risk = risk]
    /\ pc' = "save_portfolio"
    /\ UNCHANGED <<tickets, books, locals, clock, counts>>

SavePortfolio ==
    /\ pc = "save_portfolio"
    /\ disk' = [disk EXCEPT !.port = port]
    /\ pc' = "idle"
    /\ UNCHANGED <<tickets, books, locals, clock, counts>>

-----------------------------------------------------------------------------
(* Reconciliation of execution records, shutdown, crash and restart.       *)

Of(T, s) == {t \in T : tickets[t].symbol = s}

(* A pass over the records, the ones in young excepted. An acknowledged    *)
(* order without a row gets one; a pending record takes any open position  *)
(* of its symbol that has no row yet, its own or not, and is given up only *)
(* when none is left. Rows are added, the counters are not told. (One      *)
(* direction and one volume per symbol; OrderExecution has the pass in its *)
(* steps.)                                                                 *)
Reconciled(young) ==
    LET due == {t \in Tickets \ young : records[t] \in {"acked", "pending"}}
        pending == {t \in due : records[t] = "pending"}
        acked == {t \in due : records[t] = "acked" /\ ~Journaled(t)}
        free == {t \in OpenTickets : ~Journaled(t)}
    IN  /\ \E matched \in SUBSET free :
              /\ \A s \in Symbols :
                    LET asking == Cardinality(Of(pending, s))
                        served == Cardinality(Of(matched, s))
                    IN  /\ served <= asking
                        /\ served < asking => Of(free, s) \subseteq matched \cup acked
              /\ \E unrowed \in IF "insert" \in Faults THEN SUBSET (acked \cup matched)
                                                      ELSE {{}} :
                    rows' = [t \in Tickets |->
                               IF t \in (acked \cup matched) \ unrowed
                               THEN inserted(t)[t] ELSE rows[t]]
        /\ records' = [t \in Tickets |-> IF t \in due THEN "done" ELSE records[t]]

Periodic ==
    /\ pc = "idle"
    /\ \E young \in SUBSET {t \in Tickets : records[t] = "pending"} : Reconciled(young)
    /\ UNCHANGED <<tickets, risk, port, disk, pc, locals, clock, counts>>

(* Startup recovery; one snapshot serves the records and the closes.       *)
Startup ==
    /\ pc = "startup"
    /\ Reconciled({})
    /\ listed' = OpenTickets
    /\ pc' = "diff"
    /\ UNCHANGED <<tickets, risk, port, disk, batch, placed, closing, clock, counts>>

StartupSkipped ==
    /\ "get_positions" \in Faults
    /\ pc = "startup"
    /\ pc' = "idle"
    /\ UNCHANGED <<tickets, books, disk, locals, clock, counts>>

(* The loop's finally block saves both files.                              *)
Shutdown ==
    /\ pc = "idle"
    /\ disk' = [risk |-> risk, port |-> port]
    /\ pc' = "down"
    /\ UNCHANGED <<tickets, books, locals, clock, counts>>

(* What is in memory is lost; the restart loads what is on disk.           *)
Down ==
    /\ crashes < MaxCrashes
    /\ crashes' = crashes + 1
    /\ risk' = disk'.risk
    /\ port' = disk'.port
    /\ pc' = "down"
    /\ NoLocals
    /\ UNCHANGED <<tickets, rows, records, clock, unwritten>>

Crash ==
    /\ pc # "down"
    /\ disk' = disk
    /\ Down

(* A crash within write_text leaves a file that does not parse, and the    *)
(* load functions then start fresh.                                        *)
TornSave ==
    /\ "torn_save" \in Faults
    /\ \/ pc = "save" /\ disk' = [disk EXCEPT !.risk = new_state]
       \/ pc = "save_portfolio" /\ disk' = [disk EXCEPT !.port = new_portfolio]
    /\ Down

Restart ==
    /\ pc = "down"
    /\ pc' = "startup"
    /\ UNCHANGED <<tickets, books, disk, locals, clock, counts>>

-----------------------------------------------------------------------------
(* The broker and the clock.                                               *)

BrokerCloses(t) ==
    /\ tickets[t].status = "open"
    /\ tickets' = [tickets EXCEPT ![t].status = "closed"]
    /\ UNCHANGED <<books, disk, pc, locals, clock, counts>>

(* Midnight on the host, which may be east of Greenwich.                   *)
Midnight ==
    /\ day < LastDay
    /\ utc = day
    /\ day' = day + 1
    /\ utc' = IF HostIsUtc THEN day' ELSE utc
    /\ UNCHANGED <<tickets, books, disk, pc, locals, counts>>

UtcMidnight ==
    /\ utc < day
    /\ utc' = day
    /\ UNCHANGED <<tickets, books, disk, pc, locals, day, counts>>

-----------------------------------------------------------------------------
Init ==
    /\ tickets = [t \in Tickets |-> [status |-> "unused", symbol |-> NoTicket]]
    /\ rows = [t \in Tickets |-> [open |-> 0, closed |-> 0, profit |-> 0]]
    /\ records = [t \in Tickets |-> "none"]
    /\ risk = new_state
    /\ port = new_portfolio
    /\ disk = [risk |-> new_state, port |-> new_portfolio]
    /\ pc = "startup"
    /\ batch = {} /\ placed = NoTicket /\ listed = {} /\ closing = {}
    /\ utc = 0
    /\ day \in IF HostIsUtc THEN {0} ELSE 0..LastDay \cap {0, 1}
    /\ crashes = 0 /\ unwritten = 0

Tick ==
    \/ TickLatched \/ TickOpen \/ TickStopped
    \/ ScanFails \/ NoSignals \/ Signals
    \/ \E s \in Symbols : \/ Skip(s)
                          \/ \E t \in Tickets :
                                Place(s, t) \/ PlaceAmbiguous(s, t) \/ Duplicate(s, t)
    \/ RecordSignal \/ RecordFails \/ MarkCompleted \/ MarkFails \/ OrdersDone
    \/ ListPositions \/ ListFails

Closes ==
    \/ NoneClosed \/ BalanceFails \/ SomeClosed \/ AllScored
    \/ \E t \in Tickets : \/ CloseUnmatched(t) \/ DealFails(t)
                          \/ \E profit \in Profits : Score(t, profit) \/ ScoreUnwritten(t, profit)
    \/ SaveRisk \/ SavePortfolio

Process == Periodic \/ Startup \/ StartupSkipped \/ Shutdown \/ Crash \/ TornSave \/ Restart

Environment == (\E t \in Tickets : BrokerCloses(t)) \/ Midnight \/ UtcMidnight

Next == Tick \/ Closes \/ Process \/ Environment

Spec == Init /\ [][Next]_vars
-----------------------------------------------------------------------------
(* Properties.                                                             *)

RiskStates == [trades : Nat, open : Nat, loss : Nat, losses : Nat, halted : BOOLEAN,
               seen : SUBSET Tickets, last_reset : {Never} \cup 0..LastDay]
PortfolioStates == [trades : Nat, symbols : SUBSET Symbols, daily : Int, total : Int,
                    last_reset : {Never} \cup 0..LastDay]

(* Every variable has its type; no counter becomes negative.               *)
TypeOK ==
    /\ tickets \in [Tickets -> [status : {"unused", "open", "closed"},
                                symbol : Symbols \cup {NoTicket}]]
    /\ rows \in [Tickets -> [open : Nat, closed : Nat, profit : Int]]
    /\ records \in [Tickets -> {"none", "pending", "acked", "done"}]
    /\ risk \in RiskStates
    /\ port \in PortfolioStates
    /\ disk \in [risk : RiskStates, port : PortfolioStates]
    /\ pc \in {"down", "startup", "idle", "scan", "orders", "record", "mark",
               "positions", "diff", "closing", "save", "save_portfolio"}
    /\ batch \subseteq Symbols
    /\ placed \in Tickets \cup {NoTicket}
    /\ listed \subseteq Tickets
    /\ closing \subseteq Tickets
    /\ day \in 0..LastDay /\ utc \in 0..LastDay
    /\ crashes \in 0..MaxCrashes /\ unwritten \in 0..MaxUnwritten

(* The portfolio's running result is the sum of the journal's closed       *)
(* trades, as long as the journal has taken every close update: no result  *)
(* is counted twice and none is dropped.                                   *)
BooksAgree ==
    unwritten = 0 => port.total = SumFunctionOnSet([t \in Tickets |-> rows[t].profit], Tickets)

(* They agree until the process first crashes, however orders, lookups,    *)
(* inserts and marks fail, closes are put off and signals come twice.      *)
BooksAgreeUntilCrash == crashes = 0 => BooksAgree

Unjournaled == {t \in Tickets : tickets[t].status # "unused" /\ ~Journaled(t)}
Held == (OpenRows \cup Unjournaled) \ {placed}
Taken == Held \cup (IF pc = "mark" THEN {placed} ELSE {})

(* The open counters mirror the journal: as many positions counted as it   *)
(* has open rows, and their symbols, no others, are taken. The order being *)
(* recorded takes its symbol first and is counted last; a position whose   *)
(* insert was swallowed is counted for good, as its close matches no row.  *)
CountsMatch ==
    /\ risk.open = Cardinality(Held)
    /\ port.symbols = {tickets[t].symbol : t \in Taken}

(* "one open position per symbol"                                          *)
OnePerSymbol ==
    \A t, u \in OpenTickets : tickets[t].symbol = tickets[u].symbol => t = u

(* "max_open_positions"                                                    *)
OpenCap == Cardinality(OpenTickets) <= MAX_OPEN_POSITIONS

ClosedRows == SumFunctionOnSet([t \in Tickets |-> rows[t].closed], Tickets)

(* Every close that has been counted has closed a journal row of its own   *)
(* or met a swallowed update: no row is scored twice, in memory or on      *)
(* disk, over any crash, torn file, restart, deferral or second row.       *)
NeverScoredTwice ==
    /\ risk.trades <= ClosedRows + unwritten
    /\ disk.risk.trades <= ClosedRows + unwritten

(* A halt that has been saved is lifted by the daily reset of a later day  *)
(* and by nothing else: not by a restart, not by another tick of the day.  *)
HaltOutlivesRestart ==
    [][disk.risk.halted /\ ~disk.risk'.halted =>
        disk.risk'.last_reset > disk.risk.last_reset]_vars

-----------------------------------------------------------------------------
(* Fairness: the loop goes on; ticks are not all cut short for ever, and   *)
(* the broker does not fail every one of its calls.                        *)
RunnerStep ==
    \/ TickOpen \/ OrdersDone \/ RecordSignal \/ MarkCompleted \/ (\E s \in Symbols : Skip(s))
    \/ ListPositions \/ NoneClosed \/ SomeClosed \/ AllScored
    \/ (\E t \in Tickets : CloseUnmatched(t)) \/ SaveRisk \/ SavePortfolio
    \/ Startup \/ Restart

Fairness ==
    /\ WF_vars(RunnerStep)
    /\ SF_vars(TickOpen)
    /\ SF_vars(NoSignals)
    /\ SF_vars(ListPositions)
    /\ SF_vars(SomeClosed)
    /\ \A t \in Tickets : SF_vars(\E profit \in Profits : Score(t, profit))

FairSpec == Spec /\ Fairness

Unscored(t) == tickets[t].status = "closed" /\ rows[t].open > 0

(* Once a position is in the saved snapshot its close is scored, whatever  *)
(* lookup fails and whenever the process restarts, if the journal takes    *)
(* the update.                                                             *)
SeenCloseScored ==
    \A t \in Tickets :
        (t \in disk.risk.seen /\ Unscored(t)) ~> rows[t].closed > 0
=============================================================================
