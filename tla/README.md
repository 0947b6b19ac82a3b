# TLA+ models of the trading platform

This directory specifies, model-checks and partly proves the parts of the
repository that keep state and act on it concurrently with something they do not
control. One group of modules is about the demo runner
`src/scripts/run_st_a2_demo.py` and what it keeps its orders, its positions and
its losses in; the other about the platform around it: who owns the runtime, how
a signal becomes an intent, how a strategy moves through its stages, what blocks
and selects signals, and the live bot `src/bot.py`. Paths below are relative to the
repository; line numbers refer to the commit this directory was written against.

## 1. The system

The repository is two systems over one code base. *SVOS* takes a strategy
through validation stages and approves a package of it. *System 2* executes an
approved strategy against a broker account. The part whose mistakes cost money
is the second, and the part that is concurrent with something it does not
control (a broker, a crash, an operator) is the same, so the models start there.
SVOS shares files and a database among processes, which is why its stores follow.

| component | state it keeps | operations | talks to |
| --- | --- | --- | --- |
| execution state store (`execution/execution_state.py`) | one JSON file per order attempt: state, intent identity, broker order id, age | create, transition, find active by identity, list incomplete, advance to terminal | trade manager, recovery |
| trade manager (`execution/trade_manager.py`) | none of its own; the attempt number of a call | open position with duplicate gate and retries, list positions, mark state, close all | store, broker adapter |
| recovery (`execution/startup_recovery.py`) | snapshots for one pass | resolve every incomplete record, at start and every N ticks | store, trade journal, broker snapshot |
| demo runner (`scripts/run_st_a2_demo.py`) | tick count, risk state, two JSON state files | tick, periodic pass, start, shutdown | all of the above and below |
| risk manager (`execution/demo_risk_manager.py`) | trades, open positions, loss, losing streak, halt, day of reset, last snapshot | check limits, record a result, daily reset | runner, close scoring |
| portfolio manager (`core/portfolio_manager.py`) | trades, open symbols, daily, weekly and monthly result, day of reset | evaluate a batch of signals, record open and close, loss limits | runner, close scoring |
| close scoring (`execution/close_reconciliation.py`, `position_close_detector.py`) | the positions of the previous snapshot (in the risk state) | diff, match, score or defer | journal, both managers, broker |
| trade journal (`core/trade_journal_db.py`) | SQLite rows | insert, close, look up by order id | runner, recovery, scoring |
| circuit breaker (`core/circuit_breaker.py`) | per strategy, in memory: times of signals, trades, losing streak, cooldown, date | check, record a signal, record a trade, reset | runner |
| signal selection (`core/signal_router.py`, `core/portfolio_manager.py`) | what is open and traded today | route, evaluate | runner, between scan and orders |
| control state (`dashboard/control_state.py`, `execution/control_plane.py`) | one JSON file: mode, emergency stop, safe mode, permission | activate, clear, evaluate | dashboard, runner |
| coordinator and pipeline (`production/engine/coordinator.py`, `execution_pipeline.py`) | signals seen, in memory | submit a signal, run | strategy, risk gate, adapter |
| runtime authority (`production/engine/runtime.py`) | lock file, state file | acquire, run, release | other processes of the same root |
| lifecycle, evidence and transitions (`svos/`, `db/`) | a stage row, reports, bindings and transitions in PostgreSQL; or `state.json` and three append-only files | record evidence, decide and commit a transition, record a version | every process that uses the platform |
| packages (`production/*.py`) | imported and active package | verify, import, activate, roll back | runtime |
| live bot (`bot.py`, `execution/order_manager.py`, `metaapi_client.py`, `trade_logger.py`) | signals seen, last session, in memory; the trade log | heartbeat, session end, scan, process a signal | broker |
| research, replay, reports, dashboards | files | batch jobs and pages | read the rest |

How they interact: the runner is one asyncio task. A tick asks the control
state whether trading is stopped, resets the day, scans the market, filters the
signals, submits what is left one order at a time through the trade manager,
then diffs the broker's positions against the previous tick's and scores what
disappeared. Between two awaits nothing else runs in the process, so what
interleaves with a step is the broker, the clock, the operator and a crash. The
live bot is built the same way. The production engine is one task too, around
which time, the stop and the package's validity change while it awaits a decision,
but several processes may try to own it. The stores of SVOS are used by any
number of processes: the database serializes transactions, of which one
transition takes three, and the files serialize nothing.

What is hard here, and where it bites, is listed line by line under `hazards`
in `PROJECT.json`. In short: an answer from the broker that may or may not mean
that an order exists; durable writes (record file, SQLite row, state file) that
a crash can separate; snapshots taken once and used for a whole pass; counters
that only mirror what went through one particular path; two calendars; and a
guard that returns before the code that would lift it.

What makes each component correct:

* orders: one live record per intent, one live order per record, no legal
  sequence of crashes that leaves a record stuck or a position unknown;
* positions: counters, journal and broker agree about what is open; a close is
  scored, and once; a halt lasts its day and no longer;
* control: a stop that was confirmed stays in force until it is cleared;
* runtime: one owner at a time, whose state nobody overwrites, and no lock that
  outlives its owner's run;
* pipeline: a signal is decided once, and not against a stop;
* lifecycle: transitions are one chain along the graph, each rests on evidence
  that passed, and the stage on file is the one the history ends with;
* breaker and selection: limits are overrun by no more than a tick, and nothing
  is selected that cannot be traded, or dropped without a reason;
* live bot: one order per signal, one position per symbol, none after the session.

## 2. Modules

```
ExecutionState          the record's state machine (pure)
  OrderExecution        submission, retries, crashes, recovery, broker
    OrderExecutionProofs  theorems
    MCOrderExecution      finite instances
ExecutionLedger         what the execution layer promises (abstract)
PositionAccounting      the tick, risk and portfolio counters, close scoring
  PositionAccountingProofs  theorems
  MCPositionAccounting    finite instances
ControlState            the control file between dashboards and runner, the
                        emergency branch of the tick, the permission, the gate
  ControlStateProofs      theorems

RuntimeAuthority        lock file and state file of the production runtime
ExecutionPipeline       coordinator, checks, awaited decision, adapter
LifecycleGraph          stages and the transitions between them (pure)
  ControlPlane            the PostgreSQL back end
  StrategyRegistry        the file back end, with the gate and the services
StrategyLifecycle       what a store of stages promises (abstract)
CircuitBreaker          limits, losing streak and cooldown of a strategy
SignalSelection         router and portfolio manager, within a tick
LiveBot                 bot.py with process_signal and the trade log
  MCPlatform              finite instances of these seven
EngineProofs            theorems about RuntimeAuthority, ExecutionPipeline, LiveBot
LifecycleProofs         theorems about ControlPlane, StrategyRegistry
SignalProofs            theorems about CircuitBreaker, SignalSelection
PlatformProofs          the seven side by side
FiniteSums              lemmas: sums over finite sets
```

`OrderExecution` implements `ExecutionLedger` (property `ImplementsLedger`, an
`INSTANCE ... WITH` that reads an execution's outcome off its record).
`PositionAccounting` takes the submission of an order as one step with four
outcomes: acknowledged (`Place`), refused (`Skip`), executed but unknown
(`PlaceAmbiguous`), and the answer to a duplicate, which sends nothing and returns
the order id of an earlier attempt (`Duplicate`); those are the ways a
submission of `OrderExecution` can end. `ControlPlane` implements
`StrategyLifecycle` (`PlaneImplementsLifecycle`): its history is read off the
transition rows.

The seven modules of the second group share no variable. `MCPlatform` checks them
in one run: its variable `part`, chosen in the initial state, says which of them
moves, so the states of the run are the sum of theirs and not their product. Their
proofs are about each module's own specification; `PlatformProofs` carries their
types over to the composition.

Operators with a suffix (`find_active_by_identity_InFlightOnly`,
`deferred_Advances`, ...) stand before the operator whose name they extend and
are faulty variants of it. No specification uses them. Each one is the evidence
that a property can fail: replace the operator's body by its variant and the
run named under `mutants` in `PROJECT.json` reports the property.

### 2.1 OrderExecution

| TLA+ | code |
| --- | --- |
| `store` | `data/execution/*.json`; `aged` is `now - updated_at >= RECONCILE_MIN_PENDING_AGE_S` |
| `journal` | number of rows of `trades` with each `broker_order_id` |
| `orders` | external: what the broker knows of each `place_order` call, and which record made it |
| `pc`, `cur`, `call`, `attempt`, `goal` | where the task is: `tick` between signals, `prepare`/`send`/`wait` in `open_position`, `acked`/`mark` in phase 6 of the tick, `recon`/`attach`/`advance` in a recovery pass |
| `recon` | `incomplete`, `position_by_id`, `linked_order_ids` and the age gate of one pass |
| `OpenNew`, `OpenDuplicate`, `Prepare`, `Send` | `open_position` up to the request |
| `Acknowledge`, `FailAmbiguous`, `Retry`, `FailTerminal` | the four ways out of an attempt in `_place_order_with_retry` |
| `JournalOpen`, `LogOpenFails`, `Mark`, `MarkFails` | phase 6 after the order, with its `except` branch |
| `EndTick`, `ReconStart`, `ReconSkip` | end of `_tick`, and the two callers of recovery |
| `ReconDefer`, `ReconKnown`, `ReconAdopt` + `Attach`, `ReconLost`, `Advance`, `ReconDone` | `reconcile_pending_executions` and `_reconcile_one`, one step per durable write |
| `BrokerExecutes`, `BrokerDrops`, `BrokerCloses`, `Age`, `Crash` | the environment |

Abstractions: an intent identity is a value; symbol, direction and lots are one
value `KeyOf[intent]`; metadata and history are left out. `_shortest_path`
iterates over Python sets of strings, whose order differs from one process to
the next, so the model allows every shortest path. A record is written whole:
a torn record file makes the store raise on every read, which stops the runner
rather than misleading it (a listed hazard).

`InsertsMayFail` says whether SQLite may refuse the insert of a journal row;
`record_signal` logs and swallows the error, so its caller goes on as if the
row were there. Reconciliation retries an insert only while the record is
incomplete.

`HidesFill` says which classes of error may have been raised although the order
was executed. The code's own policy is that only ambiguous ones do; the run
`order_transient` adds the transient class. `BoundedFlight` says that an order
still on its way has settled by the time its record is old enough for the age
gate, or the process is back after a crash: this is the assumption written into
the docstring of `reconcile_pending_executions` ("only ever runs after the
outage duration has already elapsed").

A record may pass the age limit at any moment (`Age`), also while a pass is under
way: `_past_age_gate` reads the clock when the pass gets to the record, after the
broker has answered `get_positions`. An order that fills between the two is not in
the snapshot and its record is given up. `ShortPass` says that this does not
happen: an order settles early enough to be in the snapshot of the pass in which its
record ages. It is an assumption on the broker, as `BoundedFlight` is, and the code
does not enforce it (section 3).

The runs `order_safety` and `order_live` use `SharedKey`: both signals have the same
symbol, direction and lots, so recovery cannot tell their orders apart. A record
without an order id may then be given the order that another record was acknowledged
for. Such an order is in `Doubled`: it is journaled once, both records end with it, and
one position of that market may be left that nobody looks for. `NoForgottenPosition`
therefore counts: the positions of a market that the journal does not know are no more
than its unresolved records and its doubled orders together. Where no two records share
a market, `Doubled` is empty and it says that every unknown position has its record.
What recovery never does is give out the order of a finished record
(`RecoveredOrderIsFree`).

### 2.2 PositionAccounting

| TLA+ | code |
| --- | --- |
| `tickets` | external: the broker's positions |
| `rows`, `records` | how many rows of the journal each position has, OPEN and CLOSED, with the profit of the closed ones; its execution record |
| `unwritten` | close updates that SQLite refused and `update_close` swallowed |
| `risk` | `risk_state`; `seen` is `_last_positions`, `last_reset` the day it was stamped with |
| `port` | `PortfolioManager`; `total` stands for the weekly and the monthly figure, which nothing resets |
| `disk` | `risk_state.json`, `portfolio_state.json` |
| `TickLatched`, `TickOpen`, `TickStopped` | the three beginnings of `_tick` |
| `ScanFails`, `NoSignals`, `Signals`, `Skip` | phases 1 to 5 and the early `continue`s of phase 6 |
| `Place`, `PlaceAmbiguous`, `Duplicate` | the answers of `open_position` in phase 6 |
| `RecordFails`; `RecordSignal`, then `MarkCompleted` or `MarkFails`; `OrdersDone` | what follows an acknowledged order: `log_open` raises; `record_signal` and `record_trade`; the three marks and `open_positions + 1`, or one of the marks raises |
| `ListPositions`, `ListFails`, `NoneClosed`, `BalanceFails`, `SomeClosed`, `CloseUnmatched`, `DealFails`, `Score`, `ScoreUnwritten`, `AllScored` | `get_positions` and `process_closed_positions` |
| `SaveRisk`, `SavePortfolio`, `TornSave` | the two writes at the end of a tick, and a crash within one |
| `Periodic`, `Startup`, `StartupSkipped`, `Shutdown`, `Crash`, `Restart` | the process |
| `Midnight`, `UtcMidnight` | the two calendars |

Money is a small integer: what matters is its sign and the sums compared with
the limits. A close may bring in any of `Profits`, so no property depends on
whether the figure came from the closing deal or from the last snapshot. The
approved batch is any set of symbols that the caps and the open symbols allow,
which covers every outcome of the confidence and correlation filters.
`Faults` names the kinds of failure a run includes, nine in all. Two of them are
silent: `insert` and `update_close` stand for an SQLite error that
`trade_journal_db.py` logs and swallows, after which the caller goes on as if the row
were written. A position whose insert was lost is counted for good, because its close
matches no row. A position whose update was lost is scored with its row still OPEN, so
that a deferral of the same pass lets it be scored again: `NeverScoredTwice` bounds what
is counted by the rows that were closed and the updates that were lost (`unwritten`),
and `BooksAgree` is about the time before the first lost update. A duplicate may give a
position a second row (`MaxRows`); each row can be scored once.

A symbol has one direction and one volume in this model, so a recovery pass
(`Reconciled`) may match a pending record with any open position of its symbol that
has no row; it is one step here and several in `OrderExecution`. Orders execute at
once.

### 2.3 ControlState

| TLA+ | code |
| --- | --- |
| `file` | the `emergency_stop` section of the control state file; `stamp` is `activated_at` |
| `work` | the loads that are not yet followed by their save, with the copy each took |
| `confirmed` | the stop the operators were last told is in force (an observation, no step reads it) |
| `emergency_state`, `handled`, `todo`, `allowed` | the runner's `emergency_state`, `_emergency_stop_handled_at`, the loop of `emergency_close_all`, `permission.trading_allowed` |
| `LoadActivate` + `SaveActivate`, `LoadClear` + `SaveClear` | `activate_emergency_stop`, `clear_emergency_stop` with its `expected_source` |
| `LoadKeep` + `SaveKeep` | every update that leaves the section as it loaded it: reviews, safe mode, reconciliation, `evaluate` on a status page |
| `TickEmergency`, `ListPositions`, `ListFails`, `ClosePosition`, `ClosePositionFails`, `CloseAllDone`, `TickOpen` | the beginning of `_tick` |
| `Evaluate`, `SaveEvaluation`, `LoadPermission`, `SavePermission` | `TradingPermissionService.evaluate` and `set_trading_permission`, a load and a save each |
| `SkipSignal`, `GatePasses`, `Place`, `PlaceFails`, `EndTick` | the rest of a signal, the gate of the pipeline, the end of the tick |
| `HandlerCrash`, `RunnerCrash`, `BrokerCloses` | the environment |

`write_text` truncates the file and writes it again, and `load_control_state`
takes a file it cannot parse for the default state. A load while another writer
is between its load and its save may therefore return the default state, and a
crash there may leave it. What a clear leaves of the section (reason, source, old
stamp) no step reads. The status server serves one request at a time and the
second dashboard several, so any handler of the model may do what either does.
A position that could not be closed is `"unclosed"`: it is open, and tried.
An order takes effect at once; orders that are executed late are the subject of
`OrderExecution`.

### 2.4 RuntimeAuthority

| TLA+ | code |
| --- | --- |
| `lock` | `runtime-owner.lock`: who created it, and whether its content is there yet |
| `persisted`, `snapshot`, `owns_lock` | `runtime-state.json`; `_snapshot.state` and `_owns_lock` of each process |
| `ReadLock` + `RemoveStaleLock` | `_remove_stale_lock`: the reading, and the unlinking of whatever is there then |
| `CreateLock` + `WriteLock`, `CannotCreate`, `WriteLockFails` | `_acquire_ownership`: `O_EXCL`, then the content, or a full disk at one of the two |
| `Refused` + `ReadOwner` | `FileExistsError`: `exists()`, then `read_text()` for the message, between which the lock may vanish |
| `SayFailed` | `except Exception` of a process that owns nothing yet: FAILED is written all the same |
| `ReachNextState`, `RuntimeEnds`, `StoppingNotWritten` | `run` up to its `finally` clause |
| `ReadOwnLock` + `UnlinkOwnLock`, `SayStopped` | `_release_ownership`, and the last state after it |
| `RuntimeKilled` | a process killed; its pid is not given to another |

What makes a package valid is left out: a refused package is one of the ends of
a run. `DiskMayFill` lets every write of the two files and of the event log fail.

Two things this makes visible. A lock whose content could not be written
(`WriteLockFails`) is empty and stays: `_remove_stale_lock` returns at a lock it cannot
parse, so every later starter is refused, also after the process that left it is gone,
until an operator removes the file. And a starter that is refused writes nothing, unless
the lock vanishes between its two looks at it (`runtime.py:257`): `FileNotFoundError` is
no `RuntimeOwnershipError`, so its FAILED goes over the state of whoever owns the runtime
by then. It takes no crash and no full disk, and is against ADR-0003:59 ("A second
authority may not overwrite the active owner's state").
`NoLockLeftBehind` and `OnlyLateWordsOverwrite` name these as their exceptions.

### 2.5 ExecutionPipeline

| TLA+ | code |
| --- | --- |
| `seen` | `_seen`, pruned as `submit_signal` prunes it |
| `TurnAway`, `QuantityRaises`, `SubmitSignal` | `submit_signal`, and `submit` up to its first await |
| `RiskRejects`, `RiskApproves`, `AdapterReturns`, `Raises` | what the awaited gate and adapter do |
| `StartAgain` | a new coordinator, with nothing in `_seen` |
| `ClockTicks`, `GateChanges` | the clock; the operator's stop and the package's validity |

The pipeline is taken with a `package_validator`; without one (it is optional, and
only a test passes one) the package is not looked at again and a revocation does
not close the gate.

### 2.6 ControlPlane and StrategyRegistry

Both implement the same two operations, recording a verdict as evidence and an
audited transition, and differ in what an interruption can do.

| TLA+ | code |
| --- | --- |
| `RegisterReport` + `BindEvidence` | `_pg_record_evidence`: two transactions |
| `ReadStage` + `CollectEvidence` + `Commit` | `_pg_audited_transition`: two reads and `commit_transition` |
| `GiveUp` | a refusal by `commit_transition`, or the end of the client between two transactions |
| `RecordEvidence`, `RecordVersion`, `AppendTransition` | the appends of `StrategyRegistryService` |
| `ReadStateFile` + `TruncateStateFile` + `WriteStateFile` | its update of `state.json` |
| `Evaluate`, `Drive`, `MatchDecision` | `evaluate_transition`, `_drive_lifecycle`, the comparison in `transition` |

In the file back end `disturbed` remembers that two updates overlapped or that a
process ended within one; `StageIsLastTransition` speaks of the behaviours in which
neither happened, the other properties of all. A reader who comes while
`state.json` is being written finds nothing and falls back on the catalog, as
`read_json` does. A truncated file is the only torn content; the append of a line
is atomic in the model.

### 2.7 CircuitBreaker and SignalSelection

`CircuitBreaker` is one strategy over time: `BlockedByCooldown`, `BlockedByLimit`,
`BlockedByLosses` and `LetThrough` are the four ways out of `check`, `RecordSignal`
and `RecordTrade` the two records, and `pause` remembers the last cooldown that
began. `signal_times` says for each time how many signals were recorded at it, which
is the code's list of times without its order. All signals of a tick are checked
before any is recorded, as the runner does.
`SignalSelection` is the tick's pipeline from the generated signals to the orders:
`Route`, the verdict of the breaker (any subset), `EvaluateSignals`. The
verdict of `_validate` is an attribute of a signal. Filtering and stable sorting are
written by position (`Nth`: the k-th of a set of positions; `Ranked`: the k-th by
confidence), so that TLC computes them and a proof can speak of them.

### 2.8 LiveBot

| TLA+ | code |
| --- | --- |
| `session`, `now_session`, `last_session` | `get_active_session` now, as the turn read it, and as the turn before left it |
| `seen_signals`, `signal_log` | `seen_signals`; the `SIGNAL_CREATED` events of the trade log |
| `connected` | `_connected` of the client, cleared by a request that times out |
| `in_flight`, `held` | external: orders and positions at the broker |
| `TurnBegins`, `Heartbeat`, `NoSessionOver`, `ListSessionPositions`, `CloseSessionPosition`, `ClosingDone`, `Sleep`, `ScanBegins`, `NewSignal`, `ScanEnds` | `run_bot` and `_scan_pair` |
| `Rejected`, `SpreadIsFine`, `NoPositionYet`, `PlaceOrder`, `Answered`, `AnswerLost` | `process_signal` |
| `BotStops`, `BotStarts` | the end of the process, killed or by an exception that leaves the loop, and its start with `_load_seen_signals` |
| `unanswered`, `left` | observations: symbols with an order whose outcome the bot missed; orders no closing has had before it |

The bot is modelled in live mode with the MetaAPI client. Its risk manager is left
out: nothing outside the tests calls `record_trade_result`, so its limits do not
trip. An entry of the trade log is atomic and durable in the model; the code skips
a torn line and does not sync, so a power failure may lose the memory of a signal.
The session does not change twice within a turn of a running bot: sessions are hours
apart and every request has a time limit.

## 3. What is checked

All bounds are constants of the configuration files; `tlc -config <run>.cfg <module>.tla` repeats a run.

| run | question | bounds | states |
| --- | --- | --- | --- |
| `order_safety` | are duplicates gated, records finishable and positions known, over crashes and ambiguous failures, and is the ledger implemented? | 2 intents on 1 market, 2 records, 3 orders, 2 attempts, a pass every 2 ticks, 2 crashes | 0.23 million |
| `order_live` | the same with a loop that goes on: is every record resolved, is recovery idempotent, is `IInv` invariant? | 2 intents on 1 market, 2 records, 2 orders, 1 crash | 0.22 million |
| `order_transient` | is "never by retrying" true of transient errors? (no) | as `order_safety`, smaller | counterexample |
| `account_sound` | do counters, journal and broker agree about what is open when lookups and inserts fail? | 3 symbols, 3 positions, cap 2, 2 days, no crash | 0.26 million |
| `account_faults` | what survives all nine faults together? | 1 symbol, 2 positions, 2 rows each, 1 crash, 1 lost update, 2 days, not on UTC | 2.7 million |
| `account_live` | is a close that was seen scored in the end; does a halt last its day? | 1 symbol, 2 positions, 2 rows each, 1 crash, 2 days; lookups and marks fail | 0.11 million |
| `account_crash` | is the loss of a close counted over a crash? (no) | 2 symbols, 3 positions, 1 crash | counterexample |
| `control_stop` | what survives unlocked updates, torn reads and a crash? | 2 requests at a time, 1 position, 2 activations, 1 crash | 0.5 million |
| `control_race` | does a confirmed stop bind the next intent? (no) | 1 request at a time | counterexample |
| `platform` | do the seven modules of the second group keep their promises? | 3 processes and 1 kill; 2 signal ids, age 1, clock 2, 1 restart; 2 clients, 3 transitions; 2 processes on files, 2 versions, 2 transitions, 2 verdicts; 7 hours in days of 4, batches of 2; 3 signals in a tick; 3 signals on 2 symbols, 1 end of the bot | 1 million |
| `runtime_takeover` | does one process own the runtime, even after a kill? (no) | 3 processes, 1 kill | counterexample |
| `lifecycle_evidence` | can failed evidence not promote, in the database? (it can) | 1 client, 1 transition | counterexample |

Why the bounds are enough to be interesting. Two records and three orders are
what a duplicate, a retry and a confusion of two records need. A pass every two
ticks puts a tick between two passes and a pass between two ticks. Two crashes
allow one in the run and one in the recovery from it. Three positions with a
cap of two are what it takes to exceed the cap, and two days what it takes to
distinguish a daily reset from a restart. Three losing trades do not fit into
two positions, so a losing streak is reached in `account_sound` only. Two rows are what a
repeated signal gives a position, and one lost update is enough to score one again.

Two requests at a time race each other and the runner, and two activations are
what it takes to handle a second stop after a first. A stolen lock takes a process
that was killed, one that removes its lock too late and one that owns it by then:
three. A signal is forgotten when the age limit is over, so the clock goes past
it; two clients are what it takes to decide on a stage that another has left, and
two transitions to fork a history. The breaker runs over two dates with a cooldown
that is longer than what is left of the first. Two signals of one symbol and one of
another test the guard and let a closing have two positions before it; one end of
the bot falls on every place of its loop.

Fairness. In all live specifications the runner's own steps are weakly fair:
it is one task that goes on as long as the process lives and a supervisor
restarts it, and a tick has finitely many signals (`EndTick`). Answers that the
environment may refuse (`ReconStart`, `ListPositions`, `SomeClosed`, `Score`) are
strongly fair: a broker that fails
some calls is allowed, one that fails every call for ever is not. `NoSignals`
and `TickOpen` are strongly fair, i.e. ticks are not all cut short; without
that no close is ever processed (see the daily-loss guard below).
The broker settles an order it was sent, and time passes. In `ControlState` the
runner's reads of the file do not all fall into somebody's write
(`TickEmergency`), and nothing is assumed of the dashboards. The modules of the
second group have safety properties only and no fairness.

### Where the code does something else than it says

Five runs end in a counterexample, each against a sentence of the repository
(quoted under `findings` in `PROJECT.json`).

* `order_transient`: a connection that is reset after the order was executed is
  classed transient, and the retry places a second order for the same record.
* `account_crash`: `update_close` is durable at once and the counters are saved
  at the end of the tick. After a crash in between the row is no longer open,
  the close matches nothing and its loss is never counted.
* `control_race`: `evaluate` saves back what it loaded. A stop that a dashboard
  saves in between is answered with "stopped" and gone; neither the next tick nor
  the gate ever sees it.
* `runtime_takeover`: two starters read the lock of a process that was killed.
  The first removes it and creates its own, the second removes that one: both run.
* `lifecycle_evidence`: the database back end binds every report as qualifying
  evidence and never looks at its status, so a report that says FAIL promotes. The
  file back end asks for a PASS (`PromotionsRestOnPass`).

Other limits of the same code, which the passing runs assume away by a constant
and which appear as soon as it is changed:

* without `ShortPass`, `NoForgottenPosition` does not hold: a pass that asked for
  the positions before an order filled, and looks at the clock after its record
  has aged, gives the record up and leaves the position with neither record nor row.
  Nor does it hold without `BoundedFlight`, with `InsertsMayFail` or with
  `"terminal"` in `HidesFill`;
* with two records on one market, recovery may give one record the order of another
  that was acknowledged, and a position of that market may be left that nobody looks
  for (`Doubled`, section 2.1);
* with `HostIsUtc = FALSE`, `HaltOutlivesRestart` does not hold: the day of the
  reset is stamped in UTC and compared with the local date, so while the two
  differ every tick repeats the reset and lifts the halt. With `"torn_save"`
  in `Faults` it does not hold either: an unreadable state file is replaced by a
  fresh one;
* with `"ambiguous"`, `"log_open"` or `"mark"` in `Faults`, `OpenCap` does not hold: an
  order that was executed behind an ambiguous error, or whose recording was cut short
  before `open_positions` was raised, is finished by recovery and never counted. With
  the first two its symbol is not taken either, and `OnePerSymbol` fails too;
* with `"update_close"` in `Faults`, a close that is scored again takes a second
  position off the counter and frees a symbol that has been taken again: `CountsMatch`
  does not hold, nor, with four and five positions, `OnePerSymbol` and `OpenCap`. And a
  close whose update is lost keeps its row OPEN for good once the snapshot has gone on:
  `SeenCloseScored` does not hold;
* with `MaxCrashes > 0`, `OnePerSymbol`, `OpenCap` and `CountsMatch` do not hold: a crash
  before the save forgets the symbol and the count, and recovery restores only the
  journal row;
* a lock without content, which a full disk leaves, stops every later start of the
  runtime, and the refused starter's FAILED may land on an owner's state (section 2.4);
* a position that `close_position` fails on (`"unclosed"`) stays open for the
  rest of the stop: `HandledStopIsFlat` says that each was tried, not that it is
  closed;
* with `InsertsMayFail = TRUE`, `CompletedIsJournaled` does not hold:
  `record_signal` returns 0 when the insert fails, which no caller looks at, and the
  record is completed without its row;
* the portfolio manager's daily figure is reset inside `evaluate`, behind the guard
  that looks at it (`TickLatched`): a day over the limit stops every later day as
  well, and close processing with it;
* the emergency branch closes positions on a stop of any scope, `block_only`
  included;
* the coordinator's memory of signals and the breaker's cooldowns are lost when
  the process restarts: `OneDecisionPerSignal` and `CooldownHolds` are about one
  life of it;
* a symbol of the live bot with an order whose answer was lost may get a second one:
  the guard asks for positions, and the order is none yet. Positions that are open
  while the bot is down or disconnected at the end of a session stay open
  (`left`), and a close the broker refuses ends the bot.

## 4. What is proved

`OrderExecutionProofs` proves, with TLAPS and for all values of the constants
that satisfy `ConstantsAssumption`, all numbers of crashes and retries included:

| theorem | statement |
| --- | --- |
| `Invariance` | `Spec => []IInv` |
| `TypeCorrect` | `Spec => []TypeOK` |
| `UniqueActive` | `Spec => []OneActivePerIntent` |
| `JournaledFirst` | `Spec => []CompletedIsJournaled`, if inserts do not fail |
| `LegalSteps` | `Spec => LegalRecordSteps` |
| `Implementation` | `Spec => ImplementsLedger`, if inserts do not fail |
| `OneFill` | `Spec => []OneFillPerRecord`, if no transient error hides a fill |
| `PositionInvariance` | `Spec => []PositionInv`, under `PositionAssumption` |
| `NoneForgotten` | `Spec => []NoForgottenPosition`, under `PositionAssumption` |
| `RecoveredFree` | `Spec => RecoveredOrderIsFree`, if inserts do not fail |
| `Recoverable` | `Spec => []IncompleteIsRecoverable` |
| `JournaledOnceByPass` | `Spec => RecoveryJournalsOnce` |

The argument. None of the safety invariants is inductive alone. That a
record is completed only when its order is in the journal needs to know, at
every step on the way there, what has been journaled: `RecordFitsPc` says so for
each value of `pc`. That a terminal record is never touched again needs to know
that the task works on an active one (`WorkingOnActive`), and for a pass, which
works from snapshots, that its snapshots are still good: every record in its
queue is still active and everything it takes for linked is in the journal
(`PassIsCurrent`). Where inserts may fail nothing is known of the journal, so
these conjuncts speak of `KnownOrders`, so that `IInv` itself needs no assumption
about the journal. `IInv` is their
conjunction with the type invariant. There is one lemma per action that writes a
record or the journal (`PrepareInv`, `RetryInv`, ...), on top of lemmas about
the state machine alone: what `transition` changes, that the walk of
`advance_to_terminal` takes legal steps, and what it preserves. Refinement maps a step that writes a row to `Record`, one
that completes or gives up a record to `Opened` or `Lost`, and every other step
to a stutter.

`OneFill` rests on `OrdersFitPc`: whenever the task is about to send, every order
the record has sent before was dropped. A retry keeps that only if the failure it
follows means what it says, so the hypothesis is `"transient" \notin HidesFill`,
the one `order_transient` shows to be needed.

`NoneForgotten` is about the positions, for any assignment of intents to markets, and
holds only under `PositionAssumption`: only ambiguous errors hide a fill, an order settles
before its record ages or the process is back up (`BoundedFlight`) and before the
snapshot of the pass in which it ages (`ShortPass`), and inserts succeed. None of the four
can be left out: with any one of them changed in `order_safety.cfg`, TLC refutes it.
Records and orders are finite sets, because it counts them.

What makes it inductive (`PositionInv`) is the argument of `startup_recovery.py`, made for
a market at a time. An orphan is an order that is alive, or that the snapshot of the pass
holds, and that neither a row nor the order id of a record accounts for; it can only be
found by a record without an order id. `OrphansAreSought` says that each market has no
more orphans than such records, but for its doubled orders, and what becomes of that
count in the middle of a step: a record whose order has just been sent, or that is being
judged, does not count. What a pass judges has nothing in flight, because of the age gate
or of the restart (`JudgedIsSettled`); an order that was too late for the snapshot is of a
record that the pass leaves alone (`LateIsWaiting`). So a record is given up only when
the snapshot has no orphan of its market left (`LostHasNone`), and every adoption takes one
orphan and one record off, unless what it takes has been acknowledged for another record,
and then that order is doubled (`AttachDoubles`).

`RecoveredFree` needs none of these assumptions but the inserts: a finished record that has
an order was completed (`FinishedIsCompleted`), so its order is in the journal, which the
pass takes for linked (`LinkedIsComplete`) and does not give out.

`Recoverable` says that `advance_to_terminal` finds a path for every record the task
may leave behind. The search is a recursive function over paths of at most
`MaxPath` states; that it exists, that every layer of it holds what one more legal step
reaches and that sixteen layers are enough (the state machine has sixteen states) are
lemmas (`LayersExist`, `LayerSteps`, `SixteenStates`). What remains is about the
records: one with an order id is past the request and can be completed, and one without
can be abandoned from where it is (`UnplacedIsAbandonable`, an invariant of its own,
because a retry sends records back).

`JournaledOnceByPass` rests on `LinkedIsComplete`: from its snapshot of the journal to
its last claim, a pass takes for linked every order that has a row, since a row written
meanwhile is its own and is linked by the same step. It is the converse of what
`PassIsCurrent` says of the linked orders. The statement is about passes: a submission
that found a duplicate writes a row without looking.

`PositionAccountingProofs` proves, from `AccountingAssumption` and for any positions,
symbols, profits and limits:

| theorem | statement |
| --- | --- |
| `AccountingTyped` | `Spec => []TypeOK` |
| `ScoredOnce` | `Spec => []NeverScoredTwice` |
| `HaltSurvives` | `Spec => HaltOutlivesRestart`, if the host is on UTC and no crash tears the file (`OneDate`) |
| `CountsMirrorJournal` | `Spec => [](crashes = 0 => CountsMatch)`, under `OrdersRecorded` |
| `OneOpenPerSymbol` | `Spec => [](crashes = 0 => OnePerSymbol)`, under `OrdersRecorded` |
| `OpenStaysCapped` | `Spec => [](crashes = 0 => OpenCap)`, under `OrdersRecorded` |
| `BooksAddUp` | `Spec => []BooksAgreeUntilCrash` |

The first two hold under all nine kinds of fault and over any number of crashes. That
nothing is scored beyond the rows closed and the updates lost needs to know where rows
come from (`Bookkeeping`): they are of positions in use, as records and the order being
recorded are, and each scoring either closes a row or is a lost update. The halt needs the saved state compared with the one in
memory (`HaltKept`): neither is stamped with a later day than today, and where memory
has lifted a halt that the file still has, it did so on a later day than the file's.
`OneDate` is what the passing run assumes and what, changed, refutes the property
(section 3).

The last four hold until the first crash and not beyond: `account_crash` is the
counterexample. `OrdersRecorded` excludes the faults after which counters and broker part:
an ambiguous error, `log_open` or a mark that raises, and a lost update of a close
(section 3). What may still fail are the lookups and the inserts of the journal. Up to the
crash the three agree because of what is true between them in the middle of a tick
(`SoundInv`): a position has at most one row, which is closed only once the position is, and
no record is left to reconcile but that of the order being recorded (`RowsComplete`); what
left the snapshot was closed by the broker (`GoneIsClosed`); no symbol is taken twice, and
an approved one by nobody (`SymbolsTaken`); and there is room for what is being recorded
(`RoomLeft`). What is counted is `Held`: the positions with an open row and those that
never got one, which stay counted after their close. Between its row and its count the
order being recorded has its symbol taken and is not yet counted (`Taken`).
`BooksAddUp` has no such hypothesis: it relates the result to the rows, whatever happened
to the positions, as long as no close update was lost.

`BooksAgree` and `SignalsThisHour` are sums over finite sets, folds whose order a
CHOOSE decides. `FiniteSums` proves what is needed of them (a sum is an integer, one
more summand adds its value, smaller summands give a smaller sum, equal ones the same)
by taking a smallest set that is a counterexample, since the induction theorems of the
library cannot be instantiated.

`ControlStateProofs` proves, from `ControlAssumption` and for any number of
dashboards, positions, activations and crashes:

| theorem | statement |
| --- | --- |
| `ControlInvariance` | `Spec => []ControlInv` |
| `ControlTypes` | `Spec => []TypeOK` |
| `HandledIsFlat` | `Spec => []HandledStopIsFlat` |
| `StopEndsByClear` | `Spec => StopEndsOnlyByClear` |

`HandledStopIsFlat` is not inductive: it says nothing of a marker whose stop is
not in the file, and a stale save may put that stop back at any time. What makes
it true is that the runner does not trade at all while its marker is set
(`MarkedIsFlat`): only a tick that finds no stop goes on to the signals, and that
tick removes the marker. The marker is set at the end of a loop that has had
every open position before it (`LoopIsComplete`), and it is a stamp of an
activation, hence never 0, because every copy of an active stop has one
(`Stamped`). `StopEndsOnlyByClear` needs that a clear under way was accepted for
the copy it loaded (`ClearsAccepted`) and that the runner's own saves never
clear (`RunnerKeeps`).

The proofs of the second group follow one pattern: the type invariant, a
strengthening that says what is true in the middle of an operation, one case per
action, and the properties as corollaries. Their assumptions are only those on the
constants that each module names.

| module | theorems | strengthening |
| --- | --- | --- |
| `EngineProofs`, runtime | `RuntimeTypeCorrect`, `RuntimeInvHolds`, `OwnershipExcludes` (`OneOwnerWithoutCrash`), `StateFileIsOwners` (`OnlyLateWordsOverwrite`), `LockIsReleased` (`NoLockLeftBehind`) | unless a lock was stolen, the lock is that of the one process between its creation and its removal, an owner is such a process, and a theft takes a killed process, because only the lock of a dead one is taken for stale; a lock, written or empty, names a process that has not finished `run`, was abandoned on a full disk, or was killed |
| `EngineProofs`, pipeline | `PipelineTypeCorrect`, `PipelineInvHolds`, `SignalDecidedOnce` (`OneDecisionPerSignal`), `ClosingHolds` (`OneOrderAfterClosing`), `OrderedOncePerLife` | a signal passed on is remembered, no earlier than its own time, or too old; every order is paid for by a submission or a restart; a late order is the one that was being decided |
| `EngineProofs`, live bot | `LiveInvHolds`, `LiveTypeCorrect`, `OrderedOnce` (`OneOrderPerSignal`), `GuardHolds` (`OnePositionPerSymbol`), `FlatAfterSession` (`SessionEndsFlat`) | what was ordered is in the log and, while the bot runs, in memory; an order on its way is awaited or missed; what a closing has not had before it is left |
| `LifecycleProofs`, database | `PlaneTypeCorrect`, `PlaneInvHolds`, `ChainUnbroken` (`LedgerIsChain`), `PlaneRefinesLifecycle` (`PlaneImplementsLifecycle`) | the chain and the stage row agree, bindings are of registered reports |
| `LifecycleProofs`, files | `RegistryTypeCorrect`, `RegistryInvHolds`, `PromotedOnPass` (`PromotionsRestOnPass`), `HistoryComesFirst` (`NeverAheadOfHistory`), `StageFollowsHistory` (`StageIsLastTransition`) | a decision on its way rests on evidence on file, which only grows, and every stage on its way into `state.json` is one a transition on file has reached; while nothing was disturbed at most one process updates, and the stage it is about to write is the last of the history (`UndisturbedInv`) |
| `SignalProofs`, breaker | `BreakerTypeCorrect`, `BreakerInvHolds`, `CooldownIsKept` (`CooldownHolds`), `OverrunIsBounded` (`OverrunIsOneTick`) | on the date it began, the cooldown in memory is the last that began; what is still to be checked and what was let through are no more than a tick together, and while both are left the recorded signals are below the limit (`OverrunInv`) |
| `SignalProofs`, selection | `SelectionTypeCorrect`, `SelectionSafe` (`SelectionIsSafe`), `NothingLost` (`NoneDroppedInVain`) | both together with the types, and that finitely many positions are open |
| `PlatformProofs` | `PlatformTypeCorrect` (`PlatformTypeOK`) | the invariants of the seven, since a step of one leaves the others unchanged |

The selection is an algorithm, and its proof is about lists. In a finite total order
every rank is taken, once (`Ranks`, from the theorem that an injection of a finite set
into one of its size is onto); so picking lists what it should in the order it stood,
and sorting lists everything in descending order (`Picked`, `Sorted`). Each list along
the way is drawn from the one before without using a member twice (`Drawn`), which
keeps what is true of every member and of every two. The router leaves one signal of a
symbol (`RoutedOnce`). Being correlated is symmetric and transitive, so a signal that the
filter drops has a kept one before it, the first of its kind (`Filtered`); cutting the
descending list then drops only what is no more confident than all it keeps
(`Evaluated`).

The types of `OrderExecution` and `ControlState` are proved and, as a conjunct of
`IInv`, checked in `order_live`; no run checks them by themselves.

Every safety property that a passing run checks, invariant or action property, is
stated by one of these theorems. Only model-checked are the three liveness properties,
`EveryRecordResolved`, `SeenCloseScored` and `EveryStopHandled`: they rest on fairness, i.e. on ENABLED, of which the prover knows
nothing. Nor does it say anything of the five counterexamples.

## 5. What is not modelled

`components` in `PROJECT.json` lists every part with the reason.

The models cover a small share of the repository's lines, and most of the rest is
not of the kind a model checker says anything about: strategies, indicators, lot
sizes, research experiments, back-tests, simulators and replays compute figures
from recorded prices, in sequence and without a second actor; dashboards, reports,
agents and scripts read what others wrote and lay it out; candles, telegram,
metrics and the operations recorder are I/O whose results nothing depends on. What
keeps state and is left out:

* package import, activation and deployment (`production/importer.py`,
  `activation.py`, `svos/deployment/service.py`): a package is built only for a
  strategy in `PRODUCTION_APPROVAL`, and `LifecycleGraph` has no transition into
  that stage, so none of this code can run on a strategy of the platform;
* `svos/lifecycle/authority.py`: its row for `stage_transition` lacks the
  `gate_decision_id` that `db/models.py` declares `NOT NULL`, so no transition of
  it commits;
* the strategy governance guard: in `PositionAccounting` its refusal is one of the
  reasons a signal is skipped;
* the portfolio runner: a second loop over the managers and the close scoring that
  are modelled with the demo runner;
* the projection of the outbox and the invalidation of evidence in `db/`, which
  nothing calls.

## 6. What could come next

1. What recovers after a crash: the journal half of `CountsMatch` and `BooksAgree`
   (which rows exist and which of them are closed) over any number of crashes, proved
   apart from the counters that `account_crash` shows to be lost.
2. The close scoring under the portfolio runner, which saves at other moments.
3. The activation of packages, should a transition into `PRODUCTION_APPROVAL` be
   added, and the authority's transition, should it be made to commit.
