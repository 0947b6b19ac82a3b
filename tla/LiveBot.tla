------------------------------ MODULE LiveBot ------------------------------
(* bot.py in live mode over MetaAPIClient (execution/metaapi_client.py),   *)
(* with OrderManager.process_signal (execution/order_manager.py) and the   *)
(* journal of execution/trade_logger.py. The bot is one task: between its  *)
(* requests to the broker nothing else of it runs, and what comes between  *)
(* is the broker, the clock and the end of the process. What it has in     *)
(* memory when it starts again comes from the journal.                     *)
EXTENDS Integers

CONSTANTS
    LiveSignals,        \* signals of run_strategy, by symbol and timestamp
    NoSignal,           \* no signal is being processed
    SymbolOf,           \* the symbol of each, and so its magic number
    TradeSessions,      \* SESSIONS of the session filter
    MaxBotStops         \* bound: times the process ends

Off == "off"

ASSUME LiveBotAssumption ==
    /\ NoSignal \notin LiveSignals
    /\ Off \notin TradeSessions
    /\ MaxBotStops \in Nat

VARIABLES
    session,            \* get_active_session() at this moment
    now_session,        \* session, as the turn of the loop read it
    last_session,       \* last_session of run_bot
    at,                 \* where run_bot is
    connected,          \* _connected of the client
    seen_signals,       \* seen_signals of run_bot
    signal_log,         \* SIGNAL_CREATED events of the journal
    current,            \* the signal process_signal is at
    to_close,           \* what _close_session_positions has still to close
    sent,               \* history: orders sent to the broker for each signal
    in_flight, held,    \* external: orders not settled yet, open positions
    unanswered,         \* history: symbols of orders whose outcome the bot missed
    left,               \* history: orders that no closing has had before it
    bot_stops           \* ends of the process so far

LiveBotVars == <<session, now_session, last_session, at, connected, seen_signals,
                 signal_log, current, to_close, sent, in_flight, held,
                 unanswered, left, bot_stops>>

Places == {"down", "loop", "heartbeat", "boundary", "closing", "turn",
           "scan", "spread", "guard", "place", "answer"}

(* The nth order for a signal.                                             *)
LiveOrders == LiveSignals \X Nat

OrderSymbol(o) == SymbolOf[o[1]]

ThisOrder == <<current, sent[current]>>

(* An RPC that times out marks the client as disconnected; one that fails  *)
(* otherwise does not.                                                     *)
RequestFails == connected' \in {connected, FALSE}

Broker == <<in_flight, held>>
Journal == <<signal_log, sent>>
Scanner == <<seen_signals, current>>
Sessions == <<session, now_session, last_session, to_close>>
Missed == <<unanswered, left, bot_stops>>

-----------------------------------------------------------------------------
(* The turn of the main loop reads the session, sends a heartbeat when one *)
(* is due, and then looks whether the session it knew is over.             *)
TurnBegins ==
    /\ at = "loop"
    /\ now_session' = session
    /\ at' = "heartbeat"
    /\ UNCHANGED <<session, last_session, to_close, connected, Scanner, Journal, Broker, Missed>>

Heartbeat ==
    /\ at = "heartbeat"
    /\ \/ RequestFails
       \/ now_session # Off /\ connected' = TRUE
    /\ at' = "boundary"
    /\ UNCHANGED <<Sessions, Scanner, Journal, Broker, Missed>>

SessionOver_Opening == now_session # Off /\ now_session # last_session

SessionOver == last_session # Off /\ now_session # last_session

NoSessionOver ==
    /\ at = "boundary"
    /\ ~SessionOver
    /\ last_session' = now_session
    /\ at' = "turn"
    /\ UNCHANGED <<session, now_session, to_close, connected, Scanner, Journal, Broker, Missed>>

(* get_open_positions has an empty answer when the client is disconnected. *)
Listed == IF connected THEN held ELSE {}

ListSessionPositions ==
    /\ at = "boundary"
    /\ SessionOver
    /\ to_close' = Listed
    /\ left' = left \cup (held \ Listed) \cup in_flight
    /\ at' = "closing"
    /\ UNCHANGED <<session, now_session, last_session, connected, Scanner, Journal, Broker,
                   unanswered, bot_stops>>

CloseSessionPosition(o) ==
    /\ at = "closing"
    /\ o \in to_close \cap held
    /\ to_close' = to_close \ {o}
    /\ held' = held \ {o}
    /\ UNCHANGED <<session, now_session, last_session, at, connected, Scanner, Journal,
                   in_flight, Missed>>

ClosingDone ==
    /\ at = "closing"
    /\ to_close = {}
    /\ last_session' = now_session
    /\ at' = "turn"
    /\ UNCHANGED <<session, now_session, to_close, connected, Scanner, Journal, Broker, Missed>>

(* Off hours the loop sleeps; otherwise it reconnects if it has to and     *)
(* asks for the account, and gives the turn up if either fails.            *)
Sleep ==
    /\ at = "turn"
    /\ now_session = Off
    /\ at' = "loop"
    /\ UNCHANGED <<Sessions, connected, Scanner, Journal, Broker, Missed>>

ScanBegins ==
    /\ at = "turn"
    /\ now_session # Off
    /\ \/ connected' = TRUE /\ at' = "scan"
       \/ connected' \in BOOLEAN /\ at' = "loop"
    /\ UNCHANGED <<Sessions, Scanner, Journal, Broker, Missed>>

(* A signal not seen yet is remembered and journaled before anything else. *)
NewSignal(s) ==
    /\ at = "scan"
    /\ s \notin seen_signals
    /\ seen_signals' = seen_signals \cup {s}
    /\ signal_log' = signal_log \cup {s}
    /\ current' = s
    /\ at' = "spread"
    /\ UNCHANGED <<Sessions, connected, sent, Broker, Missed>>

(* get_candles fails, or the last pair has been scanned.                   *)
ScanEnds ==
    /\ at = "scan"
    /\ RequestFails
    /\ at' = "loop"
    /\ UNCHANGED <<Sessions, Scanner, Journal, Broker, Missed>>

-----------------------------------------------------------------------------
(* process_signal: a rejection consumes the signal.                        *)
Rejected ==
    /\ at \in {"spread", "guard"}
    /\ RequestFails
    /\ current' = NoSignal
    /\ at' = "scan"
    /\ UNCHANGED <<Sessions, seen_signals, Journal, Broker, Missed>>

SpreadIsFine ==
    /\ at = "spread"
    /\ connected
    /\ at' = "guard"
    /\ UNCHANGED <<Sessions, connected, Scanner, Journal, Broker, Missed>>

MaxOpenTrades_OneMore(s) ==
    \A o, q \in Listed : OrderSymbol(o) = SymbolOf[s] /\ OrderSymbol(q) = SymbolOf[s] => o = q

MaxOpenTrades(s) == \A o \in Listed : OrderSymbol(o) # SymbolOf[s]

NoPositionYet ==
    /\ at = "guard"
    /\ MaxOpenTrades(current)
    /\ at' = "place"
    /\ UNCHANGED <<Sessions, connected, Scanner, Journal, Broker, Missed>>

(* place_order would raise without a connection, but there is one since    *)
(* the spread was checked.                                                 *)
PlaceOrder ==
    /\ at = "place"
    /\ connected
    /\ sent' = [sent EXCEPT ![current] = @ + 1]
    /\ in_flight' = in_flight \cup {<<current, sent[current] + 1>>}
    /\ at' = "answer"
    /\ UNCHANGED <<Sessions, connected, Scanner, signal_log, held, Missed>>

(* ORDER_FILLED, or the broker's refusal as an exception.                  *)
Answered ==
    /\ at = "answer"
    /\ ThisOrder \notin in_flight
    /\ current' = NoSignal
    /\ at' = "scan"
    /\ UNCHANGED <<Sessions, connected, seen_signals, Journal, Broker, Missed>>

(* The request times out or fails on its way, whatever becomes of the      *)
(* order: it is journaled as rejected.                                     *)
AnswerLost ==
    /\ at = "answer"
    /\ RequestFails
    /\ unanswered' = unanswered \cup {SymbolOf[current]}
    /\ current' = NoSignal
    /\ at' = "scan"
    /\ UNCHANGED <<Sessions, seen_signals, Journal, Broker, left, bot_stops>>

-----------------------------------------------------------------------------
(* The process ends: killed anywhere, or by an exception that passes       *)
(* through _close_session_positions, which a failed list or a failed close *)
(* of a position (one the broker has closed already, say) raises.          *)
BotStops ==
    /\ at # "down"
    /\ bot_stops < MaxBotStops
    /\ bot_stops' = bot_stops + 1
    /\ at' = "down"
    /\ connected' = FALSE
    /\ seen_signals' = {} /\ to_close' = {}
    /\ now_session' = Off /\ last_session' = Off
    /\ current' = NoSignal
    /\ unanswered' = IF at = "answer" THEN unanswered \cup {SymbolOf[current]} ELSE unanswered
    /\ left' = left \cup held \cup in_flight
    /\ UNCHANGED <<session, Journal, Broker>>

(* _load_seen_signals, and connect.                                        *)
LoadSeenSignals_Empty == {}

LoadSeenSignals == signal_log

BotStarts ==
    /\ at = "down"
    /\ seen_signals' = LoadSeenSignals
    /\ connected' = TRUE
    /\ at' = "loop"
    /\ UNCHANGED <<Sessions, current, Journal, Broker, Missed>>

BrokerSettles(o) ==
    /\ o \in in_flight
    /\ in_flight' = in_flight \ {o}
    /\ held' \in {held, held \cup {o}}
    /\ UNCHANGED <<Sessions, at, connected, Scanner, Journal, Missed>>

StopOrTargetHit(o) ==
    /\ o \in held
    /\ held' = held \ {o}
    /\ UNCHANGED <<Sessions, at, connected, Scanner, Journal, in_flight, Missed>>

(* There are hours between two sessions, and minutes in a turn of the loop *)
(* of a running bot.                                                       *)
SessionChanges ==
    /\ at # "down" => last_session = session
    /\ session' \in (IF session = Off THEN TradeSessions ELSE {Off})
    /\ UNCHANGED <<now_session, last_session, to_close, at, connected, Scanner, Journal,
                   Broker, Missed>>

LiveBotInit ==
    /\ session = Off /\ now_session = Off /\ last_session = Off
    /\ at = "down"
    /\ connected = FALSE
    /\ seen_signals = {} /\ signal_log = {} /\ to_close = {}
    /\ current = NoSignal
    /\ sent = [s \in LiveSignals |-> 0]
    /\ in_flight = {} /\ held = {} /\ unanswered = {} /\ left = {}
    /\ bot_stops = 0

LiveBotNext ==
    \/ TurnBegins \/ Heartbeat
    \/ NoSessionOver \/ ListSessionPositions \/ ClosingDone
    \/ Sleep \/ ScanBegins \/ ScanEnds
    \/ \E s \in LiveSignals : NewSignal(s)
    \/ Rejected \/ SpreadIsFine \/ NoPositionYet \/ PlaceOrder \/ Answered \/ AnswerLost
    \/ \E o \in held : CloseSessionPosition(o) \/ StopOrTargetHit(o)
    \/ \E o \in in_flight : BrokerSettles(o)
    \/ BotStops \/ BotStarts \/ SessionChanges

LiveBotSpec == LiveBotInit /\ [][LiveBotNext]_LiveBotVars

-----------------------------------------------------------------------------
LiveBotTypeOK ==
    /\ {session, now_session, last_session} \subseteq TradeSessions \cup {Off}
    /\ at \in Places
    /\ connected \in BOOLEAN
    /\ seen_signals \subseteq LiveSignals /\ signal_log \subseteq LiveSignals
    /\ current \in LiveSignals \cup {NoSignal}
    /\ sent \in [LiveSignals -> Nat]
    /\ to_close \subseteq LiveOrders /\ in_flight \subseteq LiveOrders
    /\ held \subseteq LiveOrders /\ left \subseteq LiveOrders
    /\ unanswered \subseteq {SymbolOf[s] : s \in LiveSignals}
    /\ bot_stops \in Nat

(* bot.py: the same signal is never submitted twice, over any number of    *)
(* turns of the loop and restarts, and whatever became of the first order. *)
OneOrderPerSignal == \A s \in LiveSignals : sent[s] <= 1

(* order_manager.py: at most one position is open or on its way per magic  *)
(* number, whatever the order of fills, closings, restarts and lost        *)
(* connections, unless the bot missed what became of an order of that      *)
(* symbol, which the guard cannot see until it is filled.                  *)
OnePositionPerSymbol ==
    \A o, q \in held \cup in_flight :
        OrderSymbol(o) = OrderSymbol(q) /\ OrderSymbol(o) \notin unanswered => o = q

(* _close_session_positions: when a session has ended, no position of the  *)
(* bot is open but those the closing could not have before it: positions   *)
(* of a bot that was disconnected or not running, and orders in flight.    *)
SessionEndsFlat == last_session = Off => held \subseteq left
=============================================================================
