--------------------------- MODULE OrderExecution ---------------------------
(***************************************************************************)
(* The life of an order in the demo runner: TradeManager.open_position and *)
(* its retry loop (execution/trade_manager.py), the durable execution      *)
(* records (execution/execution_state.py), the journaling that follows a   *)
(* placed order (scripts/run_st_a2_demo.py, phase 6) and the startup and   *)
(* periodic reconciliation (execution/startup_recovery.py), against a      *)
(* broker that executes, refuses, delays or closes orders on its own and a *)
(* process that may crash between any two writes.                          *)
(*                                                                         *)
(* The runner is one asyncio task, so its steps are sequential: pc says    *)
(* where it is. One step of the model ends at each durable write or await. *)
(***************************************************************************)
EXTENDS ExecutionState

CONSTANTS
    Intents,              \* intent identities (build_intent_identity)
    KeyOf,                \* intent -> the (symbol, direction, lots) matched on
    Execs,                \* execution ids (uuid4)
    OrderIds,             \* broker order ids
    None,                 \* the empty id ""
    ORDER_RETRY_ATTEMPTS, \* _ORDER_RETRY_ATTEMPTS
    RECONCILE_EVERY_N_TICKS,
    HidesFill,            \* error classes that may hide an executed order
    InsertsMayFail,       \* sqlite may refuse the insert of a journal row
    BoundedFlight,        \* an order settles before its record ages or the
                          \* process is back up
    ShortPass,            \* and early enough to be in the snapshot of the
                          \* pass in which its record ages
    MaxCrashes,           \* bound on process crashes
    MaxRows               \* bound on the journal rows of one order

ErrorClasses == {"ambiguous", "transient", "terminal"}

ASSUME ConstantsAssumption ==
    /\ None \notin Intents \cup Execs \cup OrderIds
    /\ ORDER_RETRY_ATTEMPTS \in Nat \ {0}
    /\ RECONCILE_EVERY_N_TICKS \in Nat \ {0}
    /\ HidesFill \subseteq ErrorClasses
    /\ InsertsMayFail \in BOOLEAN
    /\ BoundedFlight \in BOOLEAN
    /\ ShortPass \in BOOLEAN
    /\ MaxCrashes \in Nat
    /\ MaxRows \in Nat \ {0}

VARIABLES
    store,    \* data/execution/*.json, by execution id
    journal,  \* broker order id -> number of trade journal rows that carry it
    orders,   \* the broker's side: status of each order and who sent it
    pc,       \* what the runner is doing
    cur,      \* execution id it is working on
    call,     \* order id of the place_order call it is awaiting
    attempt,  \* attempt number in _place_order_with_retry
    goal,     \* state that mark_execution_state / advance_to_terminal aims at
    recon,    \* the reconciliation pass under way
    ticks,    \* tick_count modulo RECONCILE_EVERY_N_TICKS
    crashes   \* crashes so far

volatile == <<pc, cur, call, attempt, goal, recon, ticks>>
vars == <<store, journal, orders, pc, cur, call, attempt, goal, recon, ticks, crashes>>

-----------------------------------------------------------------------------
(* Records and reads of the store, the journal and the broker.             *)

NoRecord == [intent |-> None, state |-> "ABSENT", order_id |-> None, aged |-> FALSE]
NoRecon == [queue |-> {}, positions |-> {}, linked |-> {}, gated |-> FALSE]

Exists(e) == store[e].state # "ABSENT"
Active(e) == store[e].state \in States \ TERMINAL_STATES

recover_incomplete_SkipsPending ==
    {e \in Execs : Active(e) /\ store[e].state # "RECOVERY_PENDING"}
recover_incomplete == {e \in Execs : Active(e)}

find_active_by_identity_InFlightOnly(i) ==
    {e \in Execs : store[e].state = "SUBMISSION_PENDING" /\ store[e].intent = i}
find_active_by_identity(i) == {e \in Execs : Active(e) /\ store[e].intent = i}

get_broker_order_ids == {o \in OrderIds : journal[o] > 0}

get_positions == {o \in OrderIds : orders[o].status = "open"}

OrderKey(o) == KeyOf[store[orders[o].by].intent]

(* The open positions _find_unlinked_match may return for record e.        *)
find_unlinked_match(e) ==
    {o \in recon.positions \ recon.linked : OrderKey(o) = KeyOf[store[e].intent]}

(* ExecutionStateStore.transition on a legal target: every write renews    *)
(* updated_at, so the record is young again for the age gate.              *)
transition(e, target) == [store EXCEPT ![e].state = target, ![e].aged = FALSE]

(* TradeJournalDB.record_signal: a new row for order o. A failed insert is  *)
(* logged and swallowed, so the caller goes on without the row.            *)
record_signal(o) ==
    {[journal EXCEPT ![o] = @ + 1]} \cup (IF InsertsMayFail THEN {journal} ELSE {})

(* Bound on the number of place_order calls, kept where one is decided on. *)
OrderIdsLeft == \E o \in OrderIds : orders[o].status = "unused"

(* The locals of a call go out of scope when it returns or raises.         *)
LocalsGone == cur' = None /\ call' = None /\ attempt' = 1 /\ goal' = "COMPLETED"

past_age_gate_None(e) == TRUE
past_age_gate(e) == ~recon.gated \/ store[e].aged

-----------------------------------------------------------------------------
(* open_position and the caller's phase 6.                                 *)

(* Duplicate gate and create_record: a signal for intent i reaches         *)
(* open_position and no active record has its identity.                    *)
OpenNew(i, e) ==
    /\ pc = "tick"
    /\ find_active_by_identity(i) = {}
    /\ ~Exists(e)
    /\ OrderIdsLeft
    /\ store' = [store EXCEPT ![e] = [intent |-> i, state |-> "SIGNAL_RECEIVED",
                                      order_id |-> None, aged |-> FALSE]]
    /\ pc' = "prepare"
    /\ cur' = e
    /\ UNCHANGED <<journal, orders, call, attempt, goal, recon, ticks, crashes>>

(* Duplicate of an order the broker has acknowledged: open_position        *)
(* returns the old order id and the caller journals it as if just placed.  *)
(* (A duplicate without an order id is rejected and changes nothing.)      *)
OpenDuplicate(i, e) ==
    /\ pc = "tick"
    /\ e \in find_active_by_identity(i)
    /\ store[e].order_id # None
    /\ journal[store[e].order_id] < MaxRows
    /\ pc' = "acked"
    /\ cur' = e
    /\ UNCHANGED <<store, journal, orders, call, attempt, goal, recon, ticks, crashes>>

PreparedAfter(s) ==
    CASE s = "SIGNAL_RECEIVED" -> "GOVERNANCE_VALIDATED"
      [] s = "GOVERNANCE_VALIDATED" -> "PERMISSION_VALIDATED"
      [] s = "PERMISSION_VALIDATED" -> "RISK_APPROVED"
      [] OTHER -> "SUBMISSION_PENDING"

(* The four transitions that precede the first place_order.                *)
Prepare ==
    /\ pc = "prepare"
    /\ LET target == PreparedAfter(store[cur].state) IN
        /\ store' = transition(cur, target)
        /\ pc' = IF target = "SUBMISSION_PENDING" THEN "send" ELSE "prepare"
    /\ UNCHANGED <<journal, orders, cur, call, attempt, goal, recon, ticks, crashes>>

(* executor.place_order: the request leaves for the broker.                *)
Send(o) ==
    /\ pc = "send"
    /\ orders[o].status = "unused"
    /\ orders' = [orders EXCEPT ![o] = [status |-> "inflight", by |-> cur]]
    /\ call' = o
    /\ pc' = "wait"
    /\ UNCHANGED <<store, journal, cur, attempt, goal, recon, ticks, crashes>>

(* The broker's confirmation arrives and its id is recorded.               *)
Acknowledge ==
    /\ pc = "wait"
    /\ orders[call].status \in {"open", "closed"}
    /\ store' = [transition(cur, "BROKER_ACKNOWLEDGED") EXCEPT ![cur].order_id = call]
    /\ pc' = "acked"
    /\ call' = None /\ attempt' = 1
    /\ UNCHANGED <<journal, orders, cur, goal, recon, ticks, crashes>>

(* The error classes the retry loop tries again. "timeout" is also in      *)
(* retryable_errors: only the order of the tests in _classify_error keeps  *)
(* it out of this set.                                                     *)
Retryable_ListFirst == {"transient", "ambiguous"}
Retryable == {"transient"}

(* place_order raises an exception that _classify_error puts in class c.   *)
(* Unless the class may hide an executed order, the broker refused it.     *)
Raised(c) ==
    /\ pc = "wait"
    /\ c \in HidesFill \/ orders[call].status = "dropped"

(* Ambiguous: no retry, the record waits for reconciliation.               *)
FailAmbiguous ==
    /\ Raised("ambiguous")
    /\ store' = transition(cur, "RECOVERY_PENDING")
    /\ pc' = "tick"
    /\ LocalsGone
    /\ UNCHANGED <<journal, orders, recon, ticks, crashes>>

(* Transient with attempts left: SUBMISSION_PENDING again, back off, retry.*)
Retry ==
    /\ \E c \in Retryable : Raised(c)
    /\ attempt < ORDER_RETRY_ATTEMPTS
    /\ OrderIdsLeft
    /\ store' = transition(cur, "SUBMISSION_PENDING")
    /\ attempt' = attempt + 1
    /\ pc' = "send"
    /\ call' = None
    /\ UNCHANGED <<journal, orders, cur, goal, recon, ticks, crashes>>

(* Terminal, or transient on the last attempt.                             *)
FailTerminal ==
    /\ \/ Raised("terminal")
       \/ \E c \in Retryable : Raised(c) /\ attempt = ORDER_RETRY_ATTEMPTS
    /\ store' = transition(cur, "FAILED_TERMINAL")
    /\ pc' = "tick"
    /\ LocalsGone
    /\ UNCHANGED <<journal, orders, recon, ticks, crashes>>

(* journal_db.record_signal writes the OPEN row of the placed order.       *)
JournalOpen ==
    /\ pc = "acked"
    /\ journal' \in record_signal(store[cur].order_id)
    /\ goal' = "JOURNALED"
    /\ pc' = "mark"
    /\ UNCHANGED <<store, orders, cur, call, attempt, recon, ticks, crashes>>

(* journal.log_open or the telegram call raises first: the except branch   *)
(* reports an order error and goes on with the next signal.                *)
LogOpenFails ==
    /\ pc = "acked"
    /\ pc' = "tick"
    /\ LocalsGone
    /\ UNCHANGED <<store, journal, orders, recon, ticks, crashes>>

MarkAfter(s) == IF s = "JOURNALED" THEN "PROJECTED" ELSE "COMPLETED"

(* One of the three mark_execution_state calls. MarkFails: after a         *)
(* duplicate the record may be in a state from which the call is illegal;  *)
(* ValueError, the except branch, next signal.                             *)
Mark ==
    /\ pc = "mark"
    /\ CanTransition(store[cur].state, goal)
    /\ store' = transition(cur, goal)
    /\ IF goal = "COMPLETED"
       THEN pc' = "tick" /\ LocalsGone
       ELSE goal' = MarkAfter(goal) /\ UNCHANGED <<pc, cur, call, attempt>>
    /\ UNCHANGED <<journal, orders, recon, ticks, crashes>>

MarkFails ==
    /\ pc = "mark"
    /\ ~CanTransition(store[cur].state, goal)
    /\ pc' = "tick"
    /\ LocalsGone
    /\ UNCHANGED <<store, journal, orders, recon, ticks, crashes>>

-----------------------------------------------------------------------------
(* reconcile_pending_executions, at startup and every N ticks.             *)

tick_count == (ticks + 1) % RECONCILE_EVERY_N_TICKS

(* _tick returns; _should_run_periodic_reconciliation decides what next.   *)
EndTick ==
    /\ pc = "tick"
    /\ ticks' = tick_count
    /\ pc' = IF ticks' = 0 THEN "periodic" ELSE "tick"
    /\ UNCHANGED <<store, journal, orders, cur, call, attempt, goal, recon, crashes>>

(* The broker answers get_positions and the pass takes its snapshots.      *)
ReconStart ==
    /\ pc \in {"startup", "periodic"}
    /\ recon' = [queue |-> recover_incomplete, positions |-> get_positions,
                 linked |-> get_broker_order_ids, gated |-> pc = "periodic"]
    /\ pc' = "recon"
    /\ UNCHANGED <<store, journal, orders, cur, call, attempt, goal, ticks, crashes>>

(* get_positions raises: the pass is skipped.                              *)
ReconSkip ==
    /\ pc \in {"startup", "periodic"}
    /\ pc' = "tick"
    /\ UNCHANGED <<store, journal, orders, cur, call, attempt, goal, recon, ticks, crashes>>

(* Too young to judge without an order id: left for a later pass.          *)
ReconDefer(e) ==
    /\ pc = "recon"
    /\ e \in recon.queue
    /\ store[e].order_id = None
    /\ ~past_age_gate(e)
    /\ recon' = [recon EXCEPT !.queue = @ \ {e}]
    /\ UNCHANGED <<store, journal, orders, pc, cur, call, attempt, goal, ticks, crashes>>

(* The journal after the check that an order known by its id has a row.    *)
ensure_journaled_Never(o) == {journal}
ensure_journaled(o) == IF o \in recon.linked THEN {journal} ELSE record_signal(o)

(* linked_order_ids.add(outcome.broker_order_id), once e is dealt with.    *)
Claimed_NotLinked(e, o) == [recon EXCEPT !.queue = @ \ {e}]
Claimed(e, o) == [recon EXCEPT !.queue = @ \ {e}, !.linked = @ \cup {o}]

(* Order id known: make sure the journal has it, then complete the record. *)
ReconKnown(e) ==
    /\ pc = "recon"
    /\ e \in recon.queue
    /\ store[e].order_id # None
    /\ journal' \in ensure_journaled(store[e].order_id)
    /\ recon' = Claimed(e, store[e].order_id)
    /\ cur' = e
    /\ goal' = "COMPLETED"
    /\ pc' = "advance"
    /\ UNCHANGED <<store, orders, call, attempt, ticks, crashes>>

(* Order id unknown, an unlinked open position matches: backfill the       *)
(* journal; the id is attached to the record by the write after it.        *)
ReconAdopt(e, o) ==
    /\ pc = "recon"
    /\ e \in recon.queue
    /\ store[e].order_id = None
    /\ past_age_gate(e)
    /\ o \in find_unlinked_match(e)
    /\ journal' \in record_signal(o)
    /\ recon' = Claimed(e, o)
    /\ cur' = e
    /\ call' = o
    /\ goal' = "COMPLETED"
    /\ pc' = "attach"
    /\ UNCHANGED <<store, orders, attempt, ticks, crashes>>

Attach ==
    /\ pc = "attach"
    /\ store' = [transition(cur, store[cur].state) EXCEPT ![cur].order_id = call]
    /\ pc' = "advance"
    /\ call' = None
    /\ UNCHANGED <<journal, orders, cur, attempt, goal, recon, ticks, crashes>>

(* Order id unknown, nothing matches: the signal is given up.              *)
ReconLost(e) ==
    /\ pc = "recon"
    /\ e \in recon.queue
    /\ store[e].order_id = None
    /\ past_age_gate(e)
    /\ find_unlinked_match(e) = {}
    /\ recon' = [recon EXCEPT !.queue = @ \ {e}]
    /\ cur' = e
    /\ goal' = "FAILED_TERMINAL"
    /\ pc' = "advance"
    /\ UNCHANGED <<store, journal, orders, call, attempt, ticks, crashes>>

(* advance_to_terminal: one transition along a shortest path.              *)
Advance ==
    /\ pc = "advance"
    /\ \E s \in ShortestPathSteps(store[cur].state, goal) :
        /\ store' = transition(cur, s)
        /\ IF s = goal THEN pc' = "recon" /\ LocalsGone
                       ELSE UNCHANGED <<pc, cur, call, attempt, goal>>
    /\ UNCHANGED <<journal, orders, recon, ticks, crashes>>

ReconDone ==
    /\ pc = "recon"
    /\ recon.queue = {}
    /\ recon' = NoRecon
    /\ pc' = "tick"
    /\ UNCHANGED <<store, journal, orders, cur, call, attempt, goal, ticks, crashes>>

-----------------------------------------------------------------------------
(* The environment: broker, clock, process supervisor.                     *)

(* No order of record e is still on its way to the broker.                 *)
Settled(e) == \A o \in OrderIds : orders[o].by = e => orders[o].status # "inflight"

BrokerExecutes(o) ==
    /\ orders[o].status = "inflight"
    /\ orders' = [orders EXCEPT ![o].status = "open"]
    /\ UNCHANGED <<store, journal, volatile, crashes>>

BrokerDrops(o) ==
    /\ orders[o].status = "inflight"
    /\ orders' = [orders EXCEPT ![o].status = "dropped"]
    /\ UNCHANGED <<store, journal, volatile, crashes>>

BrokerCloses(o) ==
    /\ orders[o].status = "open"
    /\ orders' = [orders EXCEPT ![o].status = "closed"]
    /\ UNCHANGED <<store, journal, volatile, crashes>>

(* RECONCILE_MIN_PENDING_AGE_S pass without a write to the record, whose   *)
(* age only matters as long as it has no order id. The gate reads the      *)
(* clock when the pass gets to the record, so this may fall between the    *)
(* broker's answer and the check.                                          *)
InPass == pc \in {"recon", "attach", "advance"}

Age(e) ==
    /\ Active(e) /\ store[e].order_id = None /\ ~store[e].aged
    /\ BoundedFlight => Settled(e)
    /\ ShortPass /\ InPass =>
          \A o \in get_positions : orders[o].by = e => o \in recon.positions
    /\ store' = [store EXCEPT ![e].aged = TRUE]
    /\ UNCHANGED <<journal, orders, volatile, crashes>>

Crash ==
    /\ pc # "down"
    /\ crashes < MaxCrashes
    /\ crashes' = crashes + 1
    /\ pc' = "down"
    /\ LocalsGone
    /\ recon' = NoRecon /\ ticks' = 0
    /\ UNCHANGED <<store, journal, orders>>

Restart ==
    /\ pc = "down"
    /\ BoundedFlight => \A e \in Execs : Settled(e)
    /\ pc' = "startup"
    /\ UNCHANGED <<store, journal, orders, cur, call, attempt, goal, recon, ticks, crashes>>

-----------------------------------------------------------------------------
Init ==
    /\ store = [e \in Execs |-> NoRecord]
    /\ journal = [o \in OrderIds |-> 0]
    /\ orders = [o \in OrderIds |-> [status |-> "unused", by |-> None]]
    /\ pc = "startup"
    /\ cur = None /\ call = None /\ attempt = 1 /\ goal = "COMPLETED"
    /\ recon = NoRecon
    /\ ticks = 0
    /\ crashes = 0

Submission ==
    \/ \E i \in Intents, e \in Execs : OpenNew(i, e) \/ OpenDuplicate(i, e)
    \/ Prepare
    \/ \E o \in OrderIds : Send(o)
    \/ Acknowledge \/ FailAmbiguous \/ Retry \/ FailTerminal
    \/ JournalOpen \/ LogOpenFails \/ Mark \/ MarkFails

Reconciliation ==
    \/ EndTick \/ ReconStart \/ ReconSkip
    \/ \E e \in Execs :
        \/ ReconDefer(e) \/ ReconKnown(e) \/ ReconLost(e)
        \/ \E o \in OrderIds : ReconAdopt(e, o)
    \/ Attach \/ Advance \/ ReconDone

Environment ==
    \/ \E o \in OrderIds : BrokerExecutes(o) \/ BrokerDrops(o) \/ BrokerCloses(o)
    \/ \E e \in Execs : Age(e)
    \/ Crash \/ Restart

Next == Submission \/ Reconciliation \/ Environment

Spec == Init /\ [][Next]_vars
-----------------------------------------------------------------------------
(* Properties.                                                             *)

Ids == OrderIds \cup {None}
PcValues == {"down", "startup", "periodic", "tick", "prepare", "send", "wait",
             "acked", "mark", "recon", "attach", "advance"}

(* Every variable has its type.                                            *)
TypeOK ==
    /\ store \in [Execs -> [intent : Intents \cup {None}, state : States \cup {"ABSENT"},
                            order_id : Ids, aged : BOOLEAN]]
    /\ journal \in [OrderIds -> Nat]
    /\ orders \in [OrderIds -> [status : {"unused", "inflight", "open", "closed", "dropped"},
                                by : Execs \cup {None}]]
    /\ pc \in PcValues
    /\ cur \in Execs \cup {None}
    /\ call \in Ids
    /\ attempt \in 1..ORDER_RETRY_ATTEMPTS
    /\ goal \in {"JOURNALED", "PROJECTED", "COMPLETED", "FAILED_TERMINAL"}
    /\ recon \in [queue : SUBSET Execs, positions : SUBSET OrderIds,
                  linked : SUBSET OrderIds, gated : BOOLEAN]
    /\ ticks \in 0..(RECONCILE_EVERY_N_TICKS - 1)
    /\ crashes \in 0..MaxCrashes

(* The duplicate-order gate works across crashes and restarts: there are   *)
(* never two non-terminal records for one intent identity.                 *)
OneActivePerIntent ==
    \A e, f \in Execs :
        Active(e) /\ Active(f) /\ store[e].intent = store[f].intent => e = f

(* Wherever a crash or an exception leaves a record, the pass that finds   *)
(* it can finish it: advance_to_terminal has a path to COMPLETED if the    *)
(* order id is known and to FAILED_TERMINAL if not, so it never raises     *)
(* "no valid transition path".                                             *)
IncompleteIsRecoverable ==
    \A e \in Execs : Active(e) =>
        Reaches(store[e].state,
                IF store[e].order_id = None THEN "FAILED_TERMINAL" ELSE "COMPLETED")

(* A record is COMPLETED only when the journal has a row with its order    *)
(* id, the row by which close detection finds the trade later.             *)
CompletedIsJournaled ==
    \A e \in Execs : store[e].state = "COMPLETED" =>
        store[e].order_id \in get_broker_order_ids

(* No open position is forgotten: as many records are still incomplete on  *)
(* a market as there are open positions on it that the journal does not    *)
(* know, so that every one of those has a record whose pass adopts it.     *)
(* Records of one market are told apart only by their order ids, so one    *)
(* may have been given the order that another was acknowledged: each order *)
(* two records ended up with leaves one position at most that nobody looks *)
(* for.                                                                    *)
HasKey(e, k) == Exists(e) /\ KeyOf[store[e].intent] = k

Doubled(k) ==
    {o \in OrderIds : \E e, f \in Execs : /\ e # f /\ HasKey(e, k) /\ HasKey(f, k)
                                         /\ store[e].order_id = o /\ store[f].order_id = o}

NoForgottenPosition ==
    \A i \in Intents :
        LET k == KeyOf[i]
            unknown == {o \in get_positions \ get_broker_order_ids : OrderKey(o) = k}
            looking == {e \in recover_incomplete : HasKey(e, k)}
        IN  Cardinality(unknown) <= Cardinality(looking) + Cardinality(Doubled(k))

(* The retry loop does not place a second order for a record while an      *)
(* earlier one is, or may still be, executed.                              *)
OneFillPerRecord ==
    \A o, p \in OrderIds :
        /\ orders[o].by = orders[p].by
        /\ orders[o].status \in {"inflight", "open", "closed"}
        /\ orders[p].status \in {"inflight", "open", "closed"}
        => o = p

(* The order that recovery gives to a record without one is not the order  *)
(* of a record that is finished, whatever passes, crashes and adoptions    *)
(* came before on that market.                                             *)
RecoveredOrderIsFree ==
    [][\A e \in Execs : pc = "attach" /\ store[e].order_id = None /\ store'[e].order_id # None
          => \A f \in Execs : store[f].order_id = store'[e].order_id => Active(f)]_vars

(* No transition() call made while submitting or reconciling is illegal:   *)
(* every state change of a record is in _ALLOWED_TRANSITIONS, terminal     *)
(* records are never touched again, and an order id is never replaced.     *)
LegalRecordSteps ==
    [][\A e \in Execs : Exists(e) /\ store'[e] # store[e] =>
        /\ CanTransition(store[e].state, store'[e].state)
        /\ store[e].state \notin TERMINAL_STATES
        /\ store'[e].intent = store[e].intent
        /\ store[e].order_id \in {None, store'[e].order_id}]_vars

(* Reconciliation is idempotent: a pass adds a journal row only for an     *)
(* order that has none, however often it is interrupted and run again.     *)
RecoveryJournalsOnce ==
    [][pc = "recon" => \A o \in OrderIds : journal'[o] = journal[o] \/ journal[o] = 0]_vars

-----------------------------------------------------------------------------
(* Fairness: the runner's loop goes on (its own steps and the supervisor's *)
(* restart), a tick handles finitely many signals, the broker settles what *)
(* it was sent, time passes, and the broker does not fail every single     *)
(* get_positions of the passes.                                            *)
RunnerStep ==
    \/ Prepare \/ (\E o \in OrderIds : Send(o)) \/ Acknowledge \/ FailAmbiguous
    \/ FailTerminal \/ JournalOpen \/ Mark \/ MarkFails \/ EndTick
    \/ (\E e \in Execs : ReconDefer(e) \/ ReconKnown(e) \/ ReconLost(e))
    \/ (\E e \in Execs, o \in OrderIds : ReconAdopt(e, o))
    \/ Attach \/ Advance \/ ReconDone \/ Restart

Fairness ==
    /\ WF_vars(RunnerStep)
    /\ SF_vars(EndTick)
    /\ SF_vars(ReconStart)
    /\ \A o \in OrderIds : WF_vars(BrokerExecutes(o) \/ BrokerDrops(o))
    /\ \A e \in Execs : SF_vars(Age(e))

FairSpec == Spec /\ Fairness

(* Every record eventually reaches a terminal state, whatever crashed or   *)
(* timed out: no intent stays blocked by the duplicate gate for good.      *)
EveryRecordResolved ==
    \A e \in Execs : Exists(e) ~> store[e].state \in TERMINAL_STATES

-----------------------------------------------------------------------------
(* The inductive invariant behind the safety properties.                   *)

(* The orders the journal has a row of, as far as its inserts can be        *)
(* relied on.                                                              *)
KnownOrders == IF InsertsMayFail THEN OrderIds ELSE get_broker_order_ids

CompletedIsKnown ==
    \A e \in Execs : store[e].state = "COMPLETED" => store[e].order_id \in KnownOrders

(* Steps that write a record write one that is active.                     *)
WorkingOnActive ==
    pc \in {"prepare", "send", "wait", "acked", "mark", "attach", "advance"} =>
        cur \in Execs /\ Active(cur)

(* What is known of the record where the runner is.                        *)
RecordFitsPc ==
    /\ pc = "prepare" => /\ store[cur].state \in {"SIGNAL_RECEIVED", "GOVERNANCE_VALIDATED",
                                                   "PERMISSION_VALIDATED", "RISK_APPROVED"}
                         /\ store[cur].order_id = None
    /\ pc \in {"send", "wait"} => /\ store[cur].state = "SUBMISSION_PENDING"
                                  /\ store[cur].order_id = None
    /\ pc = "wait" => call \in OrderIds
    /\ pc = "acked" => store[cur].order_id \in OrderIds
    /\ pc = "mark" => /\ store[cur].order_id \in KnownOrders
                      /\ goal # "FAILED_TERMINAL"
    /\ pc = "attach" => /\ store[cur].order_id = None
                        /\ call \in KnownOrders
                        /\ goal = "COMPLETED"
    /\ pc = "advance" => /\ goal \in TERMINAL_STATES
                         /\ goal = "COMPLETED" => store[cur].order_id \in KnownOrders

(* What is known of a reconciliation pass: the records still to be dealt   *)
(* with are active, the one being dealt with is not among them, and what   *)
(* the pass takes for linked is in the journal.                            *)
PassIsCurrent ==
    /\ pc \in {"recon", "attach", "advance"} => \A e \in recon.queue : Active(e)
    /\ pc \in {"attach", "advance"} => cur \notin recon.queue
    /\ recon.linked \subseteq KnownOrders

(* What the broker has of a record where the runner is: nothing of one     *)
(* that does not exist, only dropped orders when another may be sent, and  *)
(* beside the call being awaited. It makes OneFillPerRecord inductive.     *)
SentBy(e) == {o \in OrderIds : orders[o].by = e}
AllDropped(S) == \A o \in S : orders[o].status = "dropped"

OrdersFitPc ==
    /\ \A o \in OrderIds : orders[o].by = None => orders[o].status = "unused"
    /\ \A e \in Execs : ~Exists(e) => SentBy(e) = {}
    /\ pc \in {"prepare", "send"} => AllDropped(SentBy(cur))
    /\ pc = "wait" => call \in SentBy(cur) /\ AllDropped(SentBy(cur) \ {call})
    /\ OneFillPerRecord

(* What makes RecoveredOrderIsFree inductive, where inserts succeed: what  *)
(* the journal has, a pass takes for linked; a finished record with an     *)
(* order is a completed one; what a pass adopts is of no finished record.  *)
LinkedIsComplete ==
    InPass => \A o \in OrderIds : journal[o] > 0 => o \in recon.linked

FinishedIsCompleted ==
    /\ \A e \in Execs : store[e].order_id # None => Active(e) \/ store[e].state = "COMPLETED"
    /\ pc = "advance" /\ goal = "FAILED_TERMINAL" => store[cur].order_id = None

AdoptedIsFree == pc = "attach" => \A f \in Execs : store[f].order_id = call => Active(f)

(* What makes NoForgottenPosition inductive, where only ambiguous errors   *)
(* hide a fill, inserts succeed, and flights and passes are short enough.  *)
Alive(o) == orders[o].status \in {"inflight", "open"}

(* The orders on market k that only a record without an order id can find, *)
(* and those records.                                                      *)
Orphans(k) ==
    {o \in OrderIds : /\ Alive(o) \/ (InPass /\ o \in recon.positions)
                      /\ OrderKey(o) = k
                      /\ o \notin get_broker_order_ids
                      /\ \A e \in Execs : store[e].order_id # o}
Idless(k) == {e \in recover_incomplete : HasKey(e, k) /\ store[e].order_id = None}

(* The orders of a record are of its market, and an order id the journal   *)
(* does not know is with the record that was acknowledged.                 *)
Sent(o) == orders[o].status # "unused"

OrdersFitRecords ==
    /\ \A e \in Execs : Exists(e) => store[e].intent \in Intents
    /\ InPass => \A o \in recon.positions : Sent(o)
    /\ \A e \in Execs : store[e].order_id # None =>
          /\ Sent(store[e].order_id)
          /\ OrderKey(store[e].order_id) = KeyOf[store[e].intent]
          /\ store[e].order_id \in get_broker_order_ids \/ orders[store[e].order_id].by = e
    /\ pc = "attach" =>
          /\ Sent(call) /\ OrderKey(call) = KeyOf[store[cur].intent]
          /\ \A f \in Execs : store[f].order_id = call => orders[call].by = f

(* Nothing is in flight that a pass judges as lost or not.                 *)
JudgedIsSettled ==
    /\ \A e \in Execs : Settled(e) \/ (Active(e) /\ store[e].order_id = None)
    /\ \A e \in Execs : store[e].aged => Settled(e) \/ pc = "down" \/ (pc = "wait" /\ e = cur)
    /\ pc = "startup" \/ (InPass /\ ~recon.gated) => \A e \in Execs : Settled(e)
    /\ pc \in {"attach", "advance"} => Settled(cur)

(* An order that came too late for the snapshot of the pass is of a record *)
(* the pass does not judge yet.                                            *)
LateIsWaiting ==
    InPass => \A o \in OrderIds : Alive(o) /\ o \notin recon.positions =>
        LET e == orders[o].by
        IN  /\ recon.gated /\ Active(e) /\ ~store[e].aged
            /\ store[e].order_id = None
            /\ pc # "recon" => e # cur

(* Every orphan has a record that can find it, one record for each, not    *)
(* counting one that has just been sent or judged.                         *)
SoughtBy(S, E, k) == Cardinality(S) <= Cardinality(E) + Cardinality(Doubled(k))

OrphansAreSought ==
    \A i \in Intents :
        LET k == KeyOf[i]
        IN  /\ SoughtBy(Orphans(k), Idless(k), k)
            /\ pc \in {"prepare", "send"} => SoughtBy(Orphans(k), Idless(k) \ {cur}, k)
            /\ pc = "wait" => SoughtBy(Orphans(k) \ {call}, Idless(k) \ {cur}, k)
            /\ pc = "attach" /\ (\A f \in Execs : store[f].order_id # call) =>
                  SoughtBy(Orphans(k), Idless(k) \ {cur}, k)
            /\ pc = "advance" /\ goal = "FAILED_TERMINAL" =>
                  SoughtBy(Orphans(k), Idless(k) \ {cur}, k)

PositionInv ==
    /\ FinishedIsCompleted /\ LinkedIsComplete
    /\ OrdersFitRecords /\ JudgedIsSettled /\ LateIsWaiting /\ OrphansAreSought

(* The inductive invariant: the safety properties that the proofs derive   *)
(* from it, and the facts about where the runner is that make it inductive.*)
IInv ==
    /\ TypeOK
    /\ OneActivePerIntent
    /\ CompletedIsKnown
    /\ WorkingOnActive
    /\ RecordFitsPc
    /\ PassIsCurrent

(* The records and the journal seen as the ledger of ExecutionLedger.      *)
OutcomeOf(e) ==
    CASE store[e].state = "ABSENT" -> "none"
      [] store[e].state = "COMPLETED" -> "opened"
      [] store[e].state \in TERMINAL_STATES \ {"COMPLETED"} -> "lost"
      [] OTHER -> "pending"

Ledger == INSTANCE ExecutionLedger WITH
    outcome <- [e \in Execs |-> OutcomeOf(e)],
    intent  <- [e \in Execs |-> store[e].intent],
    order   <- [e \in Execs |-> IF store[e].state = "COMPLETED" THEN store[e].order_id ELSE None],
    ledger  <- get_broker_order_ids

(* Submission, retries, crashes and reconciliation implement the ledger:   *)
(* every step of theirs is one step of it or none.                         *)
ImplementsLedger == Ledger!LedgerSpec
=============================================================================
