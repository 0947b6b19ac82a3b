------------------------ MODULE OrderExecutionProofs ------------------------
(***************************************************************************)
(* Proofs about OrderExecution, for every set of intents, executions and   *)
(* orders, every number of retries, crashes and journal rows, and every    *)
(* behaviour of the broker and the clock (HidesFill, BoundedFlight and      *)
(* ShortPass arbitrary), unless a theorem assumes something of them.       *)
(***************************************************************************)
EXTENDS OrderExecution, FiniteSetTheorems, TLAPS

RecordType == [intent : Intents \cup {None}, state : States \cup {"ABSENT"},
               order_id : Ids, aged : BOOLEAN]

-----------------------------------------------------------------------------
(* Lemmas about the journal.                                               *)

(* One more row for an order makes it known to the journal, and no other.  *)
LEMMA JournalRow ==
    ASSUME TypeOK, NEW o \in OrderIds, journal' = [journal EXCEPT ![o] = @ + 1]
    PROVE  /\ journal' \in [OrderIds -> Nat]
           /\ get_broker_order_ids' = get_broker_order_ids \cup {o}
<1>1. journal \in [OrderIds -> Nat] /\ journal' \in [OrderIds -> Nat]
  BY DEF TypeOK
<1>2. \A p \in OrderIds : journal'[p] > 0 <=> journal[p] > 0 \/ p = o
  BY <1>1
<1> QED BY <1>1, <1>2 DEF get_broker_order_ids

(* What is known of the orders depends on the journal alone.               *)
LEMMA KnownUnchanged == ASSUME UNCHANGED journal PROVE KnownOrders' = KnownOrders
BY DEF KnownOrders, get_broker_order_ids

(* Only orders are known.                                                 *)
LEMMA KnownAreOrders == KnownOrders \subseteq OrderIds
BY DEF KnownOrders, get_broker_order_ids

(* After record_signal(o) the order is known: the row is there, or inserts *)
(* cannot be relied on anyway.                                             *)
LEMMA RecordSignal ==
    ASSUME TypeOK, NEW o \in OrderIds, journal' \in record_signal(o)
    PROVE  /\ journal' \in [OrderIds -> Nat]
           /\ KnownOrders' = KnownOrders \cup {o}
<1>1. CASE journal' = [journal EXCEPT ![o] = @ + 1]
  BY <1>1, JournalRow DEF KnownOrders
<1>2. CASE InsertsMayFail /\ UNCHANGED journal
  BY <1>2 DEF KnownOrders, TypeOK
<1> QED BY <1>1, <1>2 DEF record_signal

-----------------------------------------------------------------------------
(* Lemmas about the state machine of a record.                             *)

(* transition() has targets only among the states, and none from a         *)
(* terminal state (_ALLOWED_TRANSITIONS maps those to the empty set).      *)
LEMMA AllowedIsState ==
    ASSUME NEW s
    PROVE  /\ ALLOWED_TRANSITIONS(s) \subseteq States
           /\ s \in TERMINAL_STATES => ALLOWED_TRANSITIONS(s) = {}
BY DEF ALLOWED_TRANSITIONS, States, TERMINAL_STATES

(* A state on a shortest path is a legal step, and terminal only if it is  *)
(* the end of the path: advance_to_terminal cannot overshoot.              *)
LEMMA StepOfPath ==
    ASSUME NEW s, NEW terminal, NEW t \in ShortestPathSteps(s, terminal)
    PROVE  /\ t \in ALLOWED_TRANSITIONS(s)
           /\ t \in States
           /\ t \in TERMINAL_STATES => t = terminal
BY AllowedIsState DEF ShortestPathSteps

(* What one transition() writes: the state and the age of its record.      *)
LEMMA TransitionEffect ==
    ASSUME TypeOK, NEW e \in Execs, NEW s \in States, store' = transition(e, s)
    PROVE  /\ store' \in [Execs -> RecordType]
           /\ store'[e] = [store[e] EXCEPT !.state = s, !.aged = FALSE]
           /\ store'[e].state = s
           /\ store'[e].order_id = store[e].order_id
           /\ store'[e].intent = store[e].intent
           /\ \A f \in Execs \ {e} : store'[f] = store[f]
BY DEF TypeOK, RecordType, transition

(* What any transition() of the record the runner works on keeps, if it    *)
(* completes the record only when the journal has its order.               *)
LEMMA TransitionKeeps ==
    ASSUME IInv, cur \in Execs, Active(cur),
           NEW s \in States, store' = transition(cur, s), UNCHANGED <<journal, recon>>,
           s = "COMPLETED" => store[cur].order_id \in KnownOrders
    PROVE  /\ store' \in [Execs -> RecordType]
           /\ store'[cur].state = s
           /\ store'[cur].order_id = store[cur].order_id
           /\ \A f \in Execs \ {cur} : store'[f] = store[f]
           /\ KnownOrders' = KnownOrders
           /\ OneActivePerIntent' /\ CompletedIsKnown'
<1> USE DEF IInv
<1>1. /\ store' \in [Execs -> RecordType]
      /\ store'[cur].state = s
      /\ store'[cur].order_id = store[cur].order_id
      /\ store'[cur].intent = store[cur].intent
      /\ \A f \in Execs \ {cur} : store'[f] = store[f]
  BY TransitionEffect
<1>2. KnownOrders' = KnownOrders
  BY KnownUnchanged
<1>3. OneActivePerIntent'
  <2>1. \A f \in Execs : Active(f)' => Active(f)
    BY <1>1 DEF Active
  <2>2. \A f \in Execs : store'[f].intent = store[f].intent
    BY <1>1
  <2> QED BY <2>1, <2>2 DEF OneActivePerIntent
<1>4. CompletedIsKnown'
  BY <1>1, <1>2 DEF CompletedIsKnown
<1> QED BY <1>1, <1>2, <1>3, <1>4

-----------------------------------------------------------------------------
(* The inductive invariant.                                                *)

(* The runner starts in a state of the invariant.                          *)
LEMMA InitIInv == Init => IInv
BY ConstantsAssumption DEF Init, IInv, TypeOK, OneActivePerIntent, CompletedIsKnown,
   WorkingOnActive, RecordFitsPc, PassIsCurrent, NoRecord, NoRecon, Active,
   Ids, PcValues, States, TERMINAL_STATES

(* The transitions before the first place_order keep the invariant.        *)
LEMMA PrepareInv == ASSUME IInv, Prepare PROVE IInv'
<1> USE ConstantsAssumption DEF IInv, Prepare, PreparedAfter
<1>1. cur \in Execs /\ Active(cur)
  BY DEF WorkingOnActive
<1>2. PICK s \in States :
        /\ store' = transition(cur, s)
        /\ s = PreparedAfter(store[cur].state)
  BY DEF States
<1>3. s = "COMPLETED" => store[cur].order_id \in KnownOrders
  BY <1>2 DEF RecordFitsPc, TERMINAL_STATES
<1>4. /\ store' \in [Execs -> RecordType]
      /\ store'[cur].state = s
      /\ store'[cur].order_id = store[cur].order_id
      /\ \A f \in Execs \ {cur} : store'[f] = store[f]
      /\ KnownOrders' = KnownOrders
      /\ OneActivePerIntent' /\ CompletedIsKnown'
  BY <1>1, <1>2, <1>3, TransitionKeeps
<1>5. TypeOK'
  BY <1>4 DEF TypeOK, RecordType, Ids, PcValues
<1>6. WorkingOnActive'
  BY <1>1, <1>2, <1>4 DEF WorkingOnActive, RecordFitsPc, Active, TypeOK, TERMINAL_STATES
<1>7. RecordFitsPc'
  BY <1>1, <1>2, <1>4 DEF RecordFitsPc
<1>8. PassIsCurrent'
  BY <1>1, <1>2, <1>4 DEF PassIsCurrent, Active, TypeOK
<1> QED BY <1>4, <1>5, <1>6, <1>7, <1>8

(* So does parking a record whose submission had an ambiguous outcome,     *)
LEMMA FailAmbiguousInv == ASSUME IInv, FailAmbiguous PROVE IInv'
<1> USE ConstantsAssumption DEF IInv, FailAmbiguous, Raised, LocalsGone
<1>1. cur \in Execs /\ Active(cur)
  BY DEF WorkingOnActive
<1>2. PICK s \in States :
        /\ store' = transition(cur, s)
        /\ s = "RECOVERY_PENDING"
  BY DEF States
<1>3. s = "COMPLETED" => store[cur].order_id \in KnownOrders
  BY <1>2 DEF RecordFitsPc, TERMINAL_STATES
<1>4. /\ store' \in [Execs -> RecordType]
      /\ store'[cur].state = s
      /\ store'[cur].order_id = store[cur].order_id
      /\ \A f \in Execs \ {cur} : store'[f] = store[f]
      /\ KnownOrders' = KnownOrders
      /\ OneActivePerIntent' /\ CompletedIsKnown'
  BY <1>1, <1>2, <1>3, TransitionKeeps
<1>5. TypeOK'
  BY <1>4 DEF TypeOK, RecordType, Ids, PcValues
<1>6. WorkingOnActive'
  BY <1>1, <1>2, <1>4 DEF WorkingOnActive, RecordFitsPc, Active, TypeOK, TERMINAL_STATES
<1>7. RecordFitsPc'
  BY <1>1, <1>2, <1>4 DEF RecordFitsPc
<1>8. PassIsCurrent'
  BY <1>1, <1>2, <1>4 DEF PassIsCurrent, Active, TypeOK
<1> QED BY <1>4, <1>5, <1>6, <1>7, <1>8

(* so does trying a transient failure again,                               *)
LEMMA RetryInv == ASSUME IInv, Retry PROVE IInv'
<1> USE ConstantsAssumption DEF IInv, Retry, Raised
<1>1. cur \in Execs /\ Active(cur)
  BY DEF WorkingOnActive
<1>2. PICK s \in States :
        /\ store' = transition(cur, s)
        /\ s = "SUBMISSION_PENDING"
  BY DEF States
<1>3. s = "COMPLETED" => store[cur].order_id \in KnownOrders
  BY <1>2 DEF RecordFitsPc, TERMINAL_STATES
<1>4. /\ store' \in [Execs -> RecordType]
      /\ store'[cur].state = s
      /\ store'[cur].order_id = store[cur].order_id
      /\ \A f \in Execs \ {cur} : store'[f] = store[f]
      /\ KnownOrders' = KnownOrders
      /\ OneActivePerIntent' /\ CompletedIsKnown'
  BY <1>1, <1>2, <1>3, TransitionKeeps
<1>5. TypeOK'
  BY <1>4 DEF TypeOK, RecordType, Ids, PcValues
<1>6. WorkingOnActive'
  BY <1>1, <1>2, <1>4 DEF WorkingOnActive, RecordFitsPc, Active, TypeOK, TERMINAL_STATES
<1>7. RecordFitsPc'
  BY <1>1, <1>2, <1>4 DEF RecordFitsPc
<1>8. PassIsCurrent'
  BY <1>1, <1>2, <1>4 DEF PassIsCurrent, Active, TypeOK
<1> QED BY <1>4, <1>5, <1>6, <1>7, <1>8

(* so does giving up,                                                      *)
LEMMA FailTerminalInv == ASSUME IInv, FailTerminal PROVE IInv'
<1> USE ConstantsAssumption DEF IInv, FailTerminal, Raised, LocalsGone
<1>1. cur \in Execs /\ Active(cur)
  BY DEF WorkingOnActive
<1>2. PICK s \in States :
        /\ store' = transition(cur, s)
        /\ s = "FAILED_TERMINAL"
  BY DEF States, TERMINAL_STATES
<1>3. s = "COMPLETED" => store[cur].order_id \in KnownOrders
  BY <1>2 DEF RecordFitsPc, TERMINAL_STATES
<1>4. /\ store' \in [Execs -> RecordType]
      /\ store'[cur].state = s
      /\ store'[cur].order_id = store[cur].order_id
      /\ \A f \in Execs \ {cur} : store'[f] = store[f]
      /\ KnownOrders' = KnownOrders
      /\ OneActivePerIntent' /\ CompletedIsKnown'
  BY <1>1, <1>2, <1>3, TransitionKeeps
<1>5. TypeOK'
  BY <1>4 DEF TypeOK, RecordType, Ids, PcValues
<1>6. WorkingOnActive'
  BY <1>1, <1>2, <1>4 DEF WorkingOnActive, RecordFitsPc, Active, TypeOK, TERMINAL_STATES
<1>7. RecordFitsPc'
  BY <1>1, <1>2, <1>4 DEF RecordFitsPc
<1>8. PassIsCurrent'
  BY <1>1, <1>2, <1>4 DEF PassIsCurrent, Active, TypeOK
<1> QED BY <1>4, <1>5, <1>6, <1>7, <1>8

(* so does each mark_execution_state call after the journal write,         *)
LEMMA MarkInv == ASSUME IInv, Mark PROVE IInv'
<1> USE ConstantsAssumption DEF IInv, Mark, MarkAfter, LocalsGone
<1>1. cur \in Execs /\ Active(cur)
  BY DEF WorkingOnActive
<1>2. PICK s \in States :
        /\ store' = transition(cur, s)
        /\ s = goal
  BY DEF TypeOK, States, TERMINAL_STATES
<1>3. s = "COMPLETED" => store[cur].order_id \in KnownOrders
  BY <1>2 DEF RecordFitsPc, TERMINAL_STATES
<1>4. /\ store' \in [Execs -> RecordType]
      /\ store'[cur].state = s
      /\ store'[cur].order_id = store[cur].order_id
      /\ \A f \in Execs \ {cur} : store'[f] = store[f]
      /\ KnownOrders' = KnownOrders
      /\ OneActivePerIntent' /\ CompletedIsKnown'
  BY <1>1, <1>2, <1>3, TransitionKeeps
<1>5. TypeOK'
  BY <1>4 DEF TypeOK, RecordType, Ids, PcValues
<1>6. WorkingOnActive'
  BY <1>1, <1>2, <1>4 DEF WorkingOnActive, RecordFitsPc, Active, TypeOK, TERMINAL_STATES
<1>7. RecordFitsPc'
  BY <1>1, <1>2, <1>4 DEF RecordFitsPc
<1>8. PassIsCurrent'
  BY <1>1, <1>2, <1>4 DEF PassIsCurrent, Active, TypeOK
<1> QED BY <1>4, <1>5, <1>6, <1>7, <1>8

(* and so does each transition of advance_to_terminal.                     *)
LEMMA AdvanceInv == ASSUME IInv, Advance PROVE IInv'
<1> USE ConstantsAssumption DEF IInv, Advance, LocalsGone
<1>1. cur \in Execs /\ Active(cur)
  BY DEF WorkingOnActive
<1>2. PICK s \in States :
        /\ store' = transition(cur, s)
        /\ (s \in TERMINAL_STATES => s = goal) /\ (s = goal => pc' = "recon")
  BY StepOfPath
<1>3. s = "COMPLETED" => store[cur].order_id \in KnownOrders
  BY <1>2 DEF RecordFitsPc, TERMINAL_STATES
<1>4. /\ store' \in [Execs -> RecordType]
      /\ store'[cur].state = s
      /\ store'[cur].order_id = store[cur].order_id
      /\ \A f \in Execs \ {cur} : store'[f] = store[f]
      /\ KnownOrders' = KnownOrders
      /\ OneActivePerIntent' /\ CompletedIsKnown'
  BY <1>1, <1>2, <1>3, TransitionKeeps
<1>5. TypeOK'
  BY <1>4 DEF TypeOK, RecordType, Ids, PcValues
<1>6. WorkingOnActive'
  BY <1>1, <1>2, <1>4 DEF WorkingOnActive, RecordFitsPc, Active, TypeOK, TERMINAL_STATES
<1>7. RecordFitsPc'
  BY <1>1, <1>2, <1>4 DEF RecordFitsPc
<1>8. PassIsCurrent'
  BY <1>1, <1>2, <1>4 DEF PassIsCurrent, Active, TypeOK
<1> QED BY <1>4, <1>5, <1>6, <1>7, <1>8

(* A pass that knows the order id journals it before it completes the      *)
(* record.                                                                 *)
LEMMA ReconKnownInv == ASSUME IInv, NEW e \in Execs, ReconKnown(e) PROVE IInv'
<1> USE ConstantsAssumption DEF IInv, ReconKnown, ensure_journaled, Claimed
<1>1. store[e].order_id \in OrderIds /\ Active(e)
  BY DEF TypeOK, Ids, PassIsCurrent
<1>2. /\ journal' \in [OrderIds -> Nat]
      /\ KnownOrders' = KnownOrders \cup {store[e].order_id}
  <2>1. CASE store[e].order_id \in recon.linked
    BY <2>1, KnownUnchanged DEF TypeOK, PassIsCurrent
  <2>2. CASE store[e].order_id \notin recon.linked
    BY <1>1, <2>2, RecordSignal
  <2> QED BY <2>1, <2>2
<1>3. recon' \in [queue : SUBSET Execs, positions : SUBSET OrderIds,
                  linked : SUBSET OrderIds, gated : BOOLEAN]
  BY <1>1 DEF TypeOK
<1>4. TypeOK'
  BY <1>2, <1>3 DEF TypeOK, PcValues
<1>5. OneActivePerIntent' /\ CompletedIsKnown'
  BY <1>2 DEF OneActivePerIntent, CompletedIsKnown, Active
<1>6. WorkingOnActive' /\ RecordFitsPc'
  BY <1>1, <1>2 DEF WorkingOnActive, RecordFitsPc, Active, TERMINAL_STATES
<1>7. PassIsCurrent'
  BY <1>2 DEF PassIsCurrent, TypeOK, Active
<1> QED BY <1>4, <1>5, <1>6, <1>7

(* A pass that adopts an open position journals it before it attaches its  *)
(* id to the record.                                                       *)
LEMMA ReconAdoptInv ==
    ASSUME IInv, NEW e \in Execs, NEW o \in OrderIds, ReconAdopt(e, o)
    PROVE  IInv'
<1> USE ConstantsAssumption DEF IInv, ReconAdopt, Claimed
<1>1. Active(e)
  BY DEF PassIsCurrent
<1>2. /\ journal' \in [OrderIds -> Nat]
      /\ KnownOrders' = KnownOrders \cup {o}
  BY RecordSignal
<1>3. recon' \in [queue : SUBSET Execs, positions : SUBSET OrderIds,
                  linked : SUBSET OrderIds, gated : BOOLEAN]
  BY DEF TypeOK
<1>4. TypeOK'
  BY <1>2, <1>3 DEF TypeOK, PcValues, Ids
<1>5. OneActivePerIntent' /\ CompletedIsKnown'
  BY <1>2 DEF OneActivePerIntent, CompletedIsKnown, Active
<1>6. WorkingOnActive' /\ RecordFitsPc'
  BY <1>1, <1>2 DEF WorkingOnActive, RecordFitsPc, Active
<1>7. PassIsCurrent'
  BY <1>2 DEF PassIsCurrent, TypeOK, Active
<1> QED BY <1>4, <1>5, <1>6, <1>7

(* The passing of time changes only the age of a record.                   *)
LEMMA AgeInv == ASSUME IInv, NEW e \in Execs, Age(e) PROVE IInv'
<1> USE ConstantsAssumption DEF IInv, Age, volatile
<1>1. /\ store' \in [Execs -> RecordType]
      /\ \A f \in Execs : /\ store'[f].intent = store[f].intent
                          /\ store'[f].state = store[f].state
                          /\ store'[f].order_id = store[f].order_id
  <2>1. store \in [Execs -> RecordType]
    BY DEF TypeOK, RecordType
  <2>2. /\ store'[e] = [store[e] EXCEPT !.aged = TRUE]
        /\ \A f \in Execs \ {e} : store'[f] = store[f]
        /\ store' = [f \in Execs |-> store'[f]]
    BY <2>1
  <2>3. store'[e] \in RecordType
    BY <2>1, <2>2 DEF RecordType
  <2> QED BY <2>1, <2>2, <2>3 DEF RecordType
<1>2. TypeOK'
  BY <1>1 DEF TypeOK, RecordType
<1>3. OneActivePerIntent' /\ CompletedIsKnown'
  BY <1>1, KnownUnchanged DEF OneActivePerIntent, CompletedIsKnown, Active
<1>4. WorkingOnActive' /\ RecordFitsPc' /\ PassIsCurrent'
  BY <1>1, KnownUnchanged DEF WorkingOnActive, RecordFitsPc, PassIsCurrent, Active
<1> QED BY <1>2, <1>3, <1>4

(* What the broker does to an order keeps the invariant: the invariant     *)
(* speaks only of what the runner knows.                                   *)
LEMMA BrokerInv ==
    ASSUME IInv, NEW o \in OrderIds, NEW st \in {"open", "closed", "dropped"},
           orders' = [orders EXCEPT ![o].status = st],
           UNCHANGED <<store, journal, volatile, crashes>>
    PROVE  IInv'
<1>1. TypeOK'
  BY DEF IInv, TypeOK, volatile
<1>2. OneActivePerIntent' /\ CompletedIsKnown' /\ WorkingOnActive'
  BY KnownUnchanged DEF IInv, OneActivePerIntent, CompletedIsKnown, WorkingOnActive, Active,
     volatile
<1>3. RecordFitsPc' /\ PassIsCurrent'
  BY KnownUnchanged DEF IInv, RecordFitsPc, PassIsCurrent, Active, volatile
<1> QED BY <1>1, <1>2, <1>3 DEF IInv

(* No action breaks the invariant.                                         *)
LEMMA NextIInv == IInv /\ [Next]_vars => IInv'
<1> SUFFICES ASSUME IInv, [Next]_vars PROVE IInv'
  OBVIOUS
<1> USE ConstantsAssumption, KnownUnchanged
    DEF IInv, TypeOK, OneActivePerIntent, CompletedIsKnown, WorkingOnActive,
        RecordFitsPc, PassIsCurrent, Active, Ids, PcValues, States, TERMINAL_STATES,
        LocalsGone
<1>1. ASSUME NEW i \in Intents, NEW e \in Execs, OpenNew(i, e) PROVE IInv'
  BY <1>1 DEF OpenNew, find_active_by_identity, Exists
<1>2. ASSUME NEW i \in Intents, NEW e \in Execs, OpenDuplicate(i, e) PROVE IInv'
  BY <1>2 DEF OpenDuplicate, find_active_by_identity
<1>3. ASSUME NEW o \in OrderIds, Send(o) PROVE IInv'
  BY <1>3 DEF Send
<1>4. ASSUME Acknowledge PROVE IInv'
  BY <1>4 DEF Acknowledge, transition
<1>5. ASSUME JournalOpen PROVE IInv'
  BY <1>5, RecordSignal DEF JournalOpen
<1>6. ASSUME LogOpenFails PROVE IInv'
  BY <1>6 DEF LogOpenFails
<1>7. ASSUME MarkFails PROVE IInv'
  BY <1>7 DEF MarkFails
<1>8. ASSUME EndTick PROVE IInv'
  BY <1>8 DEF EndTick, tick_count
<1>9. ASSUME ReconStart PROVE IInv'
  BY <1>9 DEF ReconStart, recover_incomplete, get_positions, get_broker_order_ids,
     KnownOrders
<1>10. ASSUME ReconSkip PROVE IInv'
  BY <1>10 DEF ReconSkip
<1>11. ASSUME NEW e \in Execs, ReconDefer(e) PROVE IInv'
  BY <1>11 DEF ReconDefer
<1>12. ASSUME NEW e \in Execs, ReconKnown(e) PROVE IInv'
  BY <1>12, ReconKnownInv
<1>13. ASSUME NEW e \in Execs, NEW o \in OrderIds, ReconAdopt(e, o) PROVE IInv'
  BY <1>13, ReconAdoptInv
<1>14. ASSUME NEW e \in Execs, ReconLost(e) PROVE IInv'
  BY <1>14 DEF ReconLost
<1>15. ASSUME Attach PROVE IInv'
  BY <1>15, KnownAreOrders DEF Attach, transition
<1>16. ASSUME ReconDone PROVE IInv'
  BY <1>16 DEF ReconDone, NoRecon
<1>17. ASSUME NEW o \in OrderIds, BrokerExecutes(o) PROVE IInv'
  BY <1>17, BrokerInv DEF BrokerExecutes
<1>18. ASSUME NEW o \in OrderIds, BrokerDrops(o) PROVE IInv'
  BY <1>18, BrokerInv DEF BrokerDrops
<1>19. ASSUME NEW o \in OrderIds, BrokerCloses(o) PROVE IInv'
  BY <1>19, BrokerInv DEF BrokerCloses
<1>20. ASSUME NEW e \in Execs, Age(e) PROVE IInv'
  BY <1>20, AgeInv
<1>21. ASSUME Crash PROVE IInv'
  BY <1>21 DEF Crash, NoRecon
<1>22. ASSUME Restart PROVE IInv'
  BY <1>22 DEF Restart
<1>23. CASE UNCHANGED vars
  BY <1>23 DEF vars
<1> QED
  BY <1>1, <1>2, <1>3, <1>4, <1>5, <1>6, <1>7, <1>8, <1>9, <1>10, <1>11, <1>12,
     <1>13, <1>14, <1>15, <1>16, <1>17, <1>18, <1>19, <1>20, <1>21, <1>22, <1>23,
     PrepareInv, FailAmbiguousInv, RetryInv, FailTerminalInv, MarkInv, AdvanceInv
     DEF Next, Submission, Reconciliation, Environment

-----------------------------------------------------------------------------
(* The theorems.                                                           *)

(* The inductive invariant holds in every reachable state.                 *)
THEOREM Invariance == Spec => []IInv
BY InitIInv, NextIInv, PTL DEF Spec

(* Every variable of the submission and reconciliation keeps its type.     *)
THEOREM TypeCorrect == Spec => []TypeOK
BY Invariance, PTL DEF IInv

(* Two non-terminal records never share an intent identity, whatever       *)
(* crashes, restarts and passes happen in between (find_active_by_identity *)
(* before create_record).                                                  *)
THEOREM UniqueActive == Spec => []OneActivePerIntent
BY Invariance, PTL DEF IInv

(* A COMPLETED record has its order in the trade journal: completion never *)
(* overtakes the journal write, live or while reconciling.                 *)
THEOREM JournaledFirst ==
    ASSUME ~InsertsMayFail PROVE Spec => []CompletedIsJournaled
<1>1. IInv => CompletedIsJournaled
  BY DEF IInv, CompletedIsKnown, KnownOrders, CompletedIsJournaled
<1> QED BY <1>1, Invariance, PTL

(* The actions that are one transition() of the record being worked on.    *)
Transitions == Prepare \/ FailAmbiguous \/ Retry \/ FailTerminal \/ Mark \/ Advance

(* Each of them is a legal transition of an active record, and one to      *)
(* COMPLETED finds the order in the journal.                               *)
LEMMA TransitionLegal ==
    ASSUME IInv, Transitions
    PROVE  /\ cur \in Execs /\ Active(cur)
           /\ UNCHANGED journal
           /\ \E s \in States :
                /\ store' = transition(cur, s)
                /\ CanTransition(store[cur].state, s)
                /\ s = "COMPLETED" => store[cur].order_id \in KnownOrders
<1> USE DEF IInv
<1>1. CASE Prepare
  BY <1>1 DEF Prepare, PreparedAfter, WorkingOnActive, RecordFitsPc, CanTransition,
     ALLOWED_TRANSITIONS, States
<1>2. CASE FailAmbiguous
  BY <1>2 DEF FailAmbiguous, Raised, WorkingOnActive, RecordFitsPc, CanTransition,
     ALLOWED_TRANSITIONS, States
<1>3. CASE Retry
  BY <1>3 DEF Retry, Raised, WorkingOnActive, RecordFitsPc, CanTransition, States
<1>4. CASE FailTerminal
  BY <1>4 DEF FailTerminal, Raised, WorkingOnActive, RecordFitsPc, CanTransition,
     ALLOWED_TRANSITIONS, States, TERMINAL_STATES
<1>5. CASE Mark
  BY <1>5 DEF Mark, WorkingOnActive, RecordFitsPc, TypeOK, States, TERMINAL_STATES
<1>6. CASE Advance
  BY <1>6, StepOfPath DEF Advance, WorkingOnActive, RecordFitsPc, CanTransition,
     TERMINAL_STATES
<1> QED BY <1>1, <1>2, <1>3, <1>4, <1>5, <1>6 DEF Transitions

(* The other actions that write the store or the journal.                  *)
LEMMA OtherWrites ==
    ASSUME IInv, [Next]_vars, ~Transitions
    PROVE  \/ \E i \in Intents, e \in Execs : OpenNew(i, e)
           \/ Acknowledge
           \/ JournalOpen
           \/ \E e \in Execs : ReconKnown(e)
           \/ \E e \in Execs, o \in OrderIds : ReconAdopt(e, o)
           \/ Attach
           \/ \E e \in Execs : Age(e)
           \/ UNCHANGED <<store, journal>>
<1> USE DEF Transitions
<1>1. CASE Submission
  BY <1>1 DEF Submission, OpenDuplicate, Send, LogOpenFails, MarkFails
<1>2. CASE Reconciliation
  BY <1>2 DEF Reconciliation, EndTick, ReconStart, ReconSkip, ReconDefer, ReconLost, ReconDone
<1>3. CASE Environment
  BY <1>3 DEF Environment, BrokerExecutes, BrokerDrops, BrokerCloses, Crash, Restart
<1>4. CASE UNCHANGED vars
  BY <1>4 DEF vars
<1> QED BY <1>1, <1>2, <1>3, <1>4 DEF Next

(* Every write of an existing record is a legal transition of a record     *)
(* that is not terminal, and never replaces its order id.                  *)
LegalWrite ==
    \A e \in Execs : Exists(e) /\ store'[e] # store[e] =>
        /\ CanTransition(store[e].state, store'[e].state)
        /\ store[e].state \notin TERMINAL_STATES
        /\ store'[e].intent = store[e].intent
        /\ store[e].order_id \in {None, store'[e].order_id}

(* Every action writes records legally or not at all.                      *)
LEMMA StepLegal == IInv /\ [Next]_vars => LegalWrite
<1> SUFFICES ASSUME IInv, [Next]_vars PROVE LegalWrite
  OBVIOUS
<1> USE DEF IInv, LegalWrite, Exists
<1>1. CASE Transitions
  <2>1. PICK s \in States :
          store' = transition(cur, s) /\ CanTransition(store[cur].state, s)
    BY <1>1, TransitionLegal
  <2>2. cur \in Execs /\ Active(cur)
    BY <1>1, TransitionLegal
  <2>3. /\ store'[cur].state = s
        /\ store'[cur].order_id = store[cur].order_id
        /\ store'[cur].intent = store[cur].intent
        /\ \A f \in Execs \ {cur} : store'[f] = store[f]
    BY <2>1, <2>2, TransitionEffect
  <2> QED BY <2>1, <2>2, <2>3 DEF Active
<1>2. CASE ~Transitions
  <2>1. ASSUME NEW i \in Intents, NEW e \in Execs, OpenNew(i, e) PROVE LegalWrite
    BY <2>1 DEF OpenNew, TypeOK
  <2>2. CASE Acknowledge
    BY <2>2 DEF Acknowledge, transition, TypeOK, WorkingOnActive, RecordFitsPc, Active,
       CanTransition, ALLOWED_TRANSITIONS, TERMINAL_STATES
  <2>3. CASE Attach
    BY <2>3 DEF Attach, transition, TypeOK, WorkingOnActive, RecordFitsPc, Active, CanTransition
  <2>4. ASSUME NEW e \in Execs, Age(e) PROVE LegalWrite
    BY <2>4 DEF Age, TypeOK, Active, CanTransition
  <2>5. CASE UNCHANGED store
    BY <2>5
  <2> QED BY <1>2, <2>1, <2>2, <2>3, <2>4, <2>5, OtherWrites
       DEF JournalOpen, ReconKnown, ReconAdopt
<1> QED BY <1>1, <1>2

(* No transition() call of the submission or of the reconciliation raises  *)
(* ValueError: every state change is in _ALLOWED_TRANSITIONS.              *)
THEOREM LegalSteps == Spec => LegalRecordSteps
<1>1. IInv /\ [Next]_vars => [LegalWrite]_vars
  BY StepLegal
<1>2. Spec => [][LegalWrite]_vars
  BY <1>1, Invariance, PTL DEF Spec
<1> QED BY <1>2 DEF LegalRecordSteps, LegalWrite

-----------------------------------------------------------------------------
(* One order alive per record.                                             *)

(* A record, once created, stays: no step makes it absent again.           *)
LEMMA RecordsStay ==
    ASSUME IInv, [Next]_vars, NEW e \in Execs, Exists(e) PROVE Exists(e)'
<1>1. store'[e] = store[e] \/ CanTransition(store[e].state, store'[e].state)
  BY StepLegal DEF LegalWrite
<1>2. "ABSENT" \notin States
  BY DEF States, TERMINAL_STATES
<1> QED BY <1>1, <1>2, AllowedIsState DEF CanTransition, Exists

(* A call goes out only when every earlier order of the record is dropped. *)
LEMMA SendKeepsOne ==
    ASSUME IInv, OrdersFitPc, NEW o \in OrderIds, Send(o) PROVE OrdersFitPc'
<1>1. cur \in Execs /\ Exists(cur) /\ cur # None
  BY ConstantsAssumption DEF Send, IInv, WorkingOnActive, Active, Exists, States, TERMINAL_STATES
<1>2. /\ orders'[o] = [status |-> "inflight", by |-> cur]
      /\ \A p \in OrderIds \ {o} : orders'[p] = orders[p]
  BY DEF Send, IInv, TypeOK
<1>3. SentBy(cur)' = SentBy(cur) \cup {o}
  BY <1>2 DEF Send, SentBy
<1>4. \A e \in Execs \ {cur} : SentBy(e)' \subseteq SentBy(e)
  BY <1>2 DEF SentBy
<1>5. \A e \in Execs : ~Exists(e)' => SentBy(e)' = {}
  BY <1>1, <1>4 DEF Send, Exists, OrdersFitPc
<1>6. \A p \in SentBy(cur) \ {o} : orders'[p].status = "dropped"
  BY <1>2 DEF Send, OrdersFitPc, AllDropped, SentBy
<1>7. OneFillPerRecord'
  <2>1. \A p \in OrderIds \ {o} : orders'[p].by = cur => orders'[p].status = "dropped"
    BY <1>2, <1>6 DEF SentBy
  <2> QED BY <1>2, <2>1 DEF OneFillPerRecord, OrdersFitPc
<1>8. \A p \in OrderIds : orders'[p].by = None => orders'[p].status = "unused"
  BY <1>1, <1>2 DEF OrdersFitPc
<1>9. /\ pc' = "wait" /\ call' = o /\ cur' = cur
      /\ AllDropped(SentBy(cur) \ {o})'
  BY <1>3, <1>6 DEF Send, AllDropped
<1> QED BY <1>3, <1>5, <1>7, <1>8, <1>9 DEF OrdersFitPc

(* The broker revives no order: what it dropped stays dropped.             *)
LEMMA BrokerKeepsOne ==
    ASSUME IInv, OrdersFitPc, NEW o \in OrderIds,
           BrokerExecutes(o) \/ BrokerDrops(o) \/ BrokerCloses(o)
    PROVE  OrdersFitPc'
<1>1. /\ UNCHANGED <<store, pc, cur, call>>
      /\ \A p \in OrderIds : orders'[p].by = orders[p].by
      /\ \A p \in OrderIds \ {o} : orders'[p] = orders[p]
      /\ orders[o].status \in {"inflight", "open"}
  BY DEF BrokerExecutes, BrokerDrops, BrokerCloses, volatile, IInv, TypeOK
<1>2. \A e : SentBy(e)' = SentBy(e)
  BY <1>1 DEF SentBy
<1>3. \A S \in SUBSET OrderIds : AllDropped(S) => AllDropped(S)'
  BY <1>1 DEF AllDropped
<1>4. SentBy(cur) \subseteq OrderIds
  BY DEF SentBy
<1>5. OneFillPerRecord'
  BY <1>1 DEF OneFillPerRecord, OrdersFitPc
<1> QED BY <1>1, <1>2, <1>3, <1>4, <1>5 DEF OrdersFitPc, Exists, AllDropped

(* The other steps leave the broker's side alone.                          *)
LEMMA OtherOrders ==
    ASSUME [Next]_vars,
           ~ \E o \in OrderIds :
                Send(o) \/ BrokerExecutes(o) \/ BrokerDrops(o) \/ BrokerCloses(o)
    PROVE  /\ UNCHANGED orders
           /\ \/ \E i \in Intents, e \in Execs : OpenNew(i, e)
              \/ Prepare
              \/ Retry
              \/ UNCHANGED <<pc, cur, call>>
              \/ pc' \notin {"prepare", "send", "wait"}
<1>1. CASE Submission
  BY <1>1 DEF Submission, OpenNew, OpenDuplicate, Prepare, Acknowledge, FailAmbiguous, Retry,
     FailTerminal, JournalOpen, LogOpenFails, Mark, MarkFails
<1>2. CASE Reconciliation
  BY <1>2 DEF Reconciliation, EndTick, ReconStart, ReconSkip, ReconDefer, ReconKnown,
     ReconLost, ReconAdopt, Attach, Advance, ReconDone
<1>3. CASE Environment
  BY <1>3 DEF Environment, Age, Crash, Restart, volatile
<1>4. CASE UNCHANGED vars
  BY <1>4 DEF vars
<1> QED BY <1>1, <1>2, <1>3, <1>4 DEF Next

(* They keep one order alive, if a transient error hides no fill: a retry  *)
(* then follows an order that was dropped.                                 *)
LEMMA OthersKeepOne ==
    ASSUME "transient" \notin HidesFill, IInv, OrdersFitPc, [Next]_vars,
           ~ \E o \in OrderIds :
                Send(o) \/ BrokerExecutes(o) \/ BrokerDrops(o) \/ BrokerCloses(o)
    PROVE  OrdersFitPc'
<1>1. UNCHANGED orders
  BY OtherOrders
<1>2. /\ \A e : SentBy(e)' = SentBy(e)
      /\ \A S : AllDropped(S)' <=> AllDropped(S)
      /\ OneFillPerRecord'
      /\ \A o \in OrderIds : orders'[o].by = None => orders'[o].status = "unused"
  BY <1>1 DEF SentBy, AllDropped, OneFillPerRecord, OrdersFitPc
<1>3. \A e \in Execs : ~Exists(e)' => SentBy(e)' = {}
  BY <1>2, RecordsStay DEF OrdersFitPc
<1>4. pc' \in {"prepare", "send"} => AllDropped(SentBy(cur))'
  <2>1. ASSUME NEW i \in Intents, NEW e \in Execs, OpenNew(i, e)
        PROVE  AllDropped(SentBy(cur))'
    BY <1>1, <2>1 DEF OpenNew, OrdersFitPc, AllDropped, SentBy
  <2>2. CASE Prepare
    BY <1>1, <2>2 DEF Prepare, OrdersFitPc, AllDropped, SentBy
  <2>3. CASE Retry
    <3>1. pc = "wait" /\ cur' = cur /\ orders[call].status = "dropped"
      BY <2>3 DEF Retry, Retryable, Raised
    <3> QED BY <1>1, <3>1 DEF OrdersFitPc, AllDropped, SentBy
  <2>4. CASE UNCHANGED <<pc, cur, call>>
    BY <1>1, <2>4 DEF OrdersFitPc, AllDropped, SentBy
  <2> QED BY <2>1, <2>2, <2>3, <2>4, OtherOrders
<1>5. pc' = "wait" => call' \in SentBy(cur)' /\ AllDropped(SentBy(cur) \ {call})'
  <2>1. pc' = "wait" => UNCHANGED <<pc, cur, call>>
    BY OtherOrders DEF OpenNew, Prepare, Retry
  <2> QED BY <1>1, <2>1 DEF OrdersFitPc, AllDropped, SentBy
<1> QED BY <1>2, <1>3, <1>4, <1>5 DEF OrdersFitPc

(* What the broker has fits where the runner is, in every state.           *)
THEOREM OrdersFit ==
    ASSUME "transient" \notin HidesFill PROVE Spec => []OrdersFitPc
<1>1. Init => OrdersFitPc
  BY ConstantsAssumption DEF Init, OrdersFitPc, OneFillPerRecord, SentBy, AllDropped, Exists
<1>2. IInv /\ OrdersFitPc /\ [Next]_vars => OrdersFitPc'
  BY SendKeepsOne, BrokerKeepsOne, OthersKeepOne
<1> QED BY <1>1, <1>2, Invariance, PTL DEF Spec

(* The retry loop never has two orders of one record alive at the broker,  *)
(* for any number of attempts, crashes and passes, if no error classified  *)
(* as transient hides an executed order. Ambiguous and terminal errors may.*)
THEOREM OneFill ==
    ASSUME "transient" \notin HidesFill PROVE Spec => []OneFillPerRecord
<1>1. OrdersFitPc => OneFillPerRecord
  BY DEF OrdersFitPc
<1> QED BY <1>1, OrdersFit, PTL

-----------------------------------------------------------------------------
(* What one step does to a record, an order and the journal.               *)

(* What one step does to a record.                                         *)
LEMMA RecordStep ==
    ASSUME IInv, [Next]_vars, NEW e \in Execs
    PROVE  \/ store'[e] = store[e]
           \/ /\ \E i \in Intents : OpenNew(i, e)
              /\ store'[e].intent \in Intents
              /\ store'[e].order_id = None /\ store'[e].aged = FALSE
           \/ /\ Transitions /\ e = cur /\ Active(e)
              /\ store'[e].order_id = store[e].order_id
              /\ store'[e].intent = store[e].intent /\ store'[e].aged = FALSE
           \/ /\ Acknowledge \/ Attach
              /\ e = cur /\ Active(e) /\ Active(e)'
              /\ store'[e].order_id = call
              /\ store'[e].intent = store[e].intent /\ store'[e].aged = FALSE
           \/ /\ Age(e)
              /\ store'[e].state = store[e].state
              /\ store'[e].order_id = store[e].order_id
              /\ store'[e].intent = store[e].intent
<1> USE DEF IInv
<1>1. CASE Transitions
  <2>1. PICK s \in States : store' = transition(cur, s) /\ cur \in Execs /\ Active(cur)
    BY <1>1, TransitionLegal
  <2>2. /\ store'[cur] = [store[cur] EXCEPT !.state = s, !.aged = FALSE]
        /\ \A f \in Execs \ {cur} : store'[f] = store[f]
    BY <2>1, TransitionEffect
  <2>3. /\ store'[cur].order_id = store[cur].order_id
        /\ store'[cur].intent = store[cur].intent /\ store'[cur].aged = FALSE
    BY <2>1, <2>2 DEF TypeOK
  <2> QED BY <1>1, <2>1, <2>2, <2>3
<1>2. CASE ~Transitions
  <2>1. ASSUME NEW i \in Intents, NEW f \in Execs, OpenNew(i, f)
        PROVE  /\ e # f => store'[e] = store[e]
               /\ e = f => /\ store'[e].intent \in Intents
                           /\ store'[e].order_id = None /\ store'[e].aged = FALSE
    BY <2>1 DEF OpenNew, TypeOK
  <2>2. CASE Acknowledge \/ Attach
    <3>1. /\ cur \in Execs /\ Active(cur)
          /\ e # cur => store'[e] = store[e]
      BY <2>2 DEF Acknowledge, Attach, transition, TypeOK, WorkingOnActive
    <3>2. ASSUME e = cur
          PROVE  /\ Active(e)' /\ store'[e].order_id = call
                 /\ store'[e].intent = store[e].intent /\ store'[e].aged = FALSE
      <4>1. CASE Acknowledge
        BY <3>1, <3>2, <4>1 DEF Acknowledge, transition, TypeOK, Active, States, TERMINAL_STATES
      <4>2. CASE Attach
        BY <3>1, <3>2, <4>2 DEF Attach, transition, TypeOK, Active
      <4> QED BY <2>2, <4>1, <4>2
    <3> QED BY <2>2, <3>1, <3>2
  <2>3. ASSUME NEW f \in Execs, Age(f)
        PROVE  /\ e # f => store'[e] = store[e]
               /\ store'[e].state = store[e].state
               /\ store'[e].order_id = store[e].order_id
               /\ store'[e].intent = store[e].intent
    BY <2>3 DEF Age, TypeOK
  <2>4. CASE UNCHANGED store
    BY <2>4
  <2> QED BY <1>2, <2>1, <2>2, <2>3, <2>4, OtherWrites DEF JournalOpen, ReconKnown, ReconAdopt
<1> QED BY <1>1, <1>2

(* What one step does to an order at the broker.                           *)
LEMMA OrderStep ==
    ASSUME IInv, [Next]_vars, NEW o \in OrderIds
    PROVE  \/ orders'[o] = orders[o]
           \/ /\ Send(o)
              /\ orders[o].status = "unused"
              /\ orders'[o].by = cur /\ orders'[o].status = "inflight"
           \/ /\ orders'[o].by = orders[o].by
              /\ \/ orders[o].status = "inflight" /\ orders'[o].status \in {"open", "dropped"}
                 \/ orders[o].status = "open" /\ orders'[o].status = "closed"
<1>1. ASSUME NEW p \in OrderIds, Send(p)
      PROVE  /\ o # p => orders'[o] = orders[o]
             /\ o = p => /\ orders[o].status = "unused"
                         /\ orders'[o].by = cur /\ orders'[o].status = "inflight"
  BY <1>1 DEF Send, IInv, TypeOK
<1>2. ASSUME NEW p \in OrderIds, BrokerExecutes(p) \/ BrokerDrops(p) \/ BrokerCloses(p)
      PROVE  /\ o # p => orders'[o] = orders[o]
             /\ orders'[o].by = orders[o].by
             /\ o = p =>
                  \/ orders[o].status = "inflight" /\ orders'[o].status \in {"open", "dropped"}
                  \/ orders[o].status = "open" /\ orders'[o].status = "closed"
  BY <1>2 DEF BrokerExecutes, BrokerDrops, BrokerCloses, IInv, TypeOK
<1> QED BY <1>1, <1>2, OtherOrders

(* Only a call puts an order of a record in flight.                        *)
LEMMA SettledStays ==
    ASSUME IInv, [Next]_vars, NEW e \in Execs, Settled(e),
           e # cur \/ ~ \E o \in OrderIds : Send(o)
    PROVE  Settled(e)'
<1>1. ASSUME NEW o \in OrderIds, orders'[o].by = e PROVE orders'[o].status # "inflight"
  BY <1>1, OrderStep DEF Send, Settled
<1> QED BY <1>1 DEF Settled

(* The journal loses no row.                                               *)
LEMMA JournalGrows ==
    ASSUME IInv, [Next]_vars PROVE get_broker_order_ids \subseteq get_broker_order_ids'
<1> USE DEF IInv
<1>1. ASSUME NEW o \in OrderIds, journal' \in record_signal(o)
      PROVE  get_broker_order_ids \subseteq get_broker_order_ids'
  <2>1. CASE journal' = [journal EXCEPT ![o] = @ + 1]
    BY <2>1, JournalRow
  <2>2. CASE UNCHANGED journal
    BY <2>2 DEF get_broker_order_ids
  <2> QED BY <1>1, <2>1, <2>2 DEF record_signal
<1>2. CASE UNCHANGED journal
  BY <1>2 DEF get_broker_order_ids
<1>3. CASE JournalOpen
  BY <1>1, <1>3 DEF JournalOpen, RecordFitsPc
<1>4. ASSUME NEW e \in Execs, ReconKnown(e)
      PROVE  get_broker_order_ids \subseteq get_broker_order_ids'
  <2>1. store[e].order_id \in OrderIds
    BY <1>4 DEF ReconKnown, TypeOK, Ids
  <2> QED BY <1>1, <1>2, <1>4, <2>1 DEF ReconKnown, ensure_journaled
<1>5. ASSUME NEW e \in Execs, NEW o \in OrderIds, ReconAdopt(e, o)
      PROVE  get_broker_order_ids \subseteq get_broker_order_ids'
  BY <1>1, <1>5 DEF ReconAdopt
<1>6. CASE Transitions
  BY <1>2, <1>6, TransitionLegal
<1> QED BY <1>2, <1>3, <1>4, <1>5, <1>6, OtherWrites DEF OpenNew, Acknowledge, Attach, Age

(* A record is given up by a failure the broker reported, or by a pass.     *)
LEMMA GivenUp ==
    ASSUME IInv, Transitions, store'[cur].state \in TERMINAL_STATES \ {"COMPLETED"}
    PROVE  FailTerminal \/ (Advance /\ goal = "FAILED_TERMINAL")
<1> USE DEF IInv
<1>1. cur \in Execs /\ Active(cur)
  BY TransitionLegal
<1>2. ASSUME NEW s \in States, store' = transition(cur, s)
      PROVE  s \in TERMINAL_STATES /\ s # "COMPLETED"
  BY <1>1, <1>2, TransitionEffect
<1>3. ~Prepare
  BY <1>2 DEF Prepare, PreparedAfter, States, TERMINAL_STATES
<1>4. ~FailAmbiguous
  BY <1>2 DEF FailAmbiguous, States, TERMINAL_STATES
<1>5. ~Retry
  BY <1>2 DEF Retry, States, TERMINAL_STATES
<1>6. ~Mark
  BY <1>2 DEF Mark, RecordFitsPc, TypeOK, States, TERMINAL_STATES
<1>7. CASE Advance
  BY <1>2, <1>7, StepOfPath DEF Advance, TypeOK, TERMINAL_STATES
<1> QED BY <1>3, <1>4, <1>5, <1>6, <1>7 DEF Transitions

(* Where a pass and the startup before it come from.                       *)
LEMMA PassStep ==
    ASSUME IInv, [Next]_vars
    PROVE  /\ pc' = "startup" => pc = "startup" \/ Restart
           /\ InPass' =>
                \/ ReconStart
                \/ /\ InPass
                   /\ recon'.positions = recon.positions /\ recon'.gated = recon.gated
                   /\ recon'.queue \subseteq recon.queue
                   /\ recon.linked \subseteq recon'.linked
<1> USE DEF InPass
<1>1. CASE Submission
  BY <1>1 DEF Submission, OpenNew, OpenDuplicate, Prepare, Send, Acknowledge, FailAmbiguous,
     Retry, FailTerminal, JournalOpen, LogOpenFails, Mark, MarkFails
<1>2. CASE Reconciliation
  <2>1. ASSUME NEW e \in Execs, ReconDefer(e) \/ ReconKnown(e) \/ ReconLost(e)
        PROVE  /\ pc' # "startup" /\ InPass
               /\ recon'.positions = recon.positions /\ recon'.gated = recon.gated
               /\ recon'.queue \subseteq recon.queue
               /\ recon.linked \subseteq recon'.linked
    BY <2>1 DEF ReconDefer, ReconKnown, ReconLost, Claimed, IInv, TypeOK
  <2>2. ASSUME NEW e \in Execs, NEW o \in OrderIds, ReconAdopt(e, o)
        PROVE  /\ pc' # "startup" /\ InPass
               /\ recon'.positions = recon.positions /\ recon'.gated = recon.gated
               /\ recon'.queue \subseteq recon.queue
               /\ recon.linked \subseteq recon'.linked
    BY <2>2 DEF ReconAdopt, Claimed, IInv, TypeOK
  <2> QED BY <1>2, <2>1, <2>2 DEF Reconciliation, EndTick, ReconStart, ReconSkip, Attach,
       Advance, ReconDone
<1>3. CASE Environment
  BY <1>3 DEF Environment, BrokerExecutes, BrokerDrops, BrokerCloses, Age, Crash, Restart, volatile
<1>4. CASE UNCHANGED vars
  BY <1>4 DEF vars
<1> QED BY <1>1, <1>2, <1>3, <1>4 DEF Next

-----------------------------------------------------------------------------
(* What a pass writes to the journal.                                      *)

(* A row for o, where o is linked by the same step, keeps that.            *)
LEMMA ClaimKeepsLinked ==
    ASSUME TypeOK, LinkedIsComplete, pc = "recon", NEW e \in Execs, NEW o \in OrderIds,
           journal' \in {journal} \cup record_signal(o), recon' = Claimed(e, o)
    PROVE  LinkedIsComplete'
<1> USE DEF InPass
<1>1. \A p \in OrderIds \ {o} : journal'[p] = journal[p]
  BY DEF record_signal, TypeOK
<1>2. recon'.linked = recon.linked \cup {o}
  BY DEF Claimed, TypeOK
<1> QED
  BY <1>1, <1>2 DEF LinkedIsComplete

(* Every step keeps it.                                                    *)
LEMMA LinkedStep ==
    ASSUME TypeOK, LinkedIsComplete, [Next]_vars
    PROVE  LinkedIsComplete'
<1> USE DEF InPass
<1>1. CASE /\ UNCHANGED <<journal, recon>>
           /\ InPass' => InPass
  BY <1>1 DEF LinkedIsComplete
<1>2. CASE ~InPass'
  BY <1>2 DEF LinkedIsComplete
<1>3. CASE ReconStart
  BY <1>3 DEF ReconStart, LinkedIsComplete, get_broker_order_ids
<1>4. ASSUME NEW e \in Execs, ReconDefer(e) PROVE LinkedIsComplete'
  BY <1>4 DEF ReconDefer, LinkedIsComplete, TypeOK
<1>5. ASSUME NEW e \in Execs, ReconLost(e) PROVE LinkedIsComplete'
  BY <1>5 DEF ReconLost, LinkedIsComplete, TypeOK
<1>6. ASSUME NEW e \in Execs, ReconKnown(e) PROVE LinkedIsComplete'
  BY <1>6, ClaimKeepsLinked DEF ReconKnown, ensure_journaled, TypeOK, Ids
<1>7. ASSUME NEW e \in Execs, NEW o \in OrderIds, ReconAdopt(e, o) PROVE LinkedIsComplete'
  BY <1>7, ClaimKeepsLinked DEF ReconAdopt
<1>8. CASE Submission
  BY <1>8, <1>2 DEF Submission, OpenNew, OpenDuplicate, Prepare, Send, Acknowledge,
     FailAmbiguous, Retry, FailTerminal, JournalOpen, LogOpenFails, Mark, MarkFails
<1>9. CASE Environment
  BY <1>9, <1>1, <1>2 DEF Environment, BrokerExecutes, BrokerDrops, BrokerCloses,
     Age, Crash, Restart, volatile
<1>10. CASE EndTick \/ ReconSkip \/ Attach \/ Advance \/ ReconDone
  BY <1>10, <1>1, <1>2 DEF EndTick, ReconSkip, Attach, Advance, ReconDone
<1>11. CASE UNCHANGED vars
  BY <1>11, <1>1 DEF vars
<1> QED
  BY <1>3, <1>4, <1>5, <1>6, <1>7, <1>8, <1>9, <1>10, <1>11 DEF Next, Reconciliation

(* A pass adds a journal row only for an order that has none, however many *)
(* passes there were before and wherever they were cut off (the snapshot   *)
(* linked_order_ids of reconcile_pending_executions).                      *)
THEOREM JournaledOnceByPass == Spec => RecoveryJournalsOnce
<1> DEFINE Once == pc = "recon" => \A o \in OrderIds : journal'[o] = journal[o] \/ journal[o] = 0
<1>1. ASSUME TypeOK, LinkedIsComplete, [Next]_vars, pc = "recon" PROVE Once
  <2>1. ASSUME NEW o \in OrderIds, o \notin recon.linked, journal' \in record_signal(o)
        PROVE  Once
    <3>1. journal[o] = 0
      BY <1>1, <2>1 DEF LinkedIsComplete, InPass, TypeOK
    <3>2. \A p \in OrderIds \ {o} : journal'[p] = journal[p]
      BY <1>1, <2>1 DEF record_signal, TypeOK
    <3> QED
      BY <3>1, <3>2
  <2>2. ASSUME UNCHANGED journal PROVE Once
    BY <2>2
  <2> HIDE DEF Once
  <2>3. ASSUME NEW e \in Execs, ReconKnown(e) PROVE Once
    <3>1. store[e].order_id \in OrderIds
      BY <1>1, <2>3 DEF ReconKnown, TypeOK, Ids
    <3> QED
      BY <2>1, <2>2, <2>3, <3>1 DEF ReconKnown, ensure_journaled
  <2>4. ASSUME NEW e \in Execs, NEW o \in OrderIds, ReconAdopt(e, o) PROVE Once
    BY <2>1, <2>4 DEF ReconAdopt, find_unlinked_match
  <2>5. CASE Submission
    BY <1>1, <2>2, <2>5 DEF Submission, OpenNew, OpenDuplicate, Prepare, Send, Acknowledge,
       FailAmbiguous, Retry, FailTerminal, JournalOpen, LogOpenFails, Mark, MarkFails
  <2>6. CASE Environment
    BY <2>2, <2>6 DEF Environment, BrokerExecutes, BrokerDrops, BrokerCloses, Age, Crash, Restart
  <2>7. CASE EndTick \/ ReconStart \/ ReconSkip \/ Attach \/ Advance \/ ReconDone
    BY <2>2, <2>7 DEF EndTick, ReconStart, ReconSkip, Attach, Advance, ReconDone
  <2>8. ASSUME NEW e \in Execs, ReconDefer(e) \/ ReconLost(e) PROVE Once
    BY <2>2, <2>8 DEF ReconDefer, ReconLost
  <2>9. CASE UNCHANGED vars
    BY <2>2, <2>9 DEF vars
  <2> QED
    BY <1>1, <2>3, <2>4, <2>5, <2>6, <2>7, <2>8, <2>9 DEF Next, Reconciliation
<1>2. TypeOK /\ LinkedIsComplete /\ [Next]_vars => [Once]_vars
  BY <1>1
<1>3. TypeOK /\ LinkedIsComplete /\ [Next]_vars => LinkedIsComplete'
  BY LinkedStep
<1>4. Init => LinkedIsComplete
  BY DEF Init, LinkedIsComplete, InPass
<1> QED
  BY <1>2, <1>3, <1>4, TypeCorrect, PTL DEF Spec, RecoveryJournalsOnce

-----------------------------------------------------------------------------
(* What a pass gives a record is of no finished one.                       *)

(* Where the records being judged come from.                               *)
LEMMA VerdictStep ==
    ASSUME [Next]_vars, pc' \in {"attach", "advance"}
    PROVE  \/ \E e \in Execs, o \in OrderIds : ReconAdopt(e, o)
           \/ \E e \in Execs : ReconKnown(e) \/ ReconLost(e)
           \/ Attach
           \/ UNCHANGED <<pc, cur, call, goal, recon, journal>>
<1>1. CASE Submission
  BY <1>1 DEF Submission, OpenNew, OpenDuplicate, Prepare, Send, Acknowledge, FailAmbiguous,
     Retry, FailTerminal, JournalOpen, LogOpenFails, Mark, MarkFails
<1>2. CASE Reconciliation
  BY <1>2 DEF Reconciliation, EndTick, ReconStart, ReconSkip, ReconDefer, Advance, ReconDone
<1>3. CASE Environment
  BY <1>3 DEF Environment, BrokerExecutes, BrokerDrops, BrokerCloses, Age, Crash, Restart, volatile
<1>4. CASE UNCHANGED vars
  BY <1>4 DEF vars
<1> QED BY <1>1, <1>2, <1>3, <1>4 DEF Next

(* A record that ends with an order is completed.                          *)
LEMMA FinishedStep ==
    ASSUME IInv, FinishedIsCompleted, [Next]_vars PROVE FinishedIsCompleted'
<1> USE DEF IInv
<1>1. ASSUME NEW e \in Execs, store'[e].order_id # None
      PROVE  Active(e)' \/ store'[e].state = "COMPLETED"
  <2>1. CASE store'[e] = store[e]
    BY <1>1, <2>1 DEF FinishedIsCompleted, Active
  <2>2. CASE /\ Transitions /\ e = cur /\ store'[e].order_id = store[e].order_id
    <3>1. PICK s \in States : store' = transition(cur, s) /\ cur \in Execs
      BY <2>2, TransitionLegal
    <3>2. store'[e].state = s
      BY <2>2, <3>1, TransitionEffect
    <3>3. ~FailTerminal
      BY <1>1, <2>2 DEF FailTerminal, Raised, RecordFitsPc
    <3>4. ~(Advance /\ goal = "FAILED_TERMINAL")
      BY <1>1, <2>2 DEF Advance, FinishedIsCompleted
    <3>5. s \notin TERMINAL_STATES \ {"COMPLETED"}
      BY <2>2, <3>2, <3>3, <3>4, GivenUp
    <3> QED BY <3>1, <3>2, <3>5 DEF Active
  <2>3. CASE Age(e) /\ store'[e].state = store[e].state
    BY <2>3 DEF Age, Active
  <2> QED BY <1>1, <2>1, <2>2, <2>3, RecordStep
<1>2. ASSUME pc' = "advance", goal' = "FAILED_TERMINAL" PROVE store'[cur'].order_id = None
  <2>1. ASSUME NEW e \in Execs, ReconLost(e) PROVE store'[cur'].order_id = None
    BY <2>1 DEF ReconLost
  <2>2. ~Attach
    BY <1>2 DEF Attach, RecordFitsPc
  <2>3. CASE UNCHANGED <<pc, cur, goal>>
    <3>1. cur \in Execs /\ store[cur].order_id = None
      BY <1>2, <2>3 DEF WorkingOnActive, FinishedIsCompleted
    <3> QED BY <1>2, <2>3, <3>1, RecordStep DEF OpenNew, Acknowledge, Attach
  <2> QED BY <1>2, <2>1, <2>2, <2>3, VerdictStep DEF ReconAdopt, ReconKnown
<1> QED BY <1>1, <1>2 DEF FinishedIsCompleted

(* A pass does not adopt what a finished record has: the journal had it    *)
(* when the pass began, or it was linked since.                            *)
LEMMA AdoptedStep ==
    ASSUME ~InsertsMayFail, IInv, FinishedIsCompleted, LinkedIsComplete, AdoptedIsFree,
           [Next]_vars
    PROVE  AdoptedIsFree'
<1> SUFFICES ASSUME pc' = "attach", NEW f \in Execs, store'[f].order_id = call'
             PROVE  Active(f)'
  BY DEF AdoptedIsFree
<1> USE DEF IInv
<1>1. ASSUME NEW e \in Execs, NEW o \in OrderIds, ReconAdopt(e, o) PROVE Active(f)'
  <2>1. store[f].order_id = o /\ o \notin recon.linked /\ o # None
    BY <1>1, ConstantsAssumption DEF ReconAdopt, find_unlinked_match
  <2>2. o \notin KnownOrders
    BY <1>1, <2>1 DEF ReconAdopt, LinkedIsComplete, InPass, KnownOrders, get_broker_order_ids
  <2>3. Active(f)
    BY <2>1, <2>2 DEF FinishedIsCompleted, CompletedIsKnown
  <2> QED BY <1>1, <2>3 DEF ReconAdopt, Active
<1>2. CASE UNCHANGED <<pc, cur, call>>
  <2>1. pc = "attach" /\ pc' = pc
    BY <1>2
  <2>2. /\ store'[f].state = store[f].state
        /\ store'[f].order_id = store[f].order_id
    BY <2>1, RecordStep DEF OpenNew, Acknowledge, Attach, Transitions, Prepare, FailAmbiguous,
       Retry, FailTerminal, Raised, Mark, Advance
  <2> QED BY <1>2, <2>1, <2>2 DEF AdoptedIsFree, Active
<1> QED BY <1>1, <1>2, VerdictStep DEF ReconKnown, ReconLost, Attach

(* Recovery never gives a record the order of a finished one, whatever was *)
(* lost, late, hidden by an error or interrupted (the linked set of        *)
(* reconcile_pending_executions, renewed by every pass).                   *)
THEOREM RecoveredFree ==
    ASSUME ~InsertsMayFail PROVE Spec => RecoveredOrderIsFree
<1> DEFINE Free == \A e \in Execs :
                     pc = "attach" /\ store[e].order_id = None /\ store'[e].order_id # None
                     => \A f \in Execs : store[f].order_id = store'[e].order_id => Active(f)
           Inv == FinishedIsCompleted /\ LinkedIsComplete /\ AdoptedIsFree
<1>1. ASSUME IInv, AdoptedIsFree, [Next]_vars PROVE Free
  <2>1. SUFFICES ASSUME pc = "attach", NEW e \in Execs, store[e].order_id = None,
                        store'[e].order_id # None, NEW f \in Execs,
                        store[f].order_id = store'[e].order_id
                 PROVE  Active(f)
    OBVIOUS
  <2>2. store'[e].order_id = call
    BY <1>1, <2>1, RecordStep
  <2> QED BY <1>1, <2>1, <2>2 DEF AdoptedIsFree
<1>2. IInv /\ Inv /\ [Next]_vars => [Free]_vars
  BY <1>1
<1>3. IInv /\ Inv /\ [Next]_vars => Inv'
  BY FinishedStep, LinkedStep, AdoptedStep DEF IInv
<1>4. Init => Inv
  BY DEF Init, FinishedIsCompleted, LinkedIsComplete, AdoptedIsFree, InPass, NoRecord
<1>5. Spec => []Inv
  BY <1>3, <1>4, Invariance, PTL DEF Spec
<1>6. Spec => [][Free]_vars
  BY <1>2, <1>5, Invariance, PTL DEF Spec
<1> QED BY <1>6 DEF RecoveredOrderIsFree

-----------------------------------------------------------------------------
(* No position is forgotten.                                               *)

(* Errors other than ambiguous ones mean that the order was not executed,  *)
(* the journal takes its rows, an order settles before its record ages or  *)
(* the process is back up, and early enough for the pass that judges it.   *)
PositionAssumption ==
    /\ HidesFill \subseteq {"ambiguous"}
    /\ BoundedFlight /\ ShortPass
    /\ ~InsertsMayFail

(* What is known in every state, and what every step finds and keeps.      *)
Known == IInv /\ OrdersFitPc /\ PositionInv

(* An order that was sent stays its record's, on the same market.          *)
LEMMA SentStays ==
    ASSUME Known, [Next]_vars, NEW o \in OrderIds, Sent(o)
    PROVE  /\ orders[o].by \in Execs /\ Exists(orders[o].by)
           /\ Sent(o)' /\ orders'[o].by = orders[o].by /\ OrderKey(o)' = OrderKey(o)
<1>1. PICK e \in Execs : e = orders[o].by
  BY DEF Known, OrdersFitPc, Sent, IInv, TypeOK
<1>2. Exists(e)
  BY <1>1 DEF Known, OrdersFitPc, SentBy
<1>3. store'[e].intent = store[e].intent
  BY <1>2, RecordStep DEF Known, OpenNew
<1>4. Sent(o)' /\ orders'[o].by = orders[o].by
  BY OrderStep DEF Known, Sent
<1> QED BY <1>1, <1>2, <1>3, <1>4 DEF OrderKey

(* A record keeps the order id it has.                                     *)
LEMMA IdStays ==
    ASSUME Known, [Next]_vars, NEW e \in Execs, store[e].order_id # None
    PROVE  /\ Exists(e) /\ Exists(e)'
           /\ store'[e].order_id = store[e].order_id
           /\ store'[e].intent = store[e].intent
<1>1. Exists(e)
  BY DEF Known, PositionInv, FinishedIsCompleted, Exists, Active, States, TERMINAL_STATES
<1> QED BY <1>1, RecordsStay, StepLegal DEF Known, LegalWrite

(* The order a pass adopts: an open one of the record's market when the    *)
(* pass began, that the journal does not know until now.                   *)
LEMMA AdoptFacts ==
    ASSUME PositionAssumption, Known, NEW e \in Execs, NEW o \in OrderIds, ReconAdopt(e, o)
    PROVE  /\ o \in recon.positions /\ Sent(o)
           /\ OrderKey(o) = KeyOf[store[e].intent]
           /\ o \notin get_broker_order_ids
           /\ o \in get_broker_order_ids'
           /\ \A f \in Execs : store[f].order_id = o => orders[o].by = f
           /\ UNCHANGED <<store, orders>>
<1>1. /\ o \in recon.positions \ recon.linked
      /\ OrderKey(o) = KeyOf[store[e].intent]
      /\ pc = "recon" /\ UNCHANGED <<store, orders>>
  BY DEF ReconAdopt, find_unlinked_match
<1>2. Sent(o)
  BY <1>1 DEF Known, PositionInv, OrdersFitRecords, InPass
<1>3. o \notin get_broker_order_ids
  BY <1>1 DEF Known, PositionInv, LinkedIsComplete, InPass, get_broker_order_ids
<1>4. o \in get_broker_order_ids'
  BY JournalRow DEF ReconAdopt, record_signal, PositionAssumption, Known, IInv
<1>5. \A f \in Execs : store[f].order_id = o => orders[o].by = f
  BY <1>3, ConstantsAssumption DEF Known, PositionInv, OrdersFitRecords
<1> QED BY <1>1, <1>2, <1>3, <1>4, <1>5

(* The orders of a record stay of its market.                              *)
LEMMA OrdersFitRecordsStep ==
    ASSUME PositionAssumption, Known, [Next]_vars PROVE OrdersFitRecords'
<1> USE DEF Known, IInv
<1>1. ASSUME NEW e \in Execs, Exists(e)' PROVE store'[e].intent \in Intents
  BY <1>1, RecordStep DEF PositionInv, OrdersFitRecords, Exists, Active, Age, States,
     TERMINAL_STATES
<1>2. ASSUME InPass', NEW o \in recon'.positions PROVE Sent(o)'
  <2>1. CASE ReconStart
    BY <1>2, <2>1 DEF ReconStart, get_positions, Sent
  <2>2. CASE InPass /\ recon'.positions = recon.positions
    BY <1>2, <2>2, SentStays DEF PositionInv, OrdersFitRecords, TypeOK
  <2> QED BY <1>2, <2>1, <2>2, PassStep
<1>3. ASSUME NEW e \in Execs, store'[e].order_id # None
      PROVE  (/\ Sent(store[e].order_id)
              /\ OrderKey(store[e].order_id) = KeyOf[store[e].intent]
              /\ store[e].order_id \in get_broker_order_ids \/ orders[store[e].order_id].by = e)'
  <2>1. SUFFICES ASSUME NEW o, o = store'[e].order_id
                 PROVE  /\ Sent(o)' /\ OrderKey(o)' = KeyOf[store'[e].intent]
                        /\ o \in get_broker_order_ids' \/ orders'[o].by = e
    BY DEF Sent, OrderKey
  <2>2. ASSUME o \in OrderIds, Sent(o), OrderKey(o) = KeyOf[store[e].intent],
               o \in get_broker_order_ids \/ orders[o].by = e,
               store'[e].intent = store[e].intent
        PROVE  /\ Sent(o)' /\ OrderKey(o)' = KeyOf[store'[e].intent]
               /\ o \in get_broker_order_ids' \/ orders'[o].by = e
    BY <2>2, SentStays, JournalGrows
  <2>3. CASE store[e].order_id # None
    <3>1. store[e].order_id = o /\ store'[e].intent = store[e].intent
      BY <2>1, <2>3, IdStays
    <3>2. o \in OrderIds
      BY <2>3, <3>1 DEF TypeOK, Ids
    <3> QED BY <2>2, <2>3, <3>1, <3>2 DEF PositionInv, OrdersFitRecords
  <2>4. CASE store[e].order_id = None
    <3>1. /\ Acknowledge \/ Attach
          /\ e = cur /\ call = o /\ store'[e].intent = store[e].intent
      BY <1>3, <2>1, <2>4, RecordStep
    <3>2. CASE Acknowledge
      <4>1. call \in SentBy(cur) /\ orders[call].status \in {"open", "closed"}
        BY <3>2 DEF Acknowledge, OrdersFitPc
      <4> QED BY <2>2, <3>1, <4>1 DEF SentBy, Sent, OrderKey
    <3>3. CASE Attach
      <4>1. /\ Sent(call) /\ OrderKey(call) = KeyOf[store[cur].intent]
            /\ call \in KnownOrders
        BY <3>3 DEF Attach, PositionInv, OrdersFitRecords, RecordFitsPc
      <4> QED BY <2>2, <3>1, <4>1, KnownAreOrders DEF KnownOrders, PositionAssumption
    <3> QED BY <3>1, <3>2, <3>3
  <2> QED BY <2>3, <2>4
<1>4. ASSUME pc' = "attach"
      PROVE  (/\ Sent(call) /\ OrderKey(call) = KeyOf[store[cur].intent]
              /\ \A f \in Execs : store[f].order_id = call => orders[call].by = f)'
  <2>1. ASSUME NEW e \in Execs, NEW o \in OrderIds, ReconAdopt(e, o)
        PROVE  (/\ Sent(call) /\ OrderKey(call) = KeyOf[store[cur].intent]
                /\ \A f \in Execs : store[f].order_id = call => orders[call].by = f)'
    BY <2>1, AdoptFacts DEF ReconAdopt, Sent, OrderKey
  <2>2. CASE UNCHANGED <<pc, cur, call>>
    <3>1. /\ call \in OrderIds /\ cur \in Execs
          /\ Sent(call) /\ OrderKey(call) = KeyOf[store[cur].intent]
          /\ \A f \in Execs : store[f].order_id = call => orders[call].by = f
      BY <1>4, <2>2, KnownAreOrders DEF RecordFitsPc, WorkingOnActive, PositionInv,
         OrdersFitRecords
    <3>2. pc = "attach" /\ pc' = "attach"
      BY <1>4, <2>2
    <3>3. store'[cur].intent = store[cur].intent
      BY <3>1, <3>2, RecordStep DEF OpenNew
    <3>4. ASSUME NEW f \in Execs, store'[f].order_id = call PROVE store[f].order_id = call
      BY <3>1, <3>2, <3>4, RecordStep, ConstantsAssumption DEF OpenNew, Acknowledge, Attach
    <3>5. Sent(call)' /\ orders'[call].by = orders[call].by /\ OrderKey(call)' = OrderKey(call)
      <4>1. ASSUME NEW o \in OrderIds, Sent(o), o = call
            PROVE  Sent(o)' /\ orders'[o].by = orders[o].by /\ OrderKey(o)' = OrderKey(o)
        BY <4>1, SentStays
      <4> QED BY <2>2, <3>1, <4>1 DEF Sent, OrderKey
    <3> QED BY <2>2, <3>1, <3>3, <3>4, <3>5
  <2> QED BY <1>4, <2>1, <2>2, VerdictStep DEF ReconKnown, ReconLost, Attach
<1> QED BY <1>1, <1>2, <1>3, <1>4 DEF OrdersFitRecords

(* How the runner comes up and how a call ends.                            *)
LEMMA WaitStep ==
    ASSUME [Next]_vars
    PROVE  /\ pc = "down" => pc' = "down" \/ Restart
           /\ pc = "wait" => \/ Acknowledge \/ FailAmbiguous \/ Retry \/ FailTerminal
                             \/ pc' = "down"
                             \/ UNCHANGED <<pc, cur>>
<1>1. CASE Submission
  BY <1>1 DEF Submission, OpenNew, OpenDuplicate, Prepare, Send, Acknowledge, FailAmbiguous,
     Retry, FailTerminal, Raised, JournalOpen, LogOpenFails, Mark, MarkFails
<1>2. CASE Reconciliation
  BY <1>2 DEF Reconciliation, EndTick, ReconStart, ReconSkip, ReconDefer, ReconKnown,
     ReconLost, ReconAdopt, Attach, Advance, ReconDone
<1>3. CASE Environment
  BY <1>3 DEF Environment, BrokerExecutes, BrokerDrops, BrokerCloses, Age, Crash, Restart, volatile
<1>4. CASE UNCHANGED vars
  BY <1>4 DEF vars
<1> QED BY <1>1, <1>2, <1>3, <1>4 DEF Next

(* Nothing of a record is in flight once its call has been answered.       *)
LEMMA AnsweredIsSettled ==
    ASSUME PositionAssumption, Known, Acknowledge \/ FailTerminal
    PROVE  Settled(cur) /\ UNCHANGED orders
<1>1. pc = "wait" /\ orders[call].status \in {"open", "closed", "dropped"}
  BY DEF Acknowledge, FailTerminal, Raised, Retryable, PositionAssumption
<1>2. AllDropped(SentBy(cur) \ {call})
  BY <1>1 DEF Known, OrdersFitPc
<1> QED BY <1>1, <1>2 DEF Settled, AllDropped, SentBy, Acknowledge, FailTerminal

(* A record leaves those that wait for an order id only in these steps.    *)
Judging == Acknowledge \/ Attach \/ FailTerminal \/ (Advance /\ goal = "FAILED_TERMINAL")

LEMMA WaitingStays ==
    ASSUME Known, [Next]_vars, NEW e \in Execs, Active(e), store[e].order_id = None,
           ~(Judging /\ e = cur)
    PROVE  Active(e)' /\ store'[e].order_id = None /\ store'[e].intent = store[e].intent
<1> USE DEF Known, IInv
<1>1. CASE store'[e] = store[e]
  BY <1>1 DEF Active
<1>2. CASE Transitions /\ e = cur
  <2>1. PICK s \in States : /\ store' = transition(cur, s)
                            /\ s = "COMPLETED" => store[cur].order_id \in KnownOrders
    BY <1>2, TransitionLegal
  <2>2. store'[e].state = s
    BY <1>2, <2>1, TransitionEffect
  <2>3. s # "COMPLETED"
    BY <1>2, <2>1, KnownAreOrders, ConstantsAssumption
  <2>4. s \notin TERMINAL_STATES
    BY <1>2, <2>2, <2>3, GivenUp DEF Judging
  <2>5. store'[e].order_id = None /\ store'[e].intent = store[e].intent
    BY <1>2, <2>1, TransitionEffect
  <2> QED BY <2>1, <2>2, <2>4, <2>5 DEF Active
<1>3. CASE Age(e) /\ store'[e].state = store[e].state
  <2>1. store'[e].order_id = store[e].order_id /\ store'[e].intent = store[e].intent
    BY <1>3 DEF Age, TypeOK
  <2> QED BY <1>3, <2>1 DEF Active
<1>4. \A i \in Intents : ~OpenNew(i, e)
  BY DEF OpenNew, Exists, Active, States, TERMINAL_STATES
<1> QED BY <1>1, <1>2, <1>3, <1>4, RecordStep DEF Judging

(* An order in flight keeps its record waiting, and from ageing.           *)
LEMMA JudgedIsSettledStep ==
    ASSUME PositionAssumption, Known, [Next]_vars PROVE JudgedIsSettled'
<1> USE DEF Known, IInv, PositionInv
<1>1. ASSUME NEW e \in Execs, ~Settled(e)'
      PROVE  Active(e)' /\ store'[e].order_id = None
  <2>1. Active(e) /\ store[e].order_id = None
    <3>1. CASE Settled(e)
      <4>1. e = cur /\ pc = "send"
        BY <1>1, <3>1, SettledStays DEF Send
      <4> QED BY <4>1 DEF WorkingOnActive, RecordFitsPc
    <3>2. CASE ~Settled(e)
      BY <3>2 DEF JudgedIsSettled
    <3> QED BY <3>1, <3>2
  <2>2. ASSUME Judging, e = cur PROVE FALSE
    <3>1. Settled(cur)
      BY <2>2, AnsweredIsSettled DEF Judging, JudgedIsSettled, Attach, Advance
    <3>2. ~ \E o \in OrderIds : Send(o)
      BY <2>2 DEF Judging, Acknowledge, Attach, FailTerminal, Raised, Advance, Send
    <3> QED BY <1>1, <2>2, <3>1, <3>2, SettledStays
  <2> QED BY <2>1, <2>2, WaitingStays
<1>2. ASSUME NEW e \in Execs, store'[e].aged
      PROVE  Settled(e)' \/ pc' = "down" \/ (pc' = "wait" /\ e = cur')
  <2>1. CASE store'[e] = store[e]
    <3>1. CASE Settled(e)
      BY <3>1, SettledStays DEF Send
    <3>2. CASE pc = "down"
      <4>1. CASE Restart
        BY <4>1 DEF Restart, PositionAssumption, Settled
      <4> QED BY <3>2, <4>1, WaitStep
    <3>3. CASE pc = "wait" /\ e = cur
      <4>1. ~(Acknowledge \/ FailAmbiguous \/ Retry \/ FailTerminal)
        <5>1. ~Acknowledge
          BY <1>2, <2>1, <3>3 DEF Acknowledge, transition, TypeOK
        <5>2. ASSUME Transitions PROVE FALSE
          <6>1. PICK s \in States : store' = transition(cur, s)
            BY <5>2, TransitionLegal
          <6>2. store'[cur].aged = FALSE
            BY <3>3, <6>1 DEF transition, TypeOK
          <6> QED BY <1>2, <2>1, <3>3, <6>2
        <5> QED BY <5>1, <5>2 DEF Transitions
      <4> QED BY <3>3, <4>1, WaitStep
    <3> QED BY <1>2, <2>1, <3>1, <3>2, <3>3 DEF JudgedIsSettled
  <2>2. CASE Age(e)
    BY <2>2 DEF Age, PositionAssumption, Settled
  <2> QED BY <1>2, <2>1, <2>2, RecordStep
<1>3. ASSUME pc' = "startup" \/ (InPass' /\ ~recon'.gated), NEW e \in Execs
      PROVE  Settled(e)'
  <2>1. Settled(e)
    <3>1. CASE ReconStart
      <4>1. recon'.gated = (pc = "periodic") /\ pc' = "recon"
        BY <3>1 DEF ReconStart
      <4>2. pc # "periodic"
        BY <1>3, <4>1
      <4> QED BY <3>1, <4>2 DEF ReconStart, JudgedIsSettled
    <3>2. CASE Restart
      BY <3>2 DEF Restart, PositionAssumption
    <3> QED BY <1>3, <3>1, <3>2, PassStep DEF JudgedIsSettled
  <2>2. pc # "send"
    BY <1>3, PassStep DEF Restart, ReconStart, InPass
  <2> QED BY <2>1, <2>2, SettledStays DEF Send
<1>4. ASSUME pc' \in {"attach", "advance"} PROVE Settled(cur)'
  <2>1. ASSUME NEW e \in Execs, pc = "recon", past_age_gate(e) PROVE Settled(e)
    BY <2>1 DEF JudgedIsSettled, past_age_gate, InPass
  <2>2. cur' \in Execs /\ Settled(cur')
    <3>1. ASSUME NEW e \in Execs, NEW o \in OrderIds, ReconAdopt(e, o)
          PROVE  cur' \in Execs /\ Settled(cur')
      BY <2>1, <3>1 DEF ReconAdopt
    <3>2. ASSUME NEW e \in Execs, ReconLost(e) PROVE cur' \in Execs /\ Settled(cur')
      BY <2>1, <3>2 DEF ReconLost
    <3>3. ASSUME NEW e \in Execs, ReconKnown(e) PROVE cur' \in Execs /\ Settled(cur')
      BY <3>3 DEF ReconKnown, JudgedIsSettled
    <3>4. CASE Attach \/ UNCHANGED <<pc, cur>>
      BY <1>4, <3>4 DEF Attach, JudgedIsSettled, WorkingOnActive
    <3> QED BY <1>4, <3>1, <3>2, <3>3, <3>4, VerdictStep
  <2>3. ~ \E o \in OrderIds : Send(o)
    BY <1>4 DEF Send
  <2>4. PICK e \in Execs : e = cur' /\ Settled(e)
    BY <2>2
  <2>5. Settled(e)'
    BY <2>3, <2>4, SettledStays
  <2> QED BY <2>4, <2>5 DEF Settled
<1> QED BY <1>1, <1>2, <1>3, <1>4 DEF JudgedIsSettled

(* A pass judges no record whose order came too late for its snapshot: it  *)
(* is in flight when the pass begins, so the record is young, and does not *)
(* grow old before the pass is over.                                       *)
LEMMA LateIsWaitingStep ==
    ASSUME PositionAssumption, Known, [Next]_vars PROVE LateIsWaiting'
<1> USE DEF Known, IInv, PositionInv
<1>1. SUFFICES ASSUME InPass', NEW o \in OrderIds, Alive(o)', o \notin recon'.positions,
                      NEW e, e = orders'[o].by
               PROVE  /\ recon'.gated /\ Active(e)' /\ ~store'[e].aged
                      /\ store'[e].order_id = None
                      /\ pc' # "recon" => e # cur'
  BY DEF LateIsWaiting, Active
<1>2. CASE ReconStart
  <2>1. /\ UNCHANGED <<store, orders>> /\ pc' = "recon" /\ pc \in {"startup", "periodic"}
        /\ recon'.positions = get_positions /\ recon'.gated = (pc = "periodic")
    BY <1>2 DEF ReconStart
  <2>2. orders[o].status = "inflight" /\ orders[o].by = e
    BY <1>1, <2>1 DEF Alive, get_positions
  <2>3. e \in Execs /\ ~Settled(e)
    BY <2>2 DEF OrdersFitPc, TypeOK, Settled
  <2>4. Active(e) /\ store[e].order_id = None /\ pc # "startup" /\ ~store[e].aged
    BY <2>1, <2>3 DEF JudgedIsSettled
  <2> QED BY <2>1, <2>4 DEF Active
<1>3. CASE InPass /\ recon'.positions = recon.positions /\ recon'.gated = recon.gated
  <2>1. Alive(o) /\ orders[o].by = e
    BY <1>1, <1>3, OrderStep DEF Alive, Send, InPass
  <2>2. e \in Execs
    BY <2>1 DEF OrdersFitPc, TypeOK, Alive
  <2>3. /\ recon.gated /\ Active(e) /\ ~store[e].aged
        /\ store[e].order_id = None
        /\ pc # "recon" => e # cur
    BY <1>1, <1>3, <2>1 DEF LateIsWaiting
  <2>4. ~Age(e)
    BY <1>1, <1>3, <2>1 DEF Age, PositionAssumption, Settled, Alive, get_positions
  <2>5. ~(Transitions \/ Acknowledge \/ Attach) \/ e # cur
    BY <1>3, <2>3 DEF InPass, Transitions, Prepare, FailAmbiguous, Retry, FailTerminal, Raised,
       Mark, Advance, Acknowledge, Attach
  <2>6. store'[e] = store[e]
    BY <1>3, <2>2, <2>4, <2>5, RecordStep DEF OpenNew, InPass
  <2>7. ASSUME pc' # "recon" PROVE e # cur'
    <3>1. pc' \in {"attach", "advance"}
      BY <1>1, <2>7 DEF InPass
    <3>2. ASSUME NEW f \in Execs, past_age_gate(f) PROVE e # f
      BY <2>3, <3>2 DEF past_age_gate
    <3>3. ASSUME NEW f \in Execs, NEW p \in OrderIds, ReconAdopt(f, p) PROVE e # cur'
      BY <3>2, <3>3 DEF ReconAdopt
    <3>4. ASSUME NEW f \in Execs, ReconLost(f) PROVE e # cur'
      BY <3>2, <3>4 DEF ReconLost
    <3>5. ASSUME NEW f \in Execs, ReconKnown(f) PROVE e # cur'
      BY <2>3, <3>5 DEF ReconKnown
    <3>6. CASE Attach \/ UNCHANGED <<pc, cur>>
      BY <2>3, <2>7, <3>6 DEF Attach
    <3> QED BY <3>1, <3>3, <3>4, <3>5, <3>6, VerdictStep
  <2> QED BY <1>3, <2>3, <2>6, <2>7 DEF Active
<1> QED BY <1>1, <1>2, <1>3, PassStep

(* Counting: fewer to find, or more that look for them or end up doubled.  *)
LEMMA Counting ==
    ASSUME NEW S, NEW T \in SUBSET S, NEW F, NEW E \in SUBSET F, NEW H, NEW D \in SUBSET H,
           IsFiniteSet(S), IsFiniteSet(F), IsFiniteSet(H),
           Cardinality(S) <= Cardinality(E) + Cardinality(D)
    PROVE  Cardinality(T) <= Cardinality(F) + Cardinality(H)
<1>1. /\ IsFiniteSet(T) /\ Cardinality(T) <= Cardinality(S)
      /\ IsFiniteSet(E) /\ Cardinality(E) <= Cardinality(F)
      /\ IsFiniteSet(D) /\ Cardinality(D) <= Cardinality(H)
  BY FS_Subset
<1>2. \A U \in {S, T, E, F, D, H} : Cardinality(U) \in Nat
  BY <1>1, FS_CardinalityType
<1> QED BY <1>1, <1>2

(* A part of a finite set and the rest of it.                              *)
LEMMA TwoParts ==
    ASSUME NEW S, IsFiniteSet(S), NEW T \in SUBSET S
    PROVE  /\ Cardinality(S) = Cardinality(S \ T) + Cardinality(T)
           /\ Cardinality(S) \in Nat /\ Cardinality(S \ T) \in Nat /\ Cardinality(T) \in Nat
<1>1. IsFiniteSet(T) /\ IsFiniteSet(S \ T)
  BY FS_Subset
<1>2. Cardinality((S \ T) \cup T)
        = Cardinality(S \ T) + Cardinality(T) - Cardinality((S \ T) \cap T)
  BY <1>1, FS_Union
<1>3. Cardinality((S \ T) \cup T) = Cardinality(S)
  <2>1. (S \ T) \cup T = S
    OBVIOUS
  <2> QED BY <2>1, Zenon
<1>4. Cardinality((S \ T) \cap T) = 0
  <2>1. (S \ T) \cap T = {}
    OBVIOUS
  <2> QED BY <2>1, FS_EmptySet, Zenon
<1>5. Cardinality(S) \in Nat /\ Cardinality(S \ T) \in Nat /\ Cardinality(T) \in Nat
  BY <1>1, FS_CardinalityType
<1> QED BY <1>2, <1>3, <1>4, <1>5

(* The sets that are counted.                                              *)
LEMMA CountedAreFinite ==
    ASSUME IsFiniteSet(Execs), IsFiniteSet(OrderIds), NEW k
    PROVE  /\ IsFiniteSet(Orphans(k)) /\ IsFiniteSet(Orphans(k)')
           /\ IsFiniteSet(Idless(k)) /\ IsFiniteSet(Idless(k)')
           /\ IsFiniteSet(Doubled(k)) /\ IsFiniteSet(Doubled(k)')
<1>1. /\ Orphans(k) \in SUBSET OrderIds /\ Orphans(k)' \in SUBSET OrderIds
      /\ Doubled(k) \in SUBSET OrderIds /\ Doubled(k)' \in SUBSET OrderIds
      /\ Idless(k) \in SUBSET Execs /\ Idless(k)' \in SUBSET Execs
  BY DEF Orphans, Doubled, Idless, recover_incomplete
<1> QED BY <1>1, FS_Subset

(* An order that two records have got, both keep.                          *)
LEMMA DoubledGrows ==
    ASSUME Known, [Next]_vars, NEW k PROVE Doubled(k) \subseteq Doubled(k)'
<1> SUFFICES ASSUME NEW o \in Doubled(k) PROVE o \in Doubled(k)'
  OBVIOUS
<1>1. PICK e, f \in Execs : /\ e # f /\ HasKey(e, k) /\ HasKey(f, k)
                            /\ store[e].order_id = o /\ store[f].order_id = o
  BY DEF Doubled
<1>2. o \in OrderIds /\ o # None
  BY ConstantsAssumption DEF Doubled
<1>3. /\ HasKey(e, k)' /\ store'[e].order_id = o
      /\ HasKey(f, k)' /\ store'[f].order_id = o
  BY <1>1, <1>2, IdStays DEF HasKey
<1> QED BY <1>1, <1>2, <1>3 DEF Doubled

(* Only a call adds an order that a record without an order id must find.  *)
LEMMA OrphansShrink ==
    ASSUME Known, [Next]_vars, NEW k, NEW o \in Orphans(k)'
    PROVE  o \in Orphans(k) \/ (Send(o) /\ HasKey(cur, k))
<1> USE DEF Known, IInv
<1>1. /\ o \in OrderIds
      /\ Alive(o)' \/ (InPass' /\ o \in recon'.positions)
      /\ OrderKey(o)' = k
      /\ o \notin get_broker_order_ids'
      /\ \A e \in Execs : store'[e].order_id # o
  BY DEF Orphans
<1>2. CASE Send(o)
  <2>1. orders'[o].by = cur /\ cur \in Execs /\ Exists(cur) /\ store' = store
    BY <1>1, <1>2 DEF Send, WorkingOnActive, Active, Exists, States, TERMINAL_STATES, TypeOK
  <2> QED BY <1>1, <1>2, <2>1 DEF HasKey, OrderKey
<1>3. CASE ~Send(o)
  <2>1. Alive(o) \/ (InPass /\ o \in recon.positions)
    <3>1. CASE Alive(o)'
      BY <1>1, <1>3, <3>1, OrderStep DEF Alive
    <3>2. CASE ReconStart /\ o \in recon'.positions
      BY <3>2 DEF ReconStart, get_positions, Alive
    <3> QED BY <1>1, <3>1, <3>2, PassStep
  <2>2. Sent(o)
    BY <1>1, <2>1 DEF Alive, Sent, PositionInv, OrdersFitRecords
  <2>3. OrderKey(o) = k
    BY <1>1, <2>2, SentStays
  <2>4. o \notin get_broker_order_ids
    BY <1>1, JournalGrows
  <2>5. \A e \in Execs : store[e].order_id # o
    BY <1>1, IdStays, ConstantsAssumption
  <2> QED BY <1>1, <2>1, <2>3, <2>4, <2>5 DEF Orphans
<1> QED BY <1>2, <1>3

(* The records that can find them: only the one being judged leaves.       *)
LEMMA IdlessStay ==
    ASSUME Known, [Next]_vars, NEW k
    PROVE  /\ Idless(k) \ {cur} \subseteq Idless(k)'
           /\ ~Judging => Idless(k) \subseteq Idless(k)'
<1>1. ASSUME NEW e \in Idless(k), ~(Judging /\ e = cur) PROVE e \in Idless(k)'
  <2>1. e \in Execs /\ Active(e) /\ HasKey(e, k) /\ store[e].order_id = None
    BY DEF Idless, recover_incomplete
  <2>2. Active(e)' /\ store'[e].order_id = None /\ store'[e].intent = store[e].intent
    BY <1>1, <2>1, WaitingStays
  <2>3. Exists(e)'
    BY <2>2 DEF Active, Exists, States, TERMINAL_STATES
  <2> QED BY <2>1, <2>2, <2>3 DEF Idless, recover_incomplete, HasKey
<1> QED BY <1>1

(* Where the call of a record, or the attempt to make one, comes from.     *)
LEMMA CallStep ==
    ASSUME [Next]_vars
    PROVE  /\ pc' \in {"prepare", "send"} =>
                \/ \E i \in Intents, e \in Execs : OpenNew(i, e)
                \/ Prepare \/ Retry
                \/ UNCHANGED <<pc, cur, call>>
           /\ pc' = "wait" => (\E o \in OrderIds : Send(o)) \/ UNCHANGED <<pc, cur, call>>
<1>1. CASE Submission
  BY <1>1 DEF Submission, OpenNew, OpenDuplicate, Prepare, Send, Acknowledge, FailAmbiguous,
     Retry, FailTerminal, JournalOpen, LogOpenFails, Mark, MarkFails
<1>2. CASE Reconciliation
  BY <1>2 DEF Reconciliation, EndTick, ReconStart, ReconSkip, ReconDefer, ReconKnown,
     ReconLost, ReconAdopt, Attach, Advance, ReconDone
<1>3. CASE Environment
  BY <1>3 DEF Environment, BrokerExecutes, BrokerDrops, BrokerCloses, Age, Crash, Restart, volatile
<1>4. CASE UNCHANGED vars
  BY <1>4 DEF vars
<1> QED BY <1>1, <1>2, <1>3, <1>4 DEF Next

(* The order of a call that has been answered is nobody's to find.         *)
LEMMA AnsweredIsNoOrphan ==
    ASSUME PositionAssumption, Known, [Next]_vars, NEW k, Acknowledge \/ FailTerminal \/ Retry
    PROVE  Orphans(k)' \subseteq Orphans(k) \ {call}
<1> USE DEF Known, IInv
<1>1. pc = "wait" /\ ~InPass' /\ UNCHANGED orders
  BY DEF Acknowledge, FailTerminal, Retry, Raised, InPass
<1>2. Orphans(k)' \subseteq Orphans(k)
  BY <1>1, OrphansShrink DEF Send
<1>3. CASE Acknowledge
  <2>1. cur \in Execs /\ store'[cur].order_id = call
    BY <1>3 DEF Acknowledge, transition, TypeOK, WorkingOnActive
  <2> QED BY <1>2, <2>1 DEF Orphans
<1>4. CASE FailTerminal \/ Retry
  <2>1. orders[call].status = "dropped"
    BY <1>4 DEF FailTerminal, Retry, Raised, Retryable, PositionAssumption
  <2> QED BY <1>1, <1>2, <2>1 DEF Orphans, Alive
<1> QED BY <1>3, <1>4

(* The order a pass gives a record that another one has already: it is     *)
(* doubled from now on, and was not before.                                *)
LEMMA AttachDoubles ==
    ASSUME Known, [Next]_vars, Attach, NEW k, NEW f \in Execs, store[f].order_id = call,
           HasKey(cur, k)
    PROVE  call \notin Doubled(k) /\ call \in Doubled(k)'
<1> USE DEF Known, IInv
<1>1. /\ pc = "attach" /\ cur \in Execs /\ store[cur].order_id = None
      /\ call \in OrderIds /\ call # None
  BY KnownAreOrders, ConstantsAssumption DEF Attach, WorkingOnActive, RecordFitsPc
<1>2. /\ OrderKey(call) = KeyOf[store[cur].intent]
      /\ \A e \in Execs : store[e].order_id = call => orders[call].by = e
  BY <1>1 DEF PositionInv, OrdersFitRecords
<1>3. call \notin Doubled(k)
  BY <1>2 DEF Doubled
<1>4. HasKey(f, k) /\ f # cur
  <2>1. OrderKey(call) = KeyOf[store[f].intent]
    BY <1>1 DEF PositionInv, OrdersFitRecords
  <2> QED BY <1>1, <1>2, <2>1, IdStays DEF HasKey
<1>5. HasKey(f, k)' /\ store'[f].order_id = call
  BY <1>1, <1>4, IdStays DEF HasKey
<1>6. PICK e \in Execs : e = cur
  BY <1>1
<1>7. HasKey(e, k)' /\ store'[e].order_id = call
  BY <1>1, <1>6 DEF Attach, transition, TypeOK, HasKey, Exists
<1>8. call \in Doubled(k)'
  BY <1>1, <1>4, <1>5, <1>6, <1>7 DEF Doubled
<1> QED BY <1>3, <1>8

(* What a pass finds nothing for has nothing to find, or it is another     *)
(* record that has: the orphans of the market came too late for the        *)
(* snapshot, and each is of a record of its own that is still young.       *)
LEMMA LostHasNone ==
    ASSUME PositionAssumption, Known, IsFiniteSet(Execs),
           NEW e \in Execs, ReconLost(e), NEW k, HasKey(e, k)
    PROVE  Cardinality(Orphans(k)) <= Cardinality(Idless(k) \ {e})
<1> USE DEF Known, IInv, PositionInv
<1>1. /\ pc = "recon" /\ InPass /\ past_age_gate(e)
      /\ \A o \in recon.positions \ recon.linked : OrderKey(o) # k
  BY DEF ReconLost, InPass, find_unlinked_match, HasKey
<1>2. recon.linked \subseteq get_broker_order_ids
  BY DEF PassIsCurrent, KnownOrders, PositionAssumption
<1>3. ASSUME NEW o \in Orphans(k)
      PROVE  o \in OrderIds /\ Alive(o) /\ orders[o].by \in Idless(k) \ {e}
  <2>1. o \in OrderIds /\ OrderKey(o) = k /\ o \notin recon.linked
    BY <1>2 DEF Orphans
  <2>2. o \notin recon.positions /\ Alive(o)
    BY <1>1, <2>1 DEF Orphans
  <2>3. /\ recon.gated /\ Active(orders[o].by) /\ ~store[orders[o].by].aged
        /\ store[orders[o].by].order_id = None
    BY <1>1, <2>1, <2>2 DEF LateIsWaiting
  <2>4. orders[o].by \in Execs
    BY <2>1, <2>2 DEF OrdersFitPc, TypeOK, Alive
  <2>5. orders[o].by # e
    BY <1>1, <2>3 DEF past_age_gate
  <2> QED BY <2>1, <2>2, <2>3, <2>4, <2>5
       DEF Idless, recover_incomplete, HasKey, OrderKey, Active, Exists, States, TERMINAL_STATES
<1> DEFINE f == [o \in Orphans(k) |-> orders[o].by]
<1>4. \A o, p \in Orphans(k) : orders[o].by = orders[p].by => o = p
  BY <1>3 DEF OrdersFitPc, OneFillPerRecord, Alive
<1>5. f \in [Orphans(k) -> Idless(k) \ {e}]
  BY <1>3
<1>6. f \in Injection(Orphans(k), Idless(k) \ {e})
  BY <1>4, <1>5 DEF Injection, IsInjective
<1>7. IsFiniteSet(Idless(k) \ {e})
  <2>1. Idless(k) \ {e} \in SUBSET Execs
    BY DEF Idless, recover_incomplete
  <2> QED BY <2>1, FS_Subset
<1> QED BY <1>6, <1>7, FS_Injection

(* Every order that only a record without an id can find has such a record *)
(* after every step: a call adds its own; an answer, an adoption or a       *)
(* verdict takes one away together with the order, or with nothing to find, *)
(* or leaves the order doubled.                                            *)
LEMMA OrphansAreSoughtStep ==
    ASSUME PositionAssumption, Known, [Next]_vars, IsFiniteSet(Execs), IsFiniteSet(OrderIds)
    PROVE  OrphansAreSought'
<1>0. SUFFICES ASSUME NEW i \in Intents, NEW k, k = KeyOf[i]
      PROVE  /\ SoughtBy(Orphans(k), Idless(k), k)'
             /\ pc' \in {"prepare", "send"} => SoughtBy(Orphans(k), Idless(k) \ {cur}, k)'
             /\ pc' = "wait" => SoughtBy(Orphans(k) \ {call}, Idless(k) \ {cur}, k)'
             /\ pc' = "attach" /\ (\A f \in Execs : store'[f].order_id # call') =>
                   SoughtBy(Orphans(k), Idless(k) \ {cur}, k)'
             /\ pc' = "advance" /\ goal' = "FAILED_TERMINAL" =>
                   SoughtBy(Orphans(k), Idless(k) \ {cur}, k)'
  BY DEF OrphansAreSought
<1> DEFINE O == Orphans(k)  O2 == Orphans(k)'
           I == Idless(k)   I2 == Idless(k)'
           D == Doubled(k)  D2 == Doubled(k)'
           Enough(S, E) == Cardinality(S) <= Cardinality(E) + Cardinality(D)
           EnoughNext(S, E) == Cardinality(S) <= Cardinality(E) + Cardinality(D2)
<1>1. /\ IsFiniteSet(O) /\ IsFiniteSet(I) /\ IsFiniteSet(D)
      /\ IsFiniteSet(O2) /\ IsFiniteSet(I2) /\ IsFiniteSet(D2)
      /\ D \subseteq D2
  BY CountedAreFinite, DoubledGrows
<1>2. /\ I \ {cur} \subseteq I2
      /\ ~Judging => I \subseteq I2
  BY IdlessStay
<1>3. (~ \E o \in OrderIds : Send(o)) => O2 \subseteq O
  <2>1. O2 \subseteq OrderIds
    BY DEF Orphans
  <2> QED BY <2>1, OrphansShrink
<1>4. /\ Enough(O, I)
      /\ pc \in {"prepare", "send"} => Enough(O, I \ {cur})
      /\ pc = "wait" => Enough(O \ {call}, I \ {cur})
      /\ pc = "attach" /\ (\A f \in Execs : store[f].order_id # call) => Enough(O, I \ {cur})
      /\ pc = "advance" /\ goal = "FAILED_TERMINAL" => Enough(O, I \ {cur})
  BY <1>0 DEF Known, PositionInv, OrphansAreSought, SoughtBy
<1>5. ASSUME NEW S, NEW T \in SUBSET S, NEW F, NEW E \in SUBSET F,
             IsFiniteSet(S), IsFiniteSet(F), Enough(S, E)
      PROVE  EnoughNext(T, F)
  BY <1>1, <1>5, Counting
<1>6. ASSUME NEW S, IsFiniteSet(S), NEW x
      PROVE  /\ Cardinality(S) \in Nat
             /\ IsFiniteSet(S \ {x}) /\ IsFiniteSet(S \cup {x})
             /\ x \in S => Cardinality(S \ {x}) = Cardinality(S) - 1
             /\ x \notin S => Cardinality(S \cup {x}) = Cardinality(S) + 1
             /\ Cardinality(S \cup {x}) <= Cardinality(S) + 1
             /\ Cardinality(S) <= Cardinality(S \ {x}) + 1
  <2>1. Cardinality(S) \in Nat
    BY <1>6, FS_CardinalityType
  <2>2. /\ IsFiniteSet(S \cup {x})
        /\ Cardinality(S \cup {x}) = IF x \in S THEN Cardinality(S) ELSE Cardinality(S) + 1
    BY <1>6, FS_AddElement
  <2>3. /\ IsFiniteSet(S \ {x})
        /\ Cardinality(S \ {x}) = IF x \in S THEN Cardinality(S) - 1 ELSE Cardinality(S)
    BY <1>6, FS_RemoveElement
  <2> QED BY <2>1, <2>2, <2>3
<1> SUFFICES /\ EnoughNext(O2, I2)
             /\ pc' \in {"prepare", "send"} => EnoughNext(O2, I2 \ {cur'})
             /\ pc' = "wait" => EnoughNext(O2 \ {call'}, I2 \ {cur'})
             /\ pc' = "attach" /\ (\A f \in Execs : store'[f].order_id # call') =>
                   EnoughNext(O2, I2 \ {cur'})
             /\ pc' = "advance" /\ goal' = "FAILED_TERMINAL" => EnoughNext(O2, I2 \ {cur'})
  BY DEF SoughtBy
<1>7. cur \in Execs /\ HasKey(cur, k) /\ Active(cur) /\ store[cur].order_id = None => cur \in I
  BY DEF Idless, recover_incomplete
<1>8. \A e \in I : HasKey(e, k) /\ Exists(e)
  BY DEF Idless, HasKey
<1>9. Send(call') /\ call' \in OrderIds => ~Judging /\ (HasKey(cur, k) => cur \in I)
  BY <1>7 DEF Send, Judging, Acknowledge, Attach, FailTerminal, Raised, Advance, Known, IInv,
     WorkingOnActive, RecordFitsPc
<1>10. /\ Cardinality(O) \in Nat /\ Cardinality(I) \in Nat /\ Cardinality(D) \in Nat
      /\ Cardinality(O2) \in Nat /\ Cardinality(I2) \in Nat /\ Cardinality(D2) \in Nat
  BY <1>1, FS_CardinalityType
<1> USE DEF Known, IInv
<1> HIDE DEF O, O2, I, I2, D, D2, Enough, EnoughNext
<1>11. EnoughNext(O2, I2)
  <2>1. ASSUME NEW o \in OrderIds, Send(o) PROVE EnoughNext(O2, I2)
    <3>1. pc = "send" /\ call' = o /\ ~Judging /\ I \subseteq I2
      BY <1>2, <1>9, <2>1 DEF Send
    <3>2. CASE HasKey(cur, k)
      <4>1. O2 \subseteq O \cup {o}
        BY <2>1, OrphansShrink DEF O, O2, Send
      <4>2. cur \in I
        BY <1>9, <2>1, <3>1, <3>2
      <4>3. Enough(O \cup {o}, I)
        <5>1. Enough(O, I \ {cur})
          BY <1>4, <3>1
        <5>2. /\ Cardinality(I \ {cur}) = Cardinality(I) - 1
              /\ Cardinality(O \cup {o}) <= Cardinality(O) + 1
          BY <1>1, <1>6, <4>2
        <5>3. IsFiniteSet(O \cup {o})
          BY <1>1, <1>6
        <5>4. Cardinality(O \cup {o}) \in Nat
          BY <5>3, FS_CardinalityType
        <5> QED BY <1>10, <5>1, <5>2, <5>4 DEF Enough
      <4>4. IsFiniteSet(O \cup {o})
        BY <1>1, <1>6
      <4> QED BY <1>1, <1>5, <3>1, <4>1, <4>3, <4>4
    <3>3. CASE ~HasKey(cur, k)
      <4>1. O2 \subseteq O
        BY <3>3, OrphansShrink DEF O, O2
      <4> QED BY <1>1, <1>4, <1>5, <3>1, <4>1
    <3> QED BY <3>2, <3>3
  <2>2. CASE Acknowledge \/ FailTerminal
    <3>1. pc = "wait"
      BY <2>2 DEF Acknowledge, FailTerminal, Raised
    <3>2. O2 \subseteq O \ {call}
      BY <2>2, AnsweredIsNoOrphan DEF O, O2
    <3>3. IsFiniteSet(O \ {call})
      BY <1>1, <1>6
    <3> QED BY <1>1, <1>2, <1>4, <1>5, <3>1, <3>2, <3>3
  <2>3. CASE Attach
    <3>1. pc = "attach" /\ O2 \subseteq O
      BY <1>3, <2>3 DEF Attach, Send
    <3>2. CASE \A f \in Execs : store[f].order_id # call
      BY <1>1, <1>2, <1>4, <1>5, <3>1, <3>2
    <3>3. CASE HasKey(cur, k) /\ \E f \in Execs : store[f].order_id = call
      <4>1. call \notin D /\ D \cup {call} \subseteq D2
        BY <1>1, <2>3, <3>3, AttachDoubles DEF D, D2
      <4>2. Cardinality(D) + 1 <= Cardinality(D2)
        <5>1. Cardinality(D \cup {call}) = Cardinality(D) + 1
          BY <1>1, <1>6, <4>1
        <5> QED BY <1>1, <4>1, <5>1, FS_Subset
      <4>3. Cardinality(I) <= Cardinality(I2) + 1
        <5>1. IsFiniteSet(I \ {cur}) /\ Cardinality(I) <= Cardinality(I \ {cur}) + 1
          BY <1>1, <1>6
        <5>2. Cardinality(I \ {cur}) <= Cardinality(I2)
          BY <1>1, <1>2, FS_Subset
        <5>3. Cardinality(I) \in Nat /\ Cardinality(I \ {cur}) \in Nat /\ Cardinality(I2) \in Nat
          BY <1>1, <1>6, <5>1
        <5> QED BY <5>1, <5>2, <5>3
      <4>4. Cardinality(O2) <= Cardinality(O)
        BY <1>1, <3>1, FS_Subset
      <4> QED BY <1>4, <1>10, <4>2, <4>3, <4>4 DEF Enough, EnoughNext
    <3>4. CASE ~HasKey(cur, k)
      <4>1. I \subseteq I2
        BY <1>2, <1>8, <3>4
      <4> QED BY <1>1, <1>4, <1>5, <3>1, <4>1
    <3> QED BY <3>2, <3>3, <3>4
  <2>4. CASE Advance /\ goal = "FAILED_TERMINAL"
    <3>1. pc = "advance" /\ O2 \subseteq O
      BY <1>3, <2>4 DEF Advance, Send
    <3> QED BY <1>1, <1>2, <1>4, <1>5, <2>4, <3>1
  <2>5. CASE ~Judging /\ ~ \E o \in OrderIds : Send(o)
    BY <1>1, <1>2, <1>3, <1>4, <1>5, <2>5
  <2> QED BY <2>1, <2>2, <2>3, <2>4, <2>5 DEF Judging
<1>12. ASSUME pc' \in {"prepare", "send"} PROVE EnoughNext(O2, I2 \ {cur'})
  <2>1. O2 \subseteq O /\ IsFiniteSet(I2 \ {cur'}) /\ IsFiniteSet(O \ {call})
    BY <1>1, <1>3, <1>6, <1>12 DEF Send
  <2>2. ASSUME NEW j \in Intents, NEW e \in Execs, OpenNew(j, e)
        PROVE  EnoughNext(O2, I2 \ {cur'})
    <3>1. I \subseteq I2 \ {cur'}
      BY <1>2, <1>8, <2>2
         DEF OpenNew, Judging, Acknowledge, Attach, FailTerminal, Raised, Advance
    <3> QED BY <1>1, <1>4, <1>5, <2>1, <3>1
  <2>3. CASE Prepare \/ (UNCHANGED <<pc, cur, call>>)
    <3>1. pc \in {"prepare", "send"} /\ cur' = cur
      BY <1>12, <2>3 DEF Prepare
    <3> QED BY <1>1, <1>2, <1>4, <1>5, <2>1, <3>1
  <2>4. CASE Retry
    <3>1. pc = "wait" /\ cur' = cur
      BY <2>4 DEF Retry, Raised
    <3>2. O2 \subseteq O \ {call}
      BY <2>4, AnsweredIsNoOrphan DEF O, O2
    <3> QED BY <1>1, <1>2, <1>4, <1>5, <2>1, <3>1, <3>2
  <2> QED BY <1>12, <2>2, <2>3, <2>4, CallStep
<1>13. ASSUME pc' = "wait" PROVE EnoughNext(O2 \ {call'}, I2 \ {cur'})
  <2>1. IsFiniteSet(I2 \ {cur'}) /\ IsFiniteSet(O \ {call})
    BY <1>1, <1>6
  <2>2. ASSUME NEW o \in OrderIds, Send(o) PROVE EnoughNext(O2 \ {call'}, I2 \ {cur'})
    <3>1. pc = "send" /\ cur' = cur /\ call' = o
      BY <2>2 DEF Send
    <3>2. O2 \ {call'} \subseteq O
      BY <2>2, <3>1, OrphansShrink DEF O, O2, Send
    <3> QED BY <1>1, <1>2, <1>4, <1>5, <2>1, <3>1, <3>2
  <2>3. CASE (UNCHANGED <<pc, cur, call>>) /\ ~ \E o \in OrderIds : Send(o)
    BY <1>1, <1>2, <1>3, <1>4, <1>5, <1>13, <2>1, <2>3
  <2> QED BY <1>13, <2>2, <2>3, CallStep
<1>14. ASSUME pc' = "attach", \A f \in Execs : store'[f].order_id # call'
       PROVE  EnoughNext(O2, I2 \ {cur'})
  <2>1. O2 \subseteq O /\ IsFiniteSet(I2 \ {cur'})
    BY <1>1, <1>3, <1>6, <1>14 DEF Send
  <2>2. ASSUME NEW e \in Execs, NEW o \in OrderIds, ReconAdopt(e, o)
        PROVE  EnoughNext(O2, I2 \ {cur'})
    <3>1. /\ pc = "recon" /\ cur' = e /\ call' = o
          /\ o \in recon.positions /\ OrderKey(o) = KeyOf[store[e].intent]
          /\ o \notin get_broker_order_ids /\ o \in get_broker_order_ids'
          /\ UNCHANGED <<store, orders>>
      BY <2>2, AdoptFacts DEF ReconAdopt
    <3>2. I \subseteq I2
      BY <1>2, <3>1 DEF Judging, Acknowledge, Attach, FailTerminal, Raised, Advance
    <3>3. CASE e \in I
      <4>1. o \in O /\ O2 \subseteq O \ {o}
        <5>1. KeyOf[store[e].intent] = k
          BY <1>8, <3>3 DEF HasKey
        <5>2. o \in O
          BY <1>14, <3>1, <5>1 DEF O, Orphans, InPass
        <5>3. o \notin O2
          BY <3>1 DEF O2, Orphans
        <5> QED BY <2>1, <5>2, <5>3
      <4>2. Enough(O \ {o}, I \ {e})
        <5>1. /\ Cardinality(O \ {o}) = Cardinality(O) - 1
              /\ Cardinality(I \ {e}) = Cardinality(I) - 1
              /\ Cardinality(O) \in Nat /\ Cardinality(I) \in Nat /\ Cardinality(D) \in Nat
          BY <1>1, <1>6, <3>3, <4>1
        <5> QED BY <1>4, <5>1 DEF Enough
      <4>3. IsFiniteSet(O \ {o}) /\ I \ {e} \subseteq I2 \ {cur'}
        BY <1>1, <1>6, <3>1, <3>2
      <4> QED BY <1>5, <2>1, <4>1, <4>2, <4>3
    <3>4. CASE e \notin I
      BY <1>1, <1>4, <1>5, <2>1, <3>1, <3>2, <3>4
    <3> QED BY <3>3, <3>4
  <2>3. CASE UNCHANGED <<pc, cur, call>>
    <3>1. pc = "attach" /\ cur' = cur /\ call' = call /\ call # None
      BY <1>14, <2>3, KnownAreOrders, ConstantsAssumption DEF RecordFitsPc
    <3>2. \A f \in Execs : store[f].order_id # call
      BY <1>14, <3>1, IdStays
    <3> QED BY <1>1, <1>2, <1>4, <1>5, <2>1, <3>1, <3>2
  <2> QED BY <1>14, <2>2, <2>3, VerdictStep DEF ReconKnown, ReconLost, Attach
<1>15. ASSUME pc' = "advance", goal' = "FAILED_TERMINAL" PROVE EnoughNext(O2, I2 \ {cur'})
  <2>1. O2 \subseteq O /\ IsFiniteSet(I2 \ {cur'})
    BY <1>1, <1>3, <1>6, <1>15 DEF Send
  <2>2. ASSUME NEW e \in Execs, ReconLost(e) PROVE EnoughNext(O2, I2 \ {cur'})
    <3>1. pc = "recon" /\ cur' = e
      BY <2>2 DEF ReconLost
    <3>2. I \subseteq I2
      BY <1>2, <3>1 DEF Judging, Acknowledge, Attach, FailTerminal, Raised, Advance
    <3>3. Enough(O, I \ {e})
      <4>1. CASE HasKey(e, k)
        <5>1. Cardinality(O) <= Cardinality(I \ {e})
          BY <2>2, <4>1, LostHasNone DEF O, I
        <5>2. /\ Cardinality(O) \in Nat /\ Cardinality(D) \in Nat
              /\ Cardinality(I \ {e}) \in Nat
          BY <1>1, <1>6
        <5> QED BY <5>1, <5>2 DEF Enough
      <4>2. CASE ~HasKey(e, k)
        <5>1. I \ {e} = I
          BY <1>8, <4>2
        <5> QED BY <1>4, <5>1
      <4> QED BY <4>1, <4>2
    <3> QED BY <1>1, <1>5, <2>1, <3>1, <3>2, <3>3
  <2>3. ~Attach
    BY <1>15 DEF Attach, RecordFitsPc
  <2>4. CASE UNCHANGED <<pc, cur, goal>>
    BY <1>1, <1>2, <1>4, <1>5, <1>15, <2>1, <2>4
  <2> QED BY <1>15, <2>2, <2>3, <2>4, VerdictStep DEF ReconAdopt, ReconKnown
<1> QED BY <1>11, <1>12, <1>13, <1>14, <1>15

(* Where the assumptions hold, the strengthening does in every state, for  *)
(* any finite number of records and orders, on one market or on many.      *)
THEOREM PositionInvariance ==
    ASSUME PositionAssumption, IsFiniteSet(Execs), IsFiniteSet(OrderIds)
    PROVE  Spec => []PositionInv
<1>1. Init => PositionInv
  <2> SUFFICES ASSUME Init PROVE PositionInv
    OBVIOUS
  <2>1. /\ FinishedIsCompleted /\ LinkedIsComplete
        /\ OrdersFitRecords /\ JudgedIsSettled /\ LateIsWaiting
    BY ConstantsAssumption DEF Init, FinishedIsCompleted, LinkedIsComplete, OrdersFitRecords,
       JudgedIsSettled, LateIsWaiting, InPass, Settled, NoRecord, NoRecon, Exists
  <2>2. ASSUME NEW k PROVE SoughtBy(Orphans(k), Idless(k), k)
    <3>1. Orphans(k) = {}
      BY DEF Init, Orphans, Alive, InPass
    <3>2. /\ Cardinality(Orphans(k)) = 0
          /\ Cardinality(Idless(k)) \in Nat /\ Cardinality(Doubled(k)) \in Nat
      BY <3>1, CountedAreFinite, FS_EmptySet, FS_CardinalityType
    <3> QED BY <3>2 DEF SoughtBy
  <2>3. OrphansAreSought
    BY <2>2 DEF Init, OrphansAreSought
  <2> QED BY <2>1, <2>3 DEF PositionInv
<1>2. IInv /\ OrdersFitPc /\ PositionInv /\ [Next]_vars => PositionInv'
  <2> SUFFICES ASSUME Known, [Next]_vars PROVE PositionInv'
    BY DEF Known
  <2>1. FinishedIsCompleted' /\ LinkedIsComplete'
    BY FinishedStep, LinkedStep DEF Known, PositionInv, IInv
  <2> QED BY <2>1, OrdersFitRecordsStep, JudgedIsSettledStep, LateIsWaitingStep,
       OrphansAreSoughtStep DEF PositionInv
<1>3. "transient" \notin HidesFill
  BY DEF PositionAssumption
<1> QED BY <1>1, <1>2, <1>3, Invariance, OrdersFit, PTL DEF Spec

(* No open position is forgotten: where flights and passes are short       *)
(* enough, each that the journal does not know has an incomplete record on *)
(* its market that will adopt it, except one for every order that recovery *)
(* gave to two records, whatever crashed, was late or was interrupted.     *)
THEOREM NoneForgotten ==
    ASSUME PositionAssumption, IsFiniteSet(Execs), IsFiniteSet(OrderIds)
    PROVE  Spec => []NoForgottenPosition
<1>1. Known => NoForgottenPosition
  <2> SUFFICES ASSUME Known, NEW i \in Intents, NEW k, k = KeyOf[i]
               PROVE  Cardinality({o \in get_positions \ get_broker_order_ids : OrderKey(o) = k})
                         <= Cardinality({e \in recover_incomplete : HasKey(e, k)})
                              + Cardinality(Doubled(k))
    BY DEF NoForgottenPosition
  <2> DEFINE unknown == {o \in get_positions \ get_broker_order_ids : OrderKey(o) = k}
             looking == {e \in recover_incomplete : HasKey(e, k)}
             Held == {o \in unknown : \E e \in Execs : store[e].order_id = o}
             Holding == {e \in looking : store[e].order_id # None}
             f == [o \in Held |-> orders[o].by]
  <2> USE DEF Known, IInv, PositionInv
  <2>1. /\ IsFiniteSet(unknown) /\ IsFiniteSet(looking)
        /\ IsFiniteSet(Held) /\ IsFiniteSet(Holding)
    <3>1. /\ unknown \in SUBSET OrderIds /\ Held \in SUBSET OrderIds
          /\ looking \in SUBSET Execs /\ Holding \in SUBSET Execs
      BY DEF get_positions, recover_incomplete
    <3> QED BY <3>1, FS_Subset
  <2>2. Cardinality(unknown \ Held) <= Cardinality(Idless(k)) + Cardinality(Doubled(k))
    <3>1. unknown \ Held \in SUBSET Orphans(k)
      BY DEF get_positions, Orphans, Alive
    <3>2. Cardinality(Orphans(k)) <= Cardinality(Idless(k)) + Cardinality(Doubled(k))
      BY DEF OrphansAreSought, SoughtBy
    <3>3. /\ IsFiniteSet(Orphans(k)) /\ IsFiniteSet(Idless(k)) /\ IsFiniteSet(Doubled(k))
      BY CountedAreFinite
    <3> QED BY <3>1, <3>2, <3>3, Counting
  <2>3. Cardinality(Held) <= Cardinality(Holding)
    <3>1. ASSUME NEW o \in Held
          PROVE  orders[o].by \in Holding /\ store[orders[o].by].order_id = o
      <4>1. PICK e \in Execs : store[e].order_id = o
        OBVIOUS
      <4>2. /\ o \in OrderIds /\ o # None /\ o \notin get_broker_order_ids /\ OrderKey(o) = k
        BY ConstantsAssumption DEF get_positions
      <4>3. orders[o].by = e /\ KeyOf[store[e].intent] = k
        BY <4>1, <4>2 DEF OrdersFitRecords
      <4>4. Active(e)
        BY <4>1, <4>2 DEF FinishedIsCompleted, CompletedIsKnown, KnownOrders, PositionAssumption
      <4> QED BY <4>1, <4>2, <4>3, <4>4
           DEF recover_incomplete, HasKey, Exists, Active, States, TERMINAL_STATES
    <3>2. f \in Injection(Held, Holding)
      BY <3>1 DEF Injection, IsInjective
    <3> QED BY <2>1, <3>2, FS_Injection
  <2>4. Cardinality(unknown) <= Cardinality(unknown \ Held) + Cardinality(Held)
    BY <2>1, TwoParts
  <2>5. Cardinality(Idless(k)) + Cardinality(Holding) <= Cardinality(looking)
    <3>1. Idless(k) = looking \ Holding
      BY DEF Idless
    <3> QED BY <2>1, <3>1, TwoParts
  <2>6. \A S \in {unknown, unknown \ Held, Held, looking, Holding, Idless(k), Doubled(k)} :
           Cardinality(S) \in Nat
    <3>1. IsFiniteSet(unknown \ Held) /\ IsFiniteSet(Idless(k)) /\ IsFiniteSet(Doubled(k))
      BY <2>1, CountedAreFinite, FS_Subset
    <3> QED BY <2>1, <3>1, FS_CardinalityType
  <2> QED BY <2>2, <2>3, <2>4, <2>5, <2>6
<1>2. "transient" \notin HidesFill
  BY DEF PositionAssumption
<1> QED BY <1>1, <1>2, Invariance, OrdersFit, PositionInvariance, PTL DEF Known

-----------------------------------------------------------------------------
(* A record left anywhere can be finished: the search for a path.          *)

(* The search's recursion: L holds the layers of a terminal state up to m. *)
IsLayers(L, terminal, m) ==
    L = [n \in 0..m |->
            IF n = 0 THEN {terminal} ELSE UNION {OneStepCloser(S) : S \in {L[n-1]}}]

(* The recursion has a solution for every depth; a least depth without one *)
(* would be one more than a depth with one.                                *)
LEMMA LayersExist ==
    ASSUME NEW terminal, NEW m \in Nat PROVE \E L : IsLayers(L, terminal, m)
<1> DEFINE C == {k \in Nat : ~ \E L : IsLayers(L, terminal, k)}
<1> SUFFICES ASSUME C # {} PROVE FALSE
  OBVIOUS
<1>1. PICK k \in C : \A j \in C : ~ (<<j, k>> \in OpToRel(<, Nat))
  <2> HIDE DEF C
  <2>1. C \subseteq Nat
    BY DEF C
  <2> QED
    BY <2>1, WFMin, NatLessThanWellFounded
<1>2. k \in Nat /\ \A j \in Nat : j < k => \E L : IsLayers(L, terminal, j)
  BY <1>1 DEF OpToRel
<1>5. ~ \E L : IsLayers(L, terminal, k)
  OBVIOUS
<1> HIDE DEF C
<1>3. CASE k = 0
  <2>1. IsLayers([n \in 0..0 |-> {terminal}], terminal, 0)
    BY DEF IsLayers
  <2> QED
    BY <1>5, <1>3, <2>1
<1>4. CASE k # 0
  <2>1. k - 1 \in Nat /\ k - 1 < k
    BY <1>2, <1>4
  <2>2. PICK M : IsLayers(M, terminal, k - 1)
    BY <1>2, <2>1
  <2> DEFINE L == [n \in 0..k |-> IF n = k THEN UNION {OneStepCloser(S) : S \in {M[k-1]}} ELSE M[n]]
  <2>3. ASSUME NEW n \in 0..k
        PROVE  L[n] = IF n = 0 THEN {terminal} ELSE UNION {OneStepCloser(S) : S \in {L[n-1]}}
    <3>1. CASE n = k
      BY <1>4, <2>1, <3>1
    <3>2. CASE n # k
      <4>1. n \in 0..(k-1) /\ L[n] = M[n]
        BY <1>2, <3>2
      <4>2. n # 0 => n - 1 \in 0..k /\ n - 1 # k
        BY <1>2, <4>1
      <4>3. n # 0 => L[n-1] = M[n-1]
        BY <4>2
      <4>4. M[n] = IF n = 0 THEN {terminal} ELSE UNION {OneStepCloser(S) : S \in {M[n-1]}}
        BY <2>2, <4>1 DEF IsLayers
      <4> HIDE DEF L
      <4> QED
        BY <4>1, <4>3, <4>4
    <3> QED
      BY <3>1, <3>2
  <2>4. L = [n \in 0..k |-> L[n]]
    OBVIOUS
  <2> HIDE DEF L
  <2>5. IsLayers(L, terminal, k)
    BY <2>3, <2>4 DEF IsLayers
  <2> QED
    BY <1>5, <2>5
<1> QED
  BY <1>3, <1>4

(* Two intervals and their sizes.                                          *)
LEMMA Sixteen ==
    /\ IsFiniteSet(1..16) /\ Cardinality(1..16) = 16
    /\ IsFiniteSet(0..16) /\ Cardinality(0..16) = 17
<1>1. ASSUME NEW a \in Int, NEW b \in Int, a <= b
      PROVE  IsFiniteSet(a..b) /\ Cardinality(a..b) = b - a + 1
  BY <1>1, FS_Interval
<1>2. 0 \in Int /\ 1 \in Int /\ 16 \in Int /\ 0 <= 16 /\ 1 <= 16
  OBVIOUS
<1>3. IsFiniteSet(1..16) /\ Cardinality(1..16) = 16 - 1 + 1
  BY <1>1, <1>2, Zenon
<1>4. IsFiniteSet(0..16) /\ Cardinality(0..16) = 16 - 0 + 1
  BY <1>1, <1>2, Zenon
<1> QED
  BY <1>3, <1>4

(* A record has sixteen states.                                            *)
LEMMA SixteenStates == MaxPath = 16
<1> DEFINE f == <<"COMPLETED", "FAILED_TERMINAL", "CANCELLED", "REJECTED", "SIGNAL_RECEIVED",
                  "GOVERNANCE_VALIDATED", "PERMISSION_VALIDATED", "RISK_APPROVED",
                  "SUBMISSION_PENDING", "BROKER_ACKNOWLEDGED", "PARTIALLY_FILLED", "FILLED",
                  "RECOVERY_PENDING", "RECONCILED", "JOURNALED", "PROJECTED">>
<1>1. f \in [1..16 -> States]
  BY DEF States, TERMINAL_STATES
<1>2. \A s \in States : \E n \in 1..16 : f[n] = s
  BY DEF States, TERMINAL_STATES
<1>3. \A a, b \in 1..16 : f[a] = f[b] => a = b
  OBVIOUS
<1> HIDE DEF f
<1>4. f \in Bijection(1..16, States)
  BY <1>1, <1>2, <1>3 DEF Bijection, Injection, Surjection, IsInjective
<1>5. ExistsBijection(1..16, States)
  BY <1>4 DEF ExistsBijection
<1>6. IsFiniteSet(1..16) /\ Cardinality(1..16) = 16
  BY Sixteen
<1> QED
  BY <1>5, <1>6, FS_Bijection DEF MaxPath

(* Hence Layer is a solution of its recursion.                             *)
LEMMA LayerIsLayers ==
    ASSUME NEW terminal \in TERMINAL_STATES
    PROVE  IsLayers(Layer[terminal], terminal, MaxPath)
<1>1. Layer[terminal] = CHOOSE L : IsLayers(L, terminal, MaxPath)
  BY DEF Layer, IsLayers
<1> QED
  BY <1>1, LayersExist, SixteenStates

(* What the search finds from one layer to the next.                       *)
LEMMA LayerSteps ==
    ASSUME NEW terminal \in TERMINAL_STATES
    PROVE  /\ Layer[terminal][0] = {terminal}
           /\ \A n \in 0..15 : Layer[terminal][n+1] = OneStepCloser(Layer[terminal][n])
<1>1. IsLayers(Layer[terminal], terminal, 16)
  BY LayerIsLayers, SixteenStates
<1>2. Layer[terminal][0] = {terminal}
  BY <1>1 DEF IsLayers
<1>3. ASSUME NEW n \in 0..15
      PROVE  Layer[terminal][n+1] = OneStepCloser(Layer[terminal][n])
  <2>1. n + 1 \in 0..16 /\ n + 1 # 0 /\ (n + 1) - 1 = n
    OBVIOUS
  <2>2. Layer[terminal][n+1] = UNION {OneStepCloser(S) : S \in {Layer[terminal][n]}}
    BY <1>1, <2>1 DEF IsLayers
  <2> QED
    BY <2>2
<1> QED
  BY <1>2, <1>3

(* A state in some layer has a path.                                       *)
LEMMA InLayerReaches ==
    ASSUME NEW terminal \in TERMINAL_STATES, NEW s \in States, NEW k \in 0..16,
           s \in Layer[terminal][k]
    PROVE  Reaches(s, terminal)
<1> DEFINE Away == {n \in 0..MaxPath : s \notin Layer[terminal][n]}
<1>1. IsFiniteSet(0..16) /\ Cardinality(0..16) = 17
  BY Sixteen
<1>2. IsFiniteSet((0..16) \ {k}) /\ Cardinality((0..16) \ {k}) = 16
  BY <1>1, FS_RemoveElement
<1>3. Away \in SUBSET ((0..16) \ {k})
  BY SixteenStates
<1> HIDE DEF Away
<1>4. Cardinality(Away) <= 16
  BY <1>2, <1>3, FS_Subset
<1>5. Distance[terminal][s] = Cardinality(Away)
  BY DEF Distance, Away
<1> QED
  BY <1>4, <1>5, SixteenStates DEF Reaches

(* The search finds COMPLETED from every state that is not terminal.       *)
LEMMA CompletedInReach ==
    ASSUME NEW s \in States \ TERMINAL_STATES PROVE Reaches(s, "COMPLETED")
<1> DEFINE L == Layer["COMPLETED"]
<1>1. /\ L[0] = {"COMPLETED"}
      /\ \A n \in 0..15 : L[n+1] = OneStepCloser(L[n])
  BY LayerSteps DEF TERMINAL_STATES
<1> HIDE DEF L
<1>2. ASSUME NEW n \in 0..15, NEW t \in States, NEW u \in L[n],
             u \in ALLOWED_TRANSITIONS(t)
      PROVE  t \in L[n+1]
  BY <1>1, <1>2 DEF OneStepCloser
<1>3. \A n \in 0..15 : L[n] \subseteq L[n+1]
  BY <1>1 DEF OneStepCloser
<1> USE DEF States, TERMINAL_STATES, ALLOWED_TRANSITIONS
<1>4. "COMPLETED" \in L[0]
  BY <1>1
<1>5. {"FILLED", "RECONCILED", "JOURNALED", "PROJECTED"} \subseteq L[1]
  BY <1>2, <1>4
<1>6. {"FILLED", "RECONCILED", "BROKER_ACKNOWLEDGED", "PARTIALLY_FILLED", "RECOVERY_PENDING"} \subseteq L[2]
  BY <1>2, <1>5, <1>3
<1>7. "SUBMISSION_PENDING" \in L[3]
  BY <1>2, <1>6
<1>8. "RISK_APPROVED" \in L[4]
  BY <1>2, <1>7
<1>9. {"PERMISSION_VALIDATED", "SIGNAL_RECEIVED"} \subseteq L[5]
  BY <1>2, <1>8
<1>10. "GOVERNANCE_VALIDATED" \in L[6]
  BY <1>2, <1>9
<1>11. \E k \in 0..16 : s \in L[k]
  BY <1>5, <1>6, <1>7, <1>8, <1>9, <1>10
<1>12. "COMPLETED" \in TERMINAL_STATES
  OBVIOUS
<1> QED
  BY <1>11, <1>12, InLayerReaches DEF L

(* The states a record may leave for FAILED_TERMINAL at once.              *)
Abandonable == {s \in States : "FAILED_TERMINAL" \in ALLOWED_TRANSITIONS(s)}

(* From such a state the search returns this one transition and no other.  *)
LEMMA FailureInReach ==
    ASSUME NEW s \in Abandonable
    PROVE  /\ Reaches(s, "FAILED_TERMINAL")
           /\ ShortestPathSteps(s, "FAILED_TERMINAL") \subseteq {"FAILED_TERMINAL"}
<1> DEFINE L == Layer["FAILED_TERMINAL"]
           Away(t) == {n \in 0..MaxPath : t \notin L[n]}
<1>0. "FAILED_TERMINAL" \in TERMINAL_STATES /\ s \in States
  BY DEF TERMINAL_STATES, Abandonable
<1>1. /\ L[0] = {"FAILED_TERMINAL"}
      /\ \A n \in 0..15 : L[n+1] = OneStepCloser(L[n])
  BY <1>0, LayerSteps
<1>2. \A t \in States : Distance["FAILED_TERMINAL"][t] = Cardinality(Away(t))
  BY <1>0 DEF Distance
<1>3. \A t : Away(t) \in SUBSET (0..16)
  BY SixteenStates
<1>4. IsFiniteSet(0..16)
  BY Sixteen
<1> HIDE DEF L
<1>5. s \in L[1]
  <2>1. "FAILED_TERMINAL" \in ALLOWED_TRANSITIONS(s) \cap L[0]
    BY <1>1 DEF Abandonable
  <2>2. L[0+1] = OneStepCloser(L[0])
    BY <1>1
  <2> QED
    BY <1>0, <2>1, <2>2 DEF OneStepCloser
<1>6. \A n \in 1..16 : s \in L[n]
  <2>1. \A n \in 0..15 : L[n] \subseteq L[n+1]
    BY <1>1 DEF OneStepCloser
  <2>2. s \in L[2] /\ s \in L[3] /\ s \in L[4] /\ s \in L[5] /\ s \in L[6]
    BY <1>5, <2>1
  <2>3. s \in L[7] /\ s \in L[8] /\ s \in L[9] /\ s \in L[10] /\ s \in L[11]
    BY <2>1, <2>2
  <2>4. s \in L[12] /\ s \in L[13] /\ s \in L[14] /\ s \in L[15] /\ s \in L[16]
    BY <2>1, <2>3
  <2> QED
    BY <1>5, <2>2, <2>3, <2>4
<1>7. Away(s) \in SUBSET {0}
  BY <1>6, SixteenStates
<1>8. Cardinality(Away(s)) <= 1
  <2>1. IsFiniteSet({0}) /\ Cardinality({0}) = 1
    BY FS_Singleton
  <2> HIDE DEF Away
  <2> QED
    BY <1>7, <2>1, FS_Subset
<1>9. Reaches(s, "FAILED_TERMINAL")
  BY <1>5, <1>0, InLayerReaches DEF L
<1>10. ASSUME NEW t \in ShortestPathSteps(s, "FAILED_TERMINAL") PROVE t = "FAILED_TERMINAL"
  <2>1. /\ t \in States
        /\ Distance["FAILED_TERMINAL"][t] + 1 = Distance["FAILED_TERMINAL"][s]
    BY StepOfPath DEF ShortestPathSteps
  <2>2. IsFiniteSet(Away(t)) /\ Cardinality(Away(t)) \in Nat
    BY <1>3, <1>4, FS_Subset, FS_CardinalityType
  <2>3. IsFiniteSet(Away(s)) /\ Cardinality(Away(s)) \in Nat
    BY <1>3, <1>4, FS_Subset, FS_CardinalityType
  <2>4. Cardinality(Away(t)) = 0
    BY <1>0, <1>2, <1>8, <2>1, <2>2, <2>3
  <2>5. Away(t) = {}
    BY <2>2, <2>4, FS_EmptySet
  <2>6. 0 \in 0..MaxPath
    BY SixteenStates
  <2>7. t \in L[0]
    BY <2>5, <2>6
  <2> QED
    BY <1>1, <2>7
<1> QED
  BY <1>9, <1>10

(* A record without an order id may always be given up at once.            *)
UnplacedIsAbandonable ==
    \A e \in Execs : Active(e) /\ store[e].order_id = None => store[e].state \in Abandonable

(* Initially there are no records,                                         *)
LEMMA InitAbandonable == Init => UnplacedIsAbandonable
BY DEF Init, UnplacedIsAbandonable, Active, NoRecord, States, TERMINAL_STATES

(* and no step leaves a record without an order where it cannot be given   *)
(* up: what goes on from SUBMISSION_PENDING has an order id or an end.     *)
LEMMA AbandonableStep ==
    ASSUME IInv, UnplacedIsAbandonable, [Next]_vars PROVE UnplacedIsAbandonable'
<1> SUFFICES ASSUME NEW e \in Execs, Active(e)', store'[e].order_id = None
             PROVE  store'[e].state \in Abandonable
  BY DEF UnplacedIsAbandonable
<1> USE DEF IInv
<1>1. CASE store'[e] = store[e]
  BY <1>1 DEF UnplacedIsAbandonable, Active
<1>2. ASSUME NEW i \in Intents, NEW f \in Execs, OpenNew(i, f), store'[e] # store[e]
      PROVE  store'[e].state \in Abandonable
  BY <1>2 DEF OpenNew, TypeOK, Abandonable, States, TERMINAL_STATES, ALLOWED_TRANSITIONS
<1>3. ASSUME Transitions, e = cur, Active(e), store[e].order_id = None
      PROVE  store'[e].state \in Abandonable
  <2>1. store[e].state \in Abandonable
    BY <1>3 DEF UnplacedIsAbandonable
  <2>2. \A s \in States : store' = transition(cur, s) => store'[e].state = s
    BY <1>3, TransitionEffect
  <2>3. store'[e].state \in States \ TERMINAL_STATES
    BY DEF Active
  <2>4. CASE Prepare
    BY <1>3, <2>2, <2>4 DEF Prepare, PreparedAfter, RecordFitsPc, Abandonable,
       States, TERMINAL_STATES, ALLOWED_TRANSITIONS
  <2>5. CASE FailAmbiguous \/ Retry
    BY <2>2, <2>5 DEF FailAmbiguous, Retry, Abandonable,
       States, TERMINAL_STATES, ALLOWED_TRANSITIONS
  <2>6. CASE FailTerminal
    BY <2>2, <2>3, <2>6 DEF FailTerminal, States, TERMINAL_STATES
  <2>7. CASE Mark
    BY <1>3, <2>7, KnownAreOrders, ConstantsAssumption DEF Mark, RecordFitsPc
  <2>8. CASE Advance
    <3>1. goal = "FAILED_TERMINAL"
      BY <1>3, <2>8, KnownAreOrders, ConstantsAssumption
         DEF Advance, RecordFitsPc, TypeOK, TERMINAL_STATES
    <3>2. PICK s \in ShortestPathSteps(store[cur].state, goal) : store' = transition(cur, s)
      BY <2>8 DEF Advance
    <3>3. s = "FAILED_TERMINAL"
      BY <1>3, <2>1, <3>1, <3>2, FailureInReach
    <3>4. store'[e].state = "FAILED_TERMINAL"
      BY <2>2, <3>2, <3>3 DEF States, TERMINAL_STATES
    <3> QED
      BY <2>3, <3>4 DEF TERMINAL_STATES
  <2> QED
    BY <1>3, <2>4, <2>5, <2>6, <2>7, <2>8 DEF Transitions
<1>4. ASSUME Acknowledge \/ Attach, store'[e].order_id = call PROVE FALSE
  BY <1>4, KnownAreOrders, ConstantsAssumption DEF Acknowledge, Attach, RecordFitsPc
<1>5. ASSUME Age(e) PROVE store'[e].state \in Abandonable
  BY <1>5, RecordStep DEF Age, UnplacedIsAbandonable, Active, TypeOK
<1> QED
  BY <1>1, <1>2, <1>3, <1>4, <1>5, RecordStep

(* Wherever the task dies or raises, the pass that finds the record can    *)
(* finish it: advance_to_terminal never raises "no valid transition path". *)
THEOREM Recoverable == Spec => []IncompleteIsRecoverable
<1>1. IInv /\ UnplacedIsAbandonable => IncompleteIsRecoverable
  <2> SUFFICES ASSUME UnplacedIsAbandonable, NEW e \in Execs, Active(e)
               PROVE  Reaches(store[e].state,
                         IF store[e].order_id = None THEN "FAILED_TERMINAL" ELSE "COMPLETED")
    BY DEF IncompleteIsRecoverable
  <2>1. CASE store[e].order_id = None
    BY <2>1, FailureInReach DEF UnplacedIsAbandonable
  <2>2. CASE store[e].order_id # None
    BY <2>2, CompletedInReach DEF Active
  <2> QED
    BY <2>1, <2>2
<1>2. IInv /\ UnplacedIsAbandonable /\ [Next]_vars => UnplacedIsAbandonable'
  BY AbandonableStep
<1> QED
  BY <1>1, <1>2, InitAbandonable, Invariance, PTL DEF Spec

-----------------------------------------------------------------------------
(* The refinement.                                                         *)

(* The initial state of the runner is the initial state of the ledger.     *)
LEMMA InitRefines == Init => Ledger!LedgerInit
<1> SUFFICES ASSUME Init PROVE Ledger!LedgerInit
  OBVIOUS
<1>1. \A e \in Execs : /\ OutcomeOf(e) = "none"
                       /\ store[e].intent = None
                       /\ store[e].state # "COMPLETED"
  BY DEF Init, OutcomeOf, NoRecord, TERMINAL_STATES
<1>2. get_broker_order_ids = {}
  BY DEF Init, get_broker_order_ids
<1> QED BY <1>1, <1>2 DEF Ledger!LedgerInit

(* Lifts what a write does to one record to the functions of the ledger.   *)
LEMMA LedgerUnchanged ==
    ASSUME IInv, UNCHANGED journal,
           \A e \in Execs : /\ OutcomeOf(e)' = OutcomeOf(e)
                            /\ store'[e].intent = store[e].intent
                            /\ store'[e].state = "COMPLETED" <=> store[e].state = "COMPLETED"
                            /\ store[e].state = "COMPLETED" =>
                                store'[e].order_id = store[e].order_id
    PROVE  UNCHANGED Ledger!ledgerVars
BY DEF Ledger!ledgerVars, get_broker_order_ids

(* Every step is a step of the ledger or leaves it alone.                  *)
LEMMA StepRefines ==
    ASSUME ~InsertsMayFail
    PROVE  IInv /\ [Next]_vars => [Ledger!LedgerNext]_(Ledger!ledgerVars)
<1> SUFFICES ASSUME IInv, [Next]_vars
             PROVE  Ledger!LedgerNext \/ UNCHANGED Ledger!ledgerVars
  OBVIOUS
<1> USE DEF IInv
<1>1. CASE Transitions
  <2>1. PICK e \in Execs : e = cur /\ Active(e) /\ UNCHANGED journal
    BY <1>1, TransitionLegal
  <2>2. PICK s \in States :
          /\ store' = transition(e, s)
          /\ s = "COMPLETED" => store[e].order_id \in get_broker_order_ids
    BY <1>1, <2>1, TransitionLegal DEF KnownOrders
  <2>3. /\ store'[e].state = s
        /\ store'[e].order_id = store[e].order_id
        /\ store'[e].intent = store[e].intent
        /\ \A f \in Execs \ {e} : store'[f] = store[f]
    BY <2>2, TransitionEffect
  <2>4. OutcomeOf(e) = "pending" /\ store[e].state # "COMPLETED"
    BY <2>1 DEF OutcomeOf, Active, States, TERMINAL_STATES
  <2>5. \A f \in Execs \ {e} : OutcomeOf(f)' = OutcomeOf(f)
    BY <2>3 DEF OutcomeOf
  <2>6. get_broker_order_ids' = get_broker_order_ids
    BY <2>1 DEF get_broker_order_ids
  <2>7. CASE s = "COMPLETED"
    <3>1. OutcomeOf(e)' = "opened"
      BY <2>3, <2>7 DEF OutcomeOf
    <3>2. PICK o \in OrderIds : o = store[e].order_id /\ o \in get_broker_order_ids
      BY <2>2, <2>7 DEF get_broker_order_ids
    <3>3. Ledger!Opened(e, o)
      BY <2>3, <2>4, <2>5, <2>6, <2>7, <3>1, <3>2 DEF Ledger!Opened
    <3> QED BY <3>3 DEF Ledger!LedgerNext
  <2>8. CASE s \in TERMINAL_STATES \ {"COMPLETED"}
    <3>1. OutcomeOf(e)' = "lost"
      BY <2>3, <2>8 DEF OutcomeOf, TERMINAL_STATES
    <3>2. Ledger!Lost(e)
      BY <2>3, <2>4, <2>5, <2>6, <2>8, <3>1 DEF Ledger!Lost
    <3> QED BY <3>2 DEF Ledger!LedgerNext
  <2>9. CASE s \notin TERMINAL_STATES
    <3>1. OutcomeOf(e)' = "pending" /\ store'[e].state # "COMPLETED"
      BY <2>3, <2>9 DEF OutcomeOf, States, TERMINAL_STATES
    <3> QED BY <2>1, <2>3, <2>4, <2>5, <3>1, LedgerUnchanged
  <2> QED BY <2>7, <2>8, <2>9
<1>2. CASE ~Transitions
  <2>1. ASSUME NEW i \in Intents, NEW e \in Execs, OpenNew(i, e) PROVE Ledger!LedgerNext
    <3>1. OutcomeOf(e) = "none" /\ OutcomeOf(e)' = "pending"
      BY <2>1 DEF OpenNew, Exists, OutcomeOf, TypeOK, TERMINAL_STATES
    <3>2. \A f \in Execs \ {e} : store'[f] = store[f] /\ OutcomeOf(f)' = OutcomeOf(f)
      BY <2>1 DEF OpenNew, OutcomeOf, TypeOK
    <3>3. /\ store'[e].intent = i
          /\ store[e].state # "COMPLETED" /\ store'[e].state # "COMPLETED"
      BY <2>1 DEF OpenNew, Exists, TypeOK
    <3>4. \A f \in Execs : OutcomeOf(f) = "pending" => Active(f)
      BY DEF OutcomeOf, Active, TypeOK, States, TERMINAL_STATES
    <3>5. ~ \E f \in Execs : OutcomeOf(f) = "pending" /\ store[f].intent = i
      BY <2>1, <3>4 DEF OpenNew, find_active_by_identity
    <3>6. get_broker_order_ids' = get_broker_order_ids
      BY <2>1 DEF OpenNew, get_broker_order_ids
    <3>7. Ledger!Begin(e, i)
      BY <3>1, <3>2, <3>3, <3>5, <3>6 DEF Ledger!Begin
    <3> QED BY <3>7 DEF Ledger!LedgerNext
  <2>2. CASE Acknowledge \/ Attach \/ \E e \in Execs : Age(e)
    <3>1. /\ UNCHANGED journal
          /\ \A e \in Execs : /\ store'[e].intent = store[e].intent
                              /\ Active(e) => Active(e)'
                              /\ ~Active(e) => store'[e] = store[e]
      BY <2>2 DEF Acknowledge, Attach, Age, volatile, transition, TypeOK, WorkingOnActive,
         Active, States, TERMINAL_STATES
    <3>2. \A e \in Execs : Active(e) => OutcomeOf(e) = "pending" /\ store[e].state # "COMPLETED"
      BY DEF Active, OutcomeOf, States, TERMINAL_STATES
    <3>3. \A e \in Execs : Active(e)' => OutcomeOf(e)' = "pending" /\ store'[e].state # "COMPLETED"
      BY DEF Active, OutcomeOf, States, TERMINAL_STATES
    <3>4. \A e \in Execs : ~Active(e) => OutcomeOf(e)' = OutcomeOf(e)
      BY <3>1 DEF OutcomeOf
    <3> QED BY <3>1, <3>2, <3>3, <3>4, LedgerUnchanged
  <2>3. ASSUME UNCHANGED store, NEW o \in OrderIds, journal' = [journal EXCEPT ![o] = @ + 1]
        PROVE  Ledger!LedgerNext
    <3>1. get_broker_order_ids' = get_broker_order_ids \cup {o}
      BY <2>3, JournalRow
    <3>2. Ledger!Record(o)
      BY <2>3, <3>1 DEF Ledger!Record, OutcomeOf
    <3> QED BY <3>2 DEF Ledger!LedgerNext
  <2>4. CASE JournalOpen
    BY <2>3, <2>4 DEF JournalOpen, RecordFitsPc, record_signal
  <2>5. ASSUME NEW e \in Execs, NEW o \in OrderIds, ReconAdopt(e, o) PROVE Ledger!LedgerNext
    BY <2>3, <2>5 DEF ReconAdopt, record_signal
  <2>6. CASE UNCHANGED <<store, journal>>
    BY <2>6 DEF Ledger!ledgerVars, OutcomeOf, get_broker_order_ids
  <2>7. ASSUME NEW e \in Execs, ReconKnown(e)
        PROVE  Ledger!LedgerNext \/ UNCHANGED Ledger!ledgerVars
    <3>1. store[e].order_id \in OrderIds /\ UNCHANGED store
      BY <2>7 DEF ReconKnown, TypeOK, Ids
    <3>2. CASE store[e].order_id \in recon.linked
      BY <2>6, <2>7, <3>1, <3>2 DEF ReconKnown, ensure_journaled
    <3>3. CASE store[e].order_id \notin recon.linked
      BY <2>3, <2>7, <3>1, <3>3 DEF ReconKnown, ensure_journaled, record_signal
    <3> QED BY <3>2, <3>3
  <2> QED BY <1>2, <2>1, <2>2, <2>4, <2>5, <2>6, <2>7, OtherWrites
<1> QED BY <1>1, <1>2

(* Submission, retries, crashes and reconciliation implement the ledger:   *)
(* at most one pending execution per intent, resolved once and for good,   *)
(* and opened only with an order the journal has.                          *)
THEOREM Implementation ==
    ASSUME ~InsertsMayFail PROVE Spec => ImplementsLedger
BY Invariance, InitRefines, StepRefines, PTL DEF Spec, ImplementsLedger, Ledger!LedgerSpec
=============================================================================
