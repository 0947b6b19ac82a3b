------------------------- MODULE ControlStateProofs -------------------------
(***************************************************************************)
(* Proofs about ControlState, for any number of dashboards, positions,     *)
(* activations and crashes.                                                *)
(***************************************************************************)
EXTENDS ControlState, TLAPS

(* A stop has the stamp of an activation, in the file and in every copy.   *)
Stamped ==
    /\ file.active => file.stamp \in 1..stamps
    /\ \A w \in Writers : work[w].seen.active => work[w].seen.stamp \in 1..stamps

(* So has the copy the tick works with.                                    *)
TickStamped == emergency_state.stamp \in 0..stamps

(* A clear under way was not refused for the copy it has loaded.           *)
ClearsAccepted ==
    \A w \in Writers : work[w].op = "clear" => ~Refused(work[w].seen, work[w].source)

(* The runner itself neither activates nor clears a stop.                  *)
RunnerKeeps == work[Runner].op \in {"idle", "keep"}

(* The loop of emergency_close_all has every open position before it.      *)
LoopIsComplete ==
    pc = "close" => \A p \in Positions : broker[p] = "open" => p \in todo

(* As long as the marker is set the runner trades nothing: the tick that   *)
(* goes on to the signals removes it.                                      *)
MarkedIsFlat ==
    handled # 0 => /\ pc \in {"tick", "list", "close"}
                   /\ \A p \in Positions : broker[p] # "open"

ControlInv ==
    /\ TypeOK
    /\ Stamped
    /\ TickStamped
    /\ ClearsAccepted
    /\ RunnerKeeps
    /\ LoopIsComplete
    /\ MarkedIsFlat

Works == [op : {"idle", "activate", "clear", "keep"}, scope : Scopes \cup {"block_only"},
          source : Sources \cup {NoSource}, seen : Stops]

-----------------------------------------------------------------------------
(* Lemmas about the updates of the file.                                   *)

(* What a load returns is a section, with a stamp if it is active.         *)
LEMMA LoadReturns ==
    ASSUME ControlInv, NEW w \in Writers, NEW s \in load_control_state(w)
    PROVE  s \in Stops /\ (s.active => s.stamp \in 1..stamps)
<1>1. s \in {file, DEFAULT_CONTROL_STATE}
  BY DEF load_control_state
<1>2. DEFAULT_CONTROL_STATE \in Stops /\ ~DEFAULT_CONTROL_STATE.active
  BY ControlAssumption DEF DEFAULT_CONTROL_STATE, Stops
<1> QED BY <1>1, <1>2 DEF ControlInv, TypeOK, Stamped

(* A load keeps the invariant of the updates under way.                    *)
LEMMA LoadKeeps ==
    ASSUME ControlInv, NEW w \in Writers, NEW s \in load_control_state(w),
           NEW r \in Works, r.seen \in {s, DEFAULT_CONTROL_STATE},
           r.op = "clear" => ~Refused(r.seen, r.source),
           work' = [work EXCEPT ![w] = r], UNCHANGED <<file, stamps>>
    PROVE  work' \in [Writers -> Works] /\ Stamped' /\ ClearsAccepted'
<1>1. work \in [Writers -> Works]
  BY DEF ControlInv, TypeOK, Works
<1>2. work' \in [Writers -> Works] /\ work'[w] = r /\ \A v \in Writers \ {w} : work'[v] = work[v]
  BY <1>1
<1>3. r.seen.active => r.seen.stamp \in 1..stamps
  BY LoadReturns DEF DEFAULT_CONTROL_STATE
<1>4. Stamped'
  BY <1>2, <1>3 DEF ControlInv, Stamped
<1>5. ClearsAccepted'
  BY <1>2 DEF ControlInv, ClearsAccepted, Refused
<1> QED BY <1>2, <1>4, <1>5

(* What a save, or a crash in one, leaves in the file and of the update.   *)
LEMMA FileKeeps ==
    ASSUME ControlInv, NEW w \in Writers, work' = [work EXCEPT ![w] = Idle],
           stamps' \in Nat, stamps <= stamps', file'.active => file'.stamp \in 1..stamps'
    PROVE  work' \in [Writers -> Works] /\ Stamped' /\ ClearsAccepted'
<1>1. work \in [Writers -> Works] /\ Idle \in Works
  BY ControlAssumption DEF ControlInv, TypeOK, Works, Idle, DEFAULT_CONTROL_STATE, Stops
<1>2. /\ work' \in [Writers -> Works]
      /\ work'[w] = Idle
      /\ \A v \in Writers \ {w} : work'[v] = work[v]
  BY <1>1
<1>3. Stamped'
  <2>1. stamps \in Nat
    BY ControlAssumption DEF ControlInv, TypeOK
  <2> QED BY <1>2, <2>1 DEF ControlInv, Stamped, Idle, DEFAULT_CONTROL_STATE
<1>4. ClearsAccepted'
  BY <1>2 DEF ControlInv, ClearsAccepted, Refused, Idle, DEFAULT_CONTROL_STATE
<1> QED BY <1>2, <1>3, <1>4

(* The section a save writes.                                              *)
LEMMA SavedSection ==
    ASSUME ControlInv, NEW w \in Writers, Writing(w),
           work[w].op = "activate" => stamps < MaxStamps
    PROVE  /\ Updated(w) \in Stops
           /\ Updated(w).active =>
                Updated(w).stamp \in 1..(IF work[w].op = "activate" THEN stamps + 1 ELSE stamps)
<1> USE ControlAssumption DEF ControlInv, TypeOK, Stamped
<1>1. work[w] \in Works /\ stamps \in Nat /\ MaxStamps \in Nat
  BY DEF Works
<1>2. CASE work[w].op = "activate"
  <2>1. Updated(w) = [active |-> TRUE, scope |-> work[w].scope, source |-> work[w].source,
                      stamp |-> stamps + 1]
    BY <1>2 DEF Updated
  <2> QED BY <1>1, <1>2, <2>1 DEF Stops, Works
<1>3. CASE work[w].op = "clear"
  <2>1. Updated(w) = DEFAULT_CONTROL_STATE
    BY <1>3 DEF Updated, Cleared
  <2> QED BY <1>1, <1>3, <2>1 DEF DEFAULT_CONTROL_STATE, Stops
<1>4. CASE work[w].op \notin {"activate", "clear"}
  <2>1. Updated(w) = work[w].seen
    BY <1>4 DEF Updated
  <2> QED BY <1>1, <1>4, <2>1 DEF Works
<1> QED BY <1>2, <1>3, <1>4

-----------------------------------------------------------------------------
(* The inductive invariant.                                                *)

(* Everything is idle at first.                                            *)
LEMMA InitControlInv == Init => ControlInv
<1> SUFFICES ASSUME Init PROVE ControlInv
  OBVIOUS
<1>1. DEFAULT_CONTROL_STATE \in Stops /\ Idle \in Works
  BY ControlAssumption DEF DEFAULT_CONTROL_STATE, Stops, Idle, Works
<1>2. /\ ~DEFAULT_CONTROL_STATE.active
      /\ DEFAULT_CONTROL_STATE.stamp = 0
      /\ Idle.op = "idle"
      /\ Idle.seen = DEFAULT_CONTROL_STATE
  BY DEF DEFAULT_CONTROL_STATE, Idle
<1>3. \A w \in Writers : work[w] = Idle
  BY DEF Init
<1>4. TypeOK
  <2>1. work \in [Writers -> Works]
    BY <1>1 DEF Init
  <2>2. ~Writing(Runner)
    BY <1>2, <1>3 DEF Writing, Writers
  <2>3. 0 \in 0..MaxStamps /\ 0 \in 0..MaxCrashes /\ 0 \in 0..0
    BY ControlAssumption
  <2> QED BY <1>1, <1>2, <2>1, <2>2, <2>3 DEF Init, TypeOK, Works
<1>5. Stamped /\ TickStamped /\ ClearsAccepted /\ RunnerKeeps
  BY <1>2, <1>3 DEF Init, Stamped, TickStamped, ClearsAccepted, RunnerKeeps, Writers
<1>6. LoopIsComplete /\ MarkedIsFlat
  BY DEF Init, LoopIsComplete, MarkedIsFlat
<1> QED BY <1>4, <1>5, <1>6 DEF ControlInv

(* Loads of the dashboards.                                                *)
LEMMA DashboardLoadInv ==
    ASSUME ControlInv, NEW h \in Handlers, LoadActivate(h) \/ LoadClear(h) \/ LoadKeep(h)
    PROVE  ControlInv'
<1>1. PICK op \in {"activate", "clear", "keep"}, scope \in Scopes \cup {"block_only"},
           source \in Sources \cup {NoSource} : Load(h, op, scope, source)
  BY DEF LoadActivate, LoadClear, LoadKeep
<1>2. PICK s \in load_control_state(h) :
        /\ op = "clear" => ~Refused(s, source)
        /\ work' = [work EXCEPT ![h] =
                     [op |-> op, scope |-> scope, source |-> source,
                      seen |-> IF op = "activate" THEN DEFAULT_CONTROL_STATE ELSE s]]
  BY <1>1 DEF Load
<1> DEFINE r == [op |-> op, scope |-> scope, source |-> source,
                 seen |-> IF op = "activate" THEN DEFAULT_CONTROL_STATE ELSE s]
<1>3. h \in Writers /\ s \in Stops /\ DEFAULT_CONTROL_STATE \in Stops
  BY <1>2, LoadReturns, ControlAssumption DEF Writers, DEFAULT_CONTROL_STATE, Stops
<1>4. r \in Works /\ r.seen \in {s, DEFAULT_CONTROL_STATE}
  BY <1>3 DEF Works
<1>5. UNCHANGED <<file, stamps, confirmed, runnerVars, broker, crashes>>
  BY <1>1 DEF Load
<1>6. work' \in [Writers -> Works] /\ Stamped' /\ ClearsAccepted'
  BY <1>2, <1>3, <1>4, <1>5, LoadKeeps
<1>7. work'[Runner] = work[Runner]
  BY <1>2, ControlAssumption DEF ControlInv, TypeOK, Writers
<1>8. TypeOK'
  BY <1>5, <1>6, <1>7 DEF ControlInv, TypeOK, Works, Writing, runnerVars
<1> QED BY <1>5, <1>6, <1>7, <1>8
        DEF ControlInv, RunnerKeeps, TickStamped, LoopIsComplete, MarkedIsFlat, runnerVars

(* Saves of the dashboards.                                                *)
LEMMA DashboardSaveInv ==
    ASSUME ControlInv, NEW h \in Handlers, SaveActivate(h) \/ SaveClear(h) \/ SaveKeep(h)
    PROVE  ControlInv'
<1>1. /\ Writing(h)
      /\ file' = Updated(h)
      /\ work' = [work EXCEPT ![h] = Idle]
      /\ UNCHANGED <<runnerVars, broker, crashes>>
  BY DEF SaveActivate, SaveClear, SaveKeep, Save
<1>2. /\ stamps' = IF work[h].op = "activate" THEN stamps + 1 ELSE stamps
      /\ work[h].op = "activate" => stamps < MaxStamps
      /\ confirmed' \in {confirmed, 0, stamps'}
  BY DEF SaveActivate, SaveClear, SaveKeep
<1>3. h \in Writers /\ h # Runner /\ Runner \in Writers
  BY ControlAssumption DEF Writers
<1>4. /\ stamps \in 0..MaxStamps /\ stamps' \in 0..MaxStamps
      /\ stamps' \in Nat /\ stamps <= stamps'
  BY <1>2, ControlAssumption DEF ControlInv, TypeOK
<1>5. file' \in Stops /\ (file'.active => file'.stamp \in 1..stamps')
  BY <1>1, <1>2, <1>3, SavedSection
<1>6. work' \in [Writers -> Works] /\ Stamped' /\ ClearsAccepted'
  BY <1>1, <1>3, <1>4, <1>5, FileKeeps
<1>7. work'[Runner] = work[Runner]
  BY <1>1, <1>3 DEF ControlInv, TypeOK
<1>8. confirmed' \in 0..stamps' /\ handled' \in 0..stamps' /\ TickStamped'
  BY <1>1, <1>2, <1>4 DEF ControlInv, TypeOK, TickStamped, runnerVars
<1>9. TypeOK'
  BY <1>1, <1>4, <1>5, <1>6, <1>7, <1>8 DEF ControlInv, TypeOK, Works, Writing, runnerVars
<1> QED BY <1>1, <1>6, <1>7, <1>8, <1>9
        DEF ControlInv, RunnerKeeps, LoopIsComplete, MarkedIsFlat, runnerVars

(* Loads of the runner while it is at its signals.                         *)
LEMMA RunnerLoadsInv ==
    ASSUME ControlInv, Evaluate \/ LoadPermission
    PROVE  ControlInv'
<1>1. /\ RunnerLoads("signals", "evaluated") \/ RunnerLoads("permission", "permitted")
      /\ allowed' \in BOOLEAN
  BY DEF Evaluate, LoadPermission, ControlInv, TypeOK
<1>2. PICK s \in load_control_state(Runner) :
        work' = [work EXCEPT ![Runner] = [Idle EXCEPT !.op = "keep", !.seen = s]]
  BY <1>1 DEF RunnerLoads
<1> DEFINE r == [Idle EXCEPT !.op = "keep", !.seen = s]
<1>3. /\ pc \in {"signals", "permission"}
      /\ pc' \in {"evaluated", "permitted"}
      /\ UNCHANGED <<file, stamps, confirmed, emergency_state, handled, todo, broker, crashes>>
  BY <1>1 DEF RunnerLoads
<1>4. Runner \in Writers /\ s \in Stops
  BY <1>2, LoadReturns DEF Writers
<1>5. r \in Works /\ r.seen = s /\ r.op = "keep"
  BY <1>4, ControlAssumption DEF Works, Idle
<1>6. work' \in [Writers -> Works] /\ Stamped' /\ ClearsAccepted'
  BY <1>2, <1>3, <1>4, <1>5, LoadKeeps
<1>7. Writing(Runner)' /\ work'[Runner].op = "keep"
  BY <1>2, <1>4, <1>5 DEF Writing, ControlInv, TypeOK
<1>8. TypeOK'
  BY <1>1, <1>3, <1>6, <1>7 DEF ControlInv, TypeOK, Works
<1> QED BY <1>3, <1>6, <1>7, <1>8
        DEF ControlInv, RunnerKeeps, TickStamped, LoopIsComplete, MarkedIsFlat

(* Its saves: they put back the stop as it was loaded.                     *)
LEMMA RunnerSavesInv ==
    ASSUME ControlInv, SaveEvaluation \/ SavePermission
    PROVE  ControlInv'
<1>1. /\ pc \in {"evaluated", "permitted"}
      /\ pc' \in {"permission", "submit", "signals"}
      /\ RunnerSaves
  BY DEF SaveEvaluation, SavePermission
<1>2. /\ Writing(Runner)
      /\ file' = Updated(Runner)
      /\ work' = [work EXCEPT ![Runner] = Idle]
      /\ UNCHANGED <<stamps, confirmed, emergency_state, handled, todo, allowed, broker, crashes>>
  BY <1>1 DEF RunnerSaves, Save
<1>3. Runner \in Writers /\ stamps' \in Nat /\ stamps <= stamps'
  BY <1>2, ControlAssumption DEF Writers, ControlInv, TypeOK
<1>4. work[Runner].op # "activate"
  BY <1>1, <1>2 DEF ControlInv, RunnerKeeps
<1>5. file' \in Stops /\ (file'.active => file'.stamp \in 1..stamps')
  BY <1>2, <1>3, <1>4, SavedSection
<1>6. work' \in [Writers -> Works] /\ Stamped' /\ ClearsAccepted'
  BY <1>2, <1>3, <1>5, FileKeeps
<1>7. ~Writing(Runner)' /\ work'[Runner].op = "idle"
  BY <1>2, <1>3 DEF Writing, ControlInv, TypeOK, Idle
<1>8. TypeOK'
  BY <1>1, <1>2, <1>5, <1>6, <1>7 DEF ControlInv, TypeOK, Works
<1> QED BY <1>1, <1>2, <1>6, <1>7, <1>8
        DEF ControlInv, RunnerKeeps, TickStamped, LoopIsComplete, MarkedIsFlat

(* The steps of the runner that leave the file and the updates alone: the  *)
(* emergency branch of a tick and the rest of a signal.                    *)
EmergencyStep ==
    \/ TickEmergency \/ TickOpen \/ ListPositions \/ ListFails \/ CloseAllDone
    \/ \E p \in Positions : ClosePosition(p) \/ ClosePositionFails(p)

OrderStep ==
    \/ SkipSignal \/ GatePasses \/ PlaceFails \/ EndTick
    \/ \E p \in Positions : Place(p)

(* The emergency branch sets the marker only when nothing is open.         *)
LEMMA TickInv ==
    ASSUME ControlInv, EmergencyStep
    PROVE  ControlInv'
<1> USE DEF EmergencyStep
<1>1. UNCHANGED <<file, work, stamps, confirmed, allowed, crashes>>
  BY DEF TickEmergency, TickOpen, ListPositions, ListFails, CloseAllDone, ClosePosition,
         ClosePositionFails
<1>2. pc \in {"tick", "list", "close"} /\ pc' \in {"tick", "list", "close", "signals"}
  BY DEF TickEmergency, TickOpen, ListPositions, ListFails, CloseAllDone, ClosePosition,
         ClosePositionFails
<1>3. stamps \in Nat /\ 0 \in 0..stamps /\ DEFAULT_CONTROL_STATE \in Stops
        /\ DEFAULT_CONTROL_STATE.stamp = 0
  BY ControlAssumption DEF ControlInv, TypeOK, DEFAULT_CONTROL_STATE, Stops
<1>4. emergency_state' \in Stops /\ TickStamped'
  <2>1. CASE TickEmergency
    <3>1. PICK s \in load_control_state(Runner) : Unhandled(s) /\ emergency_state' = s
      BY <2>1 DEF TickEmergency
    <3>2. Runner \in Writers /\ s.active
      BY <3>1 DEF Writers, Unhandled
    <3>3. s \in Stops /\ s.stamp \in 1..stamps
      BY <3>2, LoadReturns
    <3> QED BY <1>1, <1>3, <3>1, <3>3 DEF TickStamped
  <2>2. CASE emergency_state' \in {emergency_state, DEFAULT_CONTROL_STATE}
    BY <1>1, <1>3, <2>2 DEF TickStamped, ControlInv, TypeOK
  <2> QED BY <2>1, <2>2 DEF TickOpen, ListPositions, ListFails, CloseAllDone, ClosePosition,
                            ClosePositionFails
<1>5. handled' \in 0..stamps'
  BY <1>1, <1>3 DEF TickEmergency, TickOpen, ListPositions, ListFails, CloseAllDone,
     ClosePosition, ClosePositionFails, marker_after_stop, TickStamped, ControlInv, TypeOK
<1>6. todo' \subseteq Positions /\ broker' \in [Positions -> {"none", "open", "unclosed"}]
  BY DEF TickEmergency, TickOpen, ListPositions, ListFails, CloseAllDone, ClosePosition,
         ClosePositionFails, ControlInv, TypeOK
<1>7. TypeOK'
  BY <1>1, <1>2, <1>4, <1>5, <1>6 DEF ControlInv, TypeOK, Writing
<1>8. Stamped' /\ ClearsAccepted' /\ RunnerKeeps'
  BY <1>1 DEF ControlInv, Stamped, ClearsAccepted, RunnerKeeps
<1>9. \A p \in Positions : broker'[p] = "open" => broker[p] = "open"
  BY DEF TickEmergency, TickOpen, ListPositions, ListFails, CloseAllDone, ClosePosition,
         ClosePositionFails, ControlInv, TypeOK
<1>10. LoopIsComplete'
  BY <1>9 DEF TickEmergency, TickOpen, ListPositions, ListFails, CloseAllDone, ClosePosition,
         ClosePositionFails, ControlInv, TypeOK, LoopIsComplete
<1>11. MarkedIsFlat'
  <2>1. CASE CloseAllDone
    BY <2>1, <1>9 DEF CloseAllDone, ControlInv, LoopIsComplete, MarkedIsFlat
  <2>2. CASE TickOpen
    BY <2>2 DEF TickOpen, marker_after_stop, MarkedIsFlat
  <2>3. CASE ~CloseAllDone /\ ~TickOpen
    <3>1. handled' = handled /\ pc' \in {"tick", "list", "close"}
      BY <2>3 DEF TickEmergency, ListPositions, ListFails, ClosePosition, ClosePositionFails
    <3> QED BY <3>1, <1>9 DEF ControlInv, MarkedIsFlat
  <2> QED BY <2>1, <2>2, <2>3
<1> QED BY <1>4, <1>7, <1>8, <1>10, <1>11 DEF ControlInv

(* An order is placed only while no stop is marked as handled.             *)
LEMMA OrderInv ==
    ASSUME ControlInv, OrderStep
    PROVE  ControlInv'
<1> USE DEF OrderStep
<1>1. UNCHANGED <<file, work, stamps, confirmed, emergency_state, handled, todo, allowed, crashes>>
  BY DEF SkipSignal, GatePasses, PlaceFails, EndTick, Place
<1>2. pc \in {"submit", "place", "signals"} /\ pc' \in {"tick", "place", "signals"}
  BY DEF SkipSignal, GatePasses, PlaceFails, EndTick, Place
<1>3. broker' \in [Positions -> {"none", "open", "unclosed"}]
  BY DEF SkipSignal, GatePasses, PlaceFails, EndTick, Place, ControlInv, TypeOK
<1>4. handled = 0
  BY <1>2 DEF ControlInv, MarkedIsFlat
<1>5. TypeOK'
  BY <1>1, <1>2, <1>3 DEF ControlInv, TypeOK, Writing
<1> QED BY <1>1, <1>2, <1>4, <1>5
        DEF ControlInv, Stamped, TickStamped, ClearsAccepted, RunnerKeeps, LoopIsComplete,
            MarkedIsFlat

(* The broker closing a position, and the crashes.                         *)
LEMMA EnvironmentInv ==
    ASSUME ControlInv, Environment
    PROVE  ControlInv'
<1>1. ASSUME NEW p \in Positions, BrokerCloses(p)
      PROVE  ControlInv'
  <2>1. UNCHANGED <<file, work, stamps, confirmed, runnerVars, crashes>>
          /\ broker' = [broker EXCEPT ![p] = "none"]
    BY <1>1 DEF BrokerCloses
  <2>2. TypeOK'
    BY <2>1 DEF ControlInv, TypeOK, Writing, runnerVars
  <2>3. \A q \in Positions : broker'[q] = "open" => broker[q] = "open"
    BY <2>1 DEF ControlInv, TypeOK
  <2> QED BY <2>1, <2>2, <2>3
          DEF ControlInv, Stamped, TickStamped, ClearsAccepted, RunnerKeeps, LoopIsComplete,
              MarkedIsFlat, runnerVars
<1>2. ASSUME NEW w \in Writers, file' \in AfterCrash(w), work' = [work EXCEPT ![w] = Idle],
             stamps' = stamps
      PROVE  /\ file' \in Stops /\ (file'.active => file'.stamp \in 1..stamps')
             /\ work' \in [Writers -> Works] /\ Stamped' /\ ClearsAccepted'
             /\ RunnerKeeps'
             /\ w = Runner => ~Writing(Runner)'
             /\ w # Runner => work'[Runner] = work[Runner]
  <2>1. DEFAULT_CONTROL_STATE \in Stops /\ ~DEFAULT_CONTROL_STATE.active /\ Idle.op = "idle"
    BY ControlAssumption DEF DEFAULT_CONTROL_STATE, Stops, Idle
  <2>2. file' \in Stops /\ (file'.active => file'.stamp \in 1..stamps')
    BY <1>2, <2>1 DEF AfterCrash, ControlInv, TypeOK, Stamped
  <2>3. stamps' \in Nat /\ stamps <= stamps'
    BY <1>2, ControlAssumption DEF ControlInv, TypeOK
  <2>4. work' \in [Writers -> Works] /\ Stamped' /\ ClearsAccepted'
    BY <1>2, <2>2, <2>3, FileKeeps
  <2>5. work'[Runner] = IF w = Runner THEN Idle ELSE work[Runner]
    BY <1>2 DEF ControlInv, TypeOK, Writers
  <2> QED BY <2>1, <2>2, <2>4, <2>5 DEF RunnerKeeps, ControlInv, Writing
<1>3. ASSUME NEW h \in Handlers, HandlerCrash(h)
      PROVE  ControlInv'
  <2>1. /\ file' \in AfterCrash(h)
        /\ work' = [work EXCEPT ![h] = Idle]
        /\ UNCHANGED <<stamps, confirmed, runnerVars, broker>>
        /\ crashes' \in 0..MaxCrashes
    BY <1>3, ControlAssumption DEF HandlerCrash, ControlInv, TypeOK
  <2>2. h \in Writers /\ h # Runner
    BY ControlAssumption DEF Writers
  <2>3. TypeOK'
    BY <1>2, <2>1, <2>2 DEF ControlInv, TypeOK, Works, Writing, runnerVars
  <2> QED BY <1>2, <2>1, <2>2, <2>3
          DEF ControlInv, TickStamped, LoopIsComplete, MarkedIsFlat, runnerVars
<1>4. ASSUME RunnerCrash
      PROVE  ControlInv'
  <2>1. /\ file' \in AfterCrash(Runner)
        /\ work' = [work EXCEPT ![Runner] = Idle]
        /\ UNCHANGED <<stamps, confirmed, broker>>
        /\ pc' = "tick" /\ handled' = 0 /\ todo' = {} /\ allowed' = FALSE
        /\ emergency_state' = DEFAULT_CONTROL_STATE
        /\ crashes' \in 0..MaxCrashes
    BY <1>4, ControlAssumption DEF RunnerCrash, ControlInv, TypeOK
  <2>2. Runner \in Writers /\ 0 \in 0..stamps
    BY ControlAssumption DEF Writers, ControlInv, TypeOK
  <2>3. DEFAULT_CONTROL_STATE \in Stops /\ DEFAULT_CONTROL_STATE.stamp = 0
    BY ControlAssumption DEF DEFAULT_CONTROL_STATE, Stops
  <2>4. TypeOK'
    BY <1>2, <2>1, <2>2, <2>3 DEF ControlInv, TypeOK, Works
  <2> QED BY <1>2, <2>1, <2>2, <2>3, <2>4
          DEF ControlInv, TickStamped, LoopIsComplete, MarkedIsFlat
<1> QED BY <1>1, <1>3, <1>4 DEF Environment

(* Every step keeps the invariant.                                         *)
LEMMA NextControlInv == ControlInv /\ [Next]_vars => ControlInv'
<1> SUFFICES ASSUME ControlInv, [Next]_vars PROVE ControlInv'
  OBVIOUS
<1>1. CASE Dashboard
  BY <1>1, DashboardLoadInv, DashboardSaveInv DEF Dashboard
<1>2. CASE Tick
  BY <1>2, TickInv DEF Tick, EmergencyStep
<1>3. CASE Signal
  BY <1>3, RunnerLoadsInv, RunnerSavesInv, OrderInv DEF Signal, OrderStep
<1>4. CASE Environment
  BY <1>4, EnvironmentInv
<1>5. CASE UNCHANGED vars
  BY <1>5 DEF vars, runnerVars, ControlInv, TypeOK, Writing, Stamped, TickStamped,
              ClearsAccepted, RunnerKeeps, LoopIsComplete, MarkedIsFlat
<1> QED BY <1>1, <1>2, <1>3, <1>4, <1>5 DEF Next

-----------------------------------------------------------------------------
(* The theorems.                                                           *)

(* ControlInv holds in every reachable state: the runner trades only while *)
(* it has no stop marked as handled, emergency_close_all has every open    *)
(* position before it, and no update carries a stamp that was never given. *)
THEOREM ControlInvariance == Spec => []ControlInv
BY InitControlInv, NextControlInv, PTL DEF Spec

(* Every variable has its type, and the stamp of a stop in the file is the *)
(* one of an activation that was made.                                     *)
THEOREM ControlTypes == Spec => []TypeOK
BY ControlInvariance, PTL DEF ControlInv

(* While the stop in control_state.json is the one the runner takes for    *)
(* handled, no managed position is left that it has not tried to close.    *)
THEOREM HandledIsFlat == Spec => []HandledStopIsFlat
<1>1. ControlInv => HandledStopIsFlat
  <2> SUFFICES ASSUME ControlInv, file.active, handled = file.stamp
               PROVE  \A p \in Positions : broker[p] # "open"
    BY DEF HandledStopIsFlat
  <2>1. handled \in 1..stamps /\ stamps \in Nat
    BY ControlAssumption DEF ControlInv, TypeOK, Stamped
  <2> QED BY <2>1 DEF ControlInv, MarkedIsFlat
<1> QED BY <1>1, ControlInvariance, PTL

(* The formula of StopEndsOnlyByClear: the emergency stop ends only by a   *)
(* clear that may lift it, by an update of a stale copy, or by a crash in  *)
(* the middle of a write.                                                  *)
StopEnd ==
    file.active /\ ~file'.active =>
        \/ \E w \in Writers : /\ Writing(w) /\ work'[w].op = "idle"
                              /\ \/ work[w].op = "clear" /\ MayClear(w)
                                 \/ work[w].seen # file
        \/ crashes' # crashes

(* Only a save changes the file apart from a crash, and a save that ends   *)
(* the stop is a clear, accepted for its copy, or started from an old one. *)
LEMMA StopEndStep == ControlInv /\ [Next]_vars => StopEnd
<1> SUFFICES ASSUME ControlInv, [Next]_vars, file.active, ~file'.active, crashes' = crashes
             PROVE  \E w \in Writers : /\ Writing(w) /\ work'[w].op = "idle"
                                       /\ \/ work[w].op = "clear" /\ MayClear(w)
                                          \/ work[w].seen # file
  BY DEF StopEnd
<1>1. crashes \in Nat
  BY ControlAssumption DEF ControlInv, TypeOK
<1>2. PICK w \in Writers : Save(w)
  <2>1. file' # file
    OBVIOUS
  <2>2. CASE Dashboard
    <3>1. PICK h \in Handlers : SaveActivate(h) \/ SaveClear(h) \/ SaveKeep(h)
      BY <2>1, <2>2 DEF Dashboard, LoadActivate, LoadClear, LoadKeep, Load
    <3> QED BY <3>1 DEF SaveActivate, SaveClear, SaveKeep, Writers
  <2>3. ~Tick
    BY <2>1 DEF Tick, TickEmergency, TickOpen, ListPositions, ListFails, ClosePosition,
                ClosePositionFails, CloseAllDone
  <2>4. CASE Signal
    <3>1. SaveEvaluation \/ SavePermission
      BY <2>1, <2>4 DEF Signal, Evaluate, LoadPermission, RunnerLoads, SkipSignal, GatePasses,
                        PlaceFails, EndTick, Place
    <3> QED BY <3>1 DEF SaveEvaluation, SavePermission, RunnerSaves, Writers
  <2>5. ~Environment
    BY <1>1, <2>1 DEF Environment, BrokerCloses, HandlerCrash, RunnerCrash
  <2> QED BY <2>1, <2>2, <2>3, <2>4, <2>5 DEF Next, vars
<1>3. Writing(w) /\ file' = Updated(w) /\ work'[w].op = "idle"
  BY <1>2 DEF Save, Idle, ControlInv, TypeOK
<1>4. work[w].op # "activate"
  BY <1>3 DEF Updated
<1>5. CASE work[w].op = "clear"
  BY <1>3, <1>5 DEF ControlInv, ClearsAccepted, Refused, MayClear
<1>6. CASE work[w].op # "clear"
  BY <1>3, <1>4, <1>6 DEF Updated
<1> QED BY <1>3, <1>5, <1>6

(* No step ends the emergency stop in any other way.                       *)
THEOREM StopEndsByClear == Spec => StopEndsOnlyByClear
BY ControlInvariance, StopEndStep, PTL DEF Spec, StopEnd, StopEndsOnlyByClear
=============================================================================
