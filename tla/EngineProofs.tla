---------------------------- MODULE EngineProofs ----------------------------
(* The two engines beside the demo runner: the one that hosts a strategy,  *)
(* with the ownership lock of runtime.py and the pipeline from signal to   *)
(* order, and the live bot, bot.py. The three share no state.              *)
EXTENDS RuntimeAuthority, ExecutionPipeline, LiveBot, TLAPS

-----------------------------------------------------------------------------
(* What holds of runtime.py for any number of processes and crashes. The   *)
(* strengthening says what the lock file means while nobody's lock has     *)
(* been stolen, and that only a crash leads to a theft.                    *)

(* While no lock was stolen, the lock file is that of the process that     *)
(* relies on it.                                                           *)
LockIsHolders == ~stolen => \A p \in Runtimes : Holds(p) => lock.by = p

(* _owns_lock is only set once the content of the lock is written.         *)
OwnersHold == \A p \in Owners : pc[p] \in {"run", "release", "unlink_own", "abandoned"}

(* Nobody gets past _remove_stale_lock's check before a process has died.  *)
TheftNeedsCrash ==
    /\ lock.written => lock.by # NoRuntime
    /\ alive # Runtimes => crashes > 0
    /\ \A p \in Runtimes : pc[p] = "unlink_stale" => crashes > 0
    /\ stolen => crashes > 0

RuntimeInv ==
    /\ RuntimeTypeOK
    /\ LockIsHolders
    /\ OwnersHold
    /\ TheftNeedsCrash

-----------------------------------------------------------------------------
LEMMA RuntimeTypeInit == RuntimeInit => RuntimeTypeOK
<1> SUFFICES ASSUME RuntimeInit PROVE RuntimeTypeOK
  OBVIOUS
<1>1. owns_lock \in [Runtimes -> BOOLEAN] /\ stolen \in BOOLEAN
  BY Zenon DEF RuntimeInit
<1>2. lock \in [by : Runtimes \cup {NoRuntime}, written : BOOLEAN]
  BY DEF RuntimeInit, NoLock
<1>3. persisted \in [owner : Runtimes \cup {NoRuntime}, state : RuntimeStates]
  BY DEF RuntimeInit, RuntimeStates
<1>4. pc \in [Runtimes -> PlacesInRun] /\ snapshot \in [Runtimes -> RuntimeStates]
  BY DEF RuntimeInit, RuntimeStates, PlacesInRun
<1> QED
  BY <1>1, <1>2, <1>3, <1>4 DEF RuntimeInit, RuntimeTypeOK

LEMMA RuntimeTypeStep == RuntimeTypeOK /\ [RuntimeNext]_RuntimeVars => RuntimeTypeOK'
<1> SUFFICES ASSUME RuntimeTypeOK, [RuntimeNext]_RuntimeVars PROVE RuntimeTypeOK'
  OBVIOUS
<1> USE DEF RuntimeTypeOK, RuntimeStates, PlacesInRun
<1>1. CASE UNCHANGED RuntimeVars
  BY <1>1 DEF RuntimeVars
<1>2. ASSUME NEW p \in alive, ReadLock(p) PROVE RuntimeTypeOK'
  BY <1>2 DEF ReadLock
<1>3. ASSUME NEW p \in alive, RemoveStaleLock(p) PROVE RuntimeTypeOK'
  BY <1>3 DEF RemoveStaleLock, UnlinkLock, NoLock
<1>4. ASSUME NEW p \in alive, CreateLock(p) PROVE RuntimeTypeOK'
  BY <1>4 DEF CreateLock
<1>5. ASSUME NEW p \in alive, Refused(p) PROVE RuntimeTypeOK'
  BY <1>5 DEF Refused
<1>5a. ASSUME NEW p \in alive, CannotCreate(p) \/ ReadOwner(p) PROVE RuntimeTypeOK'
  BY <1>5a DEF CannotCreate, ReadOwner
<1>5b. ASSUME NEW p \in alive, SayFailed(p) PROVE RuntimeTypeOK'
  BY <1>5b DEF SayFailed, WriteOrFail, WriteState
<1>6. ASSUME NEW p \in alive, WriteLock(p) PROVE RuntimeTypeOK'
  BY <1>6 DEF WriteLock
<1>7. ASSUME NEW p \in alive, WriteLockFails(p) PROVE RuntimeTypeOK'
  BY <1>7 DEF WriteLockFails, WriteOrFail, WriteState
<1>8. ASSUME NEW p \in alive, ReachNextState(p) PROVE RuntimeTypeOK'
  BY <1>8 DEF ReachNextState, WriteState
<1>10. ASSUME NEW p \in alive, RuntimeEnds(p) PROVE RuntimeTypeOK'
  BY <1>10 DEF RuntimeEnds, WriteOrFail, EndsOf, WriteState
<1>11. ASSUME NEW p \in alive, StoppingNotWritten(p) PROVE RuntimeTypeOK'
  BY <1>11 DEF StoppingNotWritten, WriteOrFail, WriteState
<1>12. ASSUME NEW p \in alive, ReadOwnLock(p) PROVE RuntimeTypeOK'
  BY <1>12 DEF ReadOwnLock
<1>13. ASSUME NEW p \in alive, UnlinkOwnLock(p) PROVE RuntimeTypeOK'
  BY <1>13 DEF UnlinkOwnLock, UnlinkLock, NoLock
<1>14. ASSUME NEW p \in alive, SayStopped(p) PROVE RuntimeTypeOK'
  BY <1>14 DEF SayStopped, WriteOrFail, WriteState
<1>15. ASSUME NEW p \in alive, RuntimeKilled(p) PROVE RuntimeTypeOK'
  BY <1>15 DEF RuntimeKilled
<1> QED
  BY <1>1, <1>2, <1>3, <1>4, <1>5, <1>5a, <1>5b, <1>6, <1>7, <1>8, <1>10, <1>11,
     <1>12, <1>13, <1>14, <1>15 DEF RuntimeNext

(* runtime.py: the lock file and each process stay within their types.     *)
THEOREM RuntimeTypeCorrect == RuntimeSpec => []RuntimeTypeOK
  BY RuntimeTypeInit, RuntimeTypeStep, PTL DEF RuntimeSpec

-----------------------------------------------------------------------------
(* The strengthening is inductive: each step of run and each kill.         *)
LEMMA RuntimeInvStep == RuntimeInv /\ [RuntimeNext]_RuntimeVars => RuntimeInv'
<1> SUFFICES ASSUME RuntimeInv, [RuntimeNext]_RuntimeVars PROVE RuntimeInv'
  OBVIOUS
<1>0. RuntimeTypeOK'
  BY RuntimeTypeStep DEF RuntimeInv
<1>a. /\ RuntimeTypeOK /\ LockIsHolders /\ OwnersHold /\ TheftNeedsCrash
      /\ NoRuntime \notin Runtimes
  BY RuntimeAssumption DEF RuntimeInv, RuntimeAssumption
<1> SUFFICES LockIsHolders' /\ OwnersHold' /\ TheftNeedsCrash'
  BY <1>0 DEF RuntimeInv
<1> USE <1>a DEF RuntimeTypeOK, LockIsHolders, OwnersHold, TheftNeedsCrash, Owners, Holds
<1>1. ASSUME NEW p \in alive, ReadLock(p)
      PROVE LockIsHolders' /\ OwnersHold' /\ TheftNeedsCrash'
  BY <1>1 DEF ReadLock, Stale
<1>2. ASSUME NEW p \in alive, RemoveStaleLock(p)
      PROVE LockIsHolders' /\ OwnersHold' /\ TheftNeedsCrash'
  BY <1>2 DEF RemoveStaleLock, UnlinkLock, NoLock
<1>3. ASSUME NEW p \in alive, CreateLock(p)
      PROVE LockIsHolders' /\ OwnersHold' /\ TheftNeedsCrash'
  BY <1>3 DEF CreateLock, NoLock
<1>4. ASSUME NEW p \in alive, Refused(p)
      PROVE LockIsHolders' /\ OwnersHold' /\ TheftNeedsCrash'
  BY <1>4 DEF Refused
<1>4a. ASSUME NEW p \in alive, CannotCreate(p) \/ ReadOwner(p)
       PROVE LockIsHolders' /\ OwnersHold' /\ TheftNeedsCrash'
  BY <1>4a DEF CannotCreate, ReadOwner
<1>4b. ASSUME NEW p \in alive, SayFailed(p)
       PROVE LockIsHolders' /\ OwnersHold' /\ TheftNeedsCrash'
  BY <1>4b DEF SayFailed, WriteOrFail, WriteState
<1>5. ASSUME NEW p \in alive, WriteLock(p)
      PROVE LockIsHolders' /\ OwnersHold' /\ TheftNeedsCrash'
  BY <1>5 DEF WriteLock
<1>6. ASSUME NEW p \in alive, WriteLockFails(p)
      PROVE LockIsHolders' /\ OwnersHold' /\ TheftNeedsCrash'
  BY <1>6 DEF WriteLockFails, WriteOrFail, WriteState
<1>7. ASSUME NEW p \in alive, ReachNextState(p)
      PROVE LockIsHolders' /\ OwnersHold' /\ TheftNeedsCrash'
  BY <1>7 DEF ReachNextState, WriteState
<1>9. ASSUME NEW p \in alive, RuntimeEnds(p)
      PROVE LockIsHolders' /\ OwnersHold' /\ TheftNeedsCrash'
  BY <1>9 DEF RuntimeEnds, WriteOrFail, EndsOf, WriteState
<1>10. ASSUME NEW p \in alive, StoppingNotWritten(p)
      PROVE LockIsHolders' /\ OwnersHold' /\ TheftNeedsCrash'
  BY <1>10 DEF StoppingNotWritten, WriteOrFail, WriteState
<1>11. ASSUME NEW p \in alive, ReadOwnLock(p)
      PROVE LockIsHolders' /\ OwnersHold' /\ TheftNeedsCrash'
  BY <1>11 DEF ReadOwnLock
<1>12. ASSUME NEW p \in alive, UnlinkOwnLock(p)
      PROVE LockIsHolders' /\ OwnersHold' /\ TheftNeedsCrash'
  BY <1>12 DEF UnlinkOwnLock, UnlinkLock, NoLock
<1>13. ASSUME NEW p \in alive, SayStopped(p)
      PROVE LockIsHolders' /\ OwnersHold' /\ TheftNeedsCrash'
  BY <1>13 DEF SayStopped, WriteOrFail, WriteState
<1>14. ASSUME NEW p \in alive, RuntimeKilled(p)
      PROVE LockIsHolders' /\ OwnersHold' /\ TheftNeedsCrash'
  BY <1>14 DEF RuntimeKilled
<1>15. CASE UNCHANGED RuntimeVars
  BY <1>15 DEF RuntimeVars
<1> QED
  BY <1>1, <1>2, <1>3, <1>4, <1>4a, <1>4b, <1>5, <1>6, <1>7, <1>9, <1>10, <1>11, <1>12,
     <1>13, <1>14, <1>15 DEF RuntimeNext

THEOREM RuntimeInvHolds == RuntimeSpec => []RuntimeInv
<1>1. RuntimeInit => RuntimeInv
  BY RuntimeTypeInit DEF RuntimeInit, RuntimeInv, NoLock, LockIsHolders, OwnersHold,
     TheftNeedsCrash, Owners, Holds
<1> QED
  BY <1>1, RuntimeInvStep, PTL DEF RuntimeSpec

(* _acquire_ownership: any number of starters, whatever their order, have  *)
(* at most one owner among them until a process is killed and a lock is    *)
(* then taken from a live owner.                                           *)
THEOREM OwnershipExcludes == RuntimeSpec => []OneOwnerWithoutCrash
<1>1. RuntimeInv => OneOwnerWithoutCrash
  <2> SUFFICES ASSUME RuntimeInv, NEW p \in Owners, NEW q \in Owners, p # q
               PROVE stolen /\ crashes > 0
    BY DEF OneOwnerWithoutCrash
  <2>1. p \in Runtimes /\ q \in Runtimes /\ Holds(p) /\ Holds(q)
    BY DEF RuntimeInv, RuntimeTypeOK, OwnersHold, Owners, Holds
  <2>2. stolen
    BY <2>1 DEF RuntimeInv, RuntimeTypeOK, LockIsHolders
  <2> QED
    BY <2>2 DEF RuntimeInv, TheftNeedsCrash
<1> QED
  BY <1>1, RuntimeInvHolds, PTL

(* _transition: while no lock is stolen the state file of an owner is only *)
(* ever overwritten with the STOPPED of a process that has just left, or   *)
(* the FAILED of one that never owned the runtime and whose start raised.  *)
THEOREM StateFileIsOwners == RuntimeSpec => OnlyLateWordsOverwrite
<1> DEFINE Guarded == \A p \in Owners, q \in Runtimes :
      p # q /\ persisted.owner = p /\ persisted'.owner = q
         => \/ stolen
            \/ pc[q] = "finish" /\ persisted'.state = "STOPPED"
            \/ pc[q] = "complain" /\ persisted'.state = "FAILED"
<1>1. RuntimeInv /\ [RuntimeNext]_RuntimeVars => [Guarded]_RuntimeVars
  <2> SUFFICES ASSUME RuntimeInv, RuntimeNext, NEW p \in Owners, NEW q \in Runtimes,
                      p # q, persisted.owner = p, persisted'.owner = q, ~stolen
               PROVE \/ pc[q] = "finish" /\ persisted'.state = "STOPPED"
                     \/ pc[q] = "complain" /\ persisted'.state = "FAILED"
    OBVIOUS
  <2>1. p \in Runtimes /\ Holds(p) /\ lock.by = p
    BY DEF RuntimeInv, RuntimeTypeOK, OwnersHold, LockIsHolders, Owners, Holds
  <2>2. PICK w \in alive :
          \/ WriteLockFails(w) \/ ReachNextState(w) \/ RuntimeEnds(w)
          \/ StoppingNotWritten(w) \/ SayStopped(w) \/ SayFailed(w)
    BY DEF RuntimeNext, ReadLock, RemoveStaleLock, CreateLock, CannotCreate, Refused,
           ReadOwner, WriteLock, ReadOwnLock, UnlinkOwnLock, RuntimeKilled
  <2>3. w = q
    BY <2>1, <2>2 DEF RuntimeInv, RuntimeTypeOK, WriteLockFails, ReachNextState,
       RuntimeEnds, StoppingNotWritten, SayStopped, SayFailed, WriteOrFail, WriteState
  <2>4. ~Holds(q)
    BY <2>1 DEF RuntimeInv, LockIsHolders
  <2>5. SayStopped(q) \/ SayFailed(q)
    BY <2>2, <2>3, <2>4 DEF Holds, WriteLockFails, ReachNextState, RuntimeEnds,
       StoppingNotWritten
  <2> QED
    BY <2>1, <2>5 DEF SayStopped, SayFailed, WriteOrFail, WriteState
<1> QED
  BY <1>1, RuntimeInvHolds, PTL DEF RuntimeSpec, OnlyLateWordsOverwrite

(* The lock file is a process's own from its creation to the release, its  *)
(* content there as soon as the process runs: _release_ownership, which    *)
(* unlinks by content, cannot miss it.                                     *)
LockWhileRunning ==
    \A p \in Runtimes :
       lock.by = p =>
          /\ pc[p] \in {"write_lock", "run", "release", "unlink_own", "abandoned"}
          /\ pc[p] \in {"run", "release", "unlink_own"} => lock.written

LEMMA LockWhileRunningStep ==
    ASSUME RuntimeTypeOK, LockWhileRunning, [RuntimeNext]_RuntimeVars
    PROVE  LockWhileRunning'
<1>a. NoRuntime \notin Runtimes
  BY RuntimeAssumption DEF RuntimeAssumption
<1> USE <1>a DEF LockWhileRunning, OwnLock, RuntimeTypeOK
<1>1. ASSUME NEW p \in alive, ReadLock(p) \/ CannotCreate(p) \/ Refused(p) \/ ReadOwner(p) \/ SayFailed(p)
      PROVE LockWhileRunning'
  BY <1>1 DEF ReadLock, CannotCreate, Refused, ReadOwner, SayFailed
<1>2. ASSUME NEW p \in alive, RemoveStaleLock(p) \/ UnlinkOwnLock(p) PROVE LockWhileRunning'
  BY <1>2 DEF RemoveStaleLock, UnlinkOwnLock, UnlinkLock, NoLock
<1>3. ASSUME NEW p \in alive, CreateLock(p) PROVE LockWhileRunning'
  BY <1>3 DEF CreateLock
<1>4. ASSUME NEW p \in alive, WriteLock(p) \/ WriteLockFails(p) PROVE LockWhileRunning'
  BY <1>4 DEF WriteLock, WriteLockFails
<1>5. ASSUME NEW p \in alive, RuntimeEnds(p) \/ StoppingNotWritten(p) PROVE LockWhileRunning'
  BY <1>5 DEF RuntimeEnds, StoppingNotWritten
<1>6. ASSUME NEW p \in alive, ReadOwnLock(p) PROVE LockWhileRunning'
  BY <1>6 DEF ReadOwnLock
<1>7. ASSUME NEW p \in alive, SayStopped(p) PROVE LockWhileRunning'
  BY <1>7 DEF SayStopped
<1>8. CASE UNCHANGED <<lock, pc>>
  BY <1>8
<1> QED
  BY <1>1, <1>2, <1>3, <1>4, <1>5, <1>6, <1>7, <1>8
     DEF RuntimeNext, ReachNextState, RuntimeKilled, RuntimeVars

(* _release_ownership: a process that has left run alive, and could write  *)
(* its lock and its STOPPING, leaves no lock file, not even an empty one,  *)
(* whoever else came, crashed or stole between its look and its unlink.    *)
THEOREM LockIsReleased == RuntimeSpec => []NoLockLeftBehind
<1>1. RuntimeInit => LockWhileRunning
  BY RuntimeAssumption DEF RuntimeInit, LockWhileRunning, NoLock, RuntimeAssumption
<1>2. RuntimeTypeOK /\ LockWhileRunning => NoLockLeftBehind
  BY DEF LockWhileRunning, NoLockLeftBehind, RuntimeTypeOK
<1> QED
  BY <1>1, <1>2, LockWhileRunningStep, RuntimeTypeCorrect, PTL DEF RuntimeSpec

-----------------------------------------------------------------------------
(* What holds of coordinator.py and execution_pipeline.py for any signals, *)
(* any age limit and any number of restarts.                               *)

(* A signal that was passed on is remembered, no earlier than it was made, *)
(* until it is too old to be passed on again.                              *)
PassedIsRemembered ==
    \A s \in Signals :
       submitted[s] > 0 =>
          \/ \E e \in seen : e.id = s.id /\ e.at >= s.stamp
          \/ clock - s.stamp > MaxSignalAge

(* Orders given and the decision awaited are paid for by submissions, one  *)
(* for each coordinator.                                                   *)
OrdersArePaid ==
    \A s \in Signals :
       /\ orders[s] <= restarts + submitted[s]
       /\ phase = "risk" /\ s \in handling => orders[s] < restarts + submitted[s]

(* A late order is one whose check came before the closing.                *)
LateIsAwaited ==
    /\ late \in {0, 1}
    /\ phase = "risk" \/ GateOpen => late = 0

PipelineInv ==
    /\ PipelineTypeOK
    /\ OneDecisionPerSignal
    /\ PassedIsRemembered
    /\ OrdersArePaid
    /\ LateIsAwaited

-----------------------------------------------------------------------------
LEMMA StampsAreNatural == ASSUME NEW s \in Signals PROVE s.stamp \in 0..MaxClock /\ s.id \in SignalIds
  BY DEF Signals

LEMMA PipelineTypeInit == PipelineInit => PipelineTypeOK
<1> SUFFICES ASSUME PipelineInit PROVE PipelineTypeOK
  OBVIOUS
<1>1. clock \in 0..MaxClock
  BY PipelineAssumption DEF PipelineInit, PipelineAssumption
<1>2. submitted \in [Signals -> Nat] /\ orders \in [Signals -> Nat]
  BY DEF PipelineInit
<1> QED
  BY <1>1, <1>2 DEF PipelineInit, PipelineTypeOK, Phases

LEMMA PipelineTypeStep == PipelineTypeOK /\ [PipelineNext]_PipelineVars => PipelineTypeOK'
<1> SUFFICES ASSUME PipelineTypeOK, [PipelineNext]_PipelineVars PROVE PipelineTypeOK'
  OBVIOUS
<1> USE DEF PipelineTypeOK, Phases
<1>1. ASSUME NEW s \in Signals, TurnAway(s) PROVE PipelineTypeOK'
  BY <1>1 DEF TurnAway, StillSeen
<1>2. ASSUME NEW s \in Signals, QuantityRaises(s) PROVE PipelineTypeOK'
  BY <1>2, StampsAreNatural DEF QuantityRaises, Remember, StillSeen
<1>3. ASSUME NEW s \in Signals, SubmitSignal(s) PROVE PipelineTypeOK'
  <2>1. seen' \subseteq [id : SignalIds, at : 0..MaxClock]
    BY <1>3, StampsAreNatural DEF SubmitSignal, Remember, StillSeen
  <2>2. handling' \subseteq Signals /\ phase' \in Phases
    BY <1>3 DEF SubmitSignal
  <2>3. submitted' \in [Signals -> Nat]
    BY <1>3 DEF SubmitSignal
  <2> QED
    BY <1>3, <2>1, <2>2, <2>3 DEF SubmitSignal
<1>4. ASSUME NEW s \in Signals, RiskApproves(s) PROVE PipelineTypeOK'
  BY <1>4 DEF RiskApproves
<1>5. ASSUME RiskRejects PROVE PipelineTypeOK'
  BY <1>5 DEF RiskRejects
<1>6. ASSUME AdapterReturns PROVE PipelineTypeOK'
  BY <1>6 DEF AdapterReturns
<1>7. ASSUME Raises PROVE PipelineTypeOK'
  BY <1>7 DEF Raises
<1>8. ASSUME StartAgain PROVE PipelineTypeOK'
  BY <1>8 DEF StartAgain
<1>9. ASSUME ClockTicks PROVE PipelineTypeOK'
  BY <1>9, PipelineAssumption DEF ClockTicks, PipelineAssumption
<1>10. ASSUME GateChanges PROVE PipelineTypeOK'
  BY <1>10 DEF GateChanges
<1>11. CASE UNCHANGED PipelineVars
  BY <1>11 DEF PipelineVars
<1> QED
  BY <1>1, <1>2, <1>3, <1>4, <1>5, <1>6, <1>7, <1>8, <1>9, <1>10, <1>11 DEF PipelineNext

(* The coordinator and its gate stay within their types.                   *)
THEOREM PipelineTypeCorrect == PipelineSpec => []PipelineTypeOK
  BY PipelineTypeInit, PipelineTypeStep, PTL DEF PipelineSpec

-----------------------------------------------------------------------------
(* _seen only forgets a signal that has become too old: what is dropped is *)
(* older than the age limit, and so is a signal made before it.            *)
LEMMA ForgottenIsOld ==
  ASSUME PipelineTypeOK, NEW s \in Signals, submitted[s] > 0, PassedIsRemembered
  PROVE  \/ \E e \in StillSeen : e.id = s.id /\ e.at >= s.stamp
         \/ clock - s.stamp > MaxSignalAge
<1>1. CASE clock - s.stamp > MaxSignalAge
  BY <1>1
<1>2. CASE \E e \in seen : e.id = s.id /\ e.at >= s.stamp
  <2>1. PICK e \in seen : e.id = s.id /\ e.at >= s.stamp
    BY <1>2
  <2>2. e.at \in Int /\ clock \in Int /\ s.stamp \in Int /\ MaxSignalAge \in Int
    BY <2>1, PipelineAssumption DEF PipelineTypeOK, Signals, PipelineAssumption
  <2>3. CASE e.at >= clock - MaxSignalAge
    BY <2>1, <2>3 DEF StillSeen
  <2>4. CASE e.at < clock - MaxSignalAge
    BY <2>1, <2>2, <2>4
  <2> QED
    BY <2>2, <2>3, <2>4
<1> QED
  BY <1>1, <1>2 DEF PassedIsRemembered

(* A signal the coordinator remembers now was never passed on before.      *)
LEMMA RememberedIsNew ==
  ASSUME PipelineTypeOK, PassedIsRemembered, NEW s \in Signals, Remember(s)
  PROVE  submitted[s] = 0
<1>1. submitted[s] \in Nat
  BY DEF PipelineTypeOK
<1>2. ~(submitted[s] > 0)
  BY ForgottenIsOld DEF Remember, Duplicate, TooOldOrEarly
<1> QED
  BY <1>1, <1>2

(* What Remember leaves in _seen still covers every signal passed on.      *)
LEMMA RememberKeeps ==
  ASSUME PipelineTypeOK, PassedIsRemembered, NEW s \in Signals, NEW t \in Signals,
         Remember(s), submitted[t] > 0 \/ t = s
  PROVE  \/ \E e \in seen' : e.id = t.id /\ e.at >= t.stamp
         \/ clock - t.stamp > MaxSignalAge
<1>1. CASE t = s
  <2>1. [id |-> s.id, at |-> clock] \in seen'
    BY DEF Remember
  <2>2. clock >= s.stamp
    BY DEF Remember, TooOldOrEarly, PipelineTypeOK, Signals
  <2> QED
    BY <1>1, <2>1, <2>2
<1>2. CASE submitted[t] > 0
  <2>1. StillSeen \subseteq seen'
    BY DEF Remember
  <2> QED
    BY <1>2, <2>1, ForgottenIsOld
<1> QED
  BY <1>1, <1>2

(* The strengthening is inductive.                                         *)
LEMMA PipelineInvStep == PipelineInv /\ [PipelineNext]_PipelineVars => PipelineInv'
<1> SUFFICES ASSUME PipelineInv, [PipelineNext]_PipelineVars PROVE PipelineInv'
  OBVIOUS
<1> USE DEF PipelineInv
<1>a. PipelineTypeOK'
  BY PipelineTypeStep
<1>b. /\ PassedIsRemembered /\ OneDecisionPerSignal
      /\ clock \in Nat /\ MaxSignalAge \in Nat /\ restarts \in Nat /\ late \in Nat
      /\ \A s \in Signals : submitted[s] \in Nat /\ orders[s] \in Nat /\ s.stamp \in Nat
  <2>1. MaxSignalAge \in Nat
    BY PipelineAssumption DEF PipelineAssumption
  <2> QED
    BY <2>1, StampsAreNatural DEF PipelineTypeOK
<1> DEFINE Rest == /\ OneDecisionPerSignal' /\ PassedIsRemembered'
                   /\ OrdersArePaid' /\ LateIsAwaited'
<1> SUFFICES Rest
  BY <1>a
<1> USE DEF OneDecisionPerSignal, PassedIsRemembered, OrdersArePaid, LateIsAwaited, GateOpen
<1>1. ASSUME NEW s \in Signals, TurnAway(s) PROVE Rest
  <2>1. PassedIsRemembered'
    <3> SUFFICES ASSUME NEW t \in Signals, submitted[t] > 0
                 PROVE \/ \E e \in StillSeen : e.id = t.id /\ e.at >= t.stamp
                       \/ clock - t.stamp > MaxSignalAge
      BY <1>1 DEF TurnAway
    <3> QED
      BY ForgottenIsOld, <1>b
  <2> QED
    BY <1>1, <2>1 DEF TurnAway
<1>2. ASSUME NEW s \in Signals, QuantityRaises(s) PROVE Rest
  <2>1. PassedIsRemembered'
    <3> SUFFICES ASSUME NEW t \in Signals, submitted[t] > 0
                 PROVE \/ \E e \in seen' : e.id = t.id /\ e.at >= t.stamp
                       \/ clock - t.stamp > MaxSignalAge
      BY <1>2 DEF QuantityRaises
    <3> QED
      BY RememberKeeps, <1>2, <1>b DEF QuantityRaises
  <2> QED
    BY <1>2, <2>1 DEF QuantityRaises
<1>3. ASSUME NEW s \in Signals, SubmitSignal(s) PROVE Rest
  <2>1. submitted[s] = 0
    BY <1>3, <1>b, RememberedIsNew DEF SubmitSignal
  <2>2. \A t \in Signals : submitted'[t] = IF t = s THEN 1 ELSE submitted[t]
    BY <1>3, <2>1 DEF SubmitSignal, PipelineTypeOK
  <2>3. OneDecisionPerSignal'
    BY <2>2
  <2>4. PassedIsRemembered'
    <3> SUFFICES ASSUME NEW t \in Signals, submitted'[t] > 0
                 PROVE \/ \E e \in seen' : e.id = t.id /\ e.at >= t.stamp
                       \/ clock - t.stamp > MaxSignalAge
      BY <1>3 DEF SubmitSignal
    <3>1. submitted[t] > 0 \/ t = s
      BY <2>2
    <3> QED
      BY <3>1, <1>3, <1>b, RememberKeeps DEF SubmitSignal
  <2>5. OrdersArePaid'
    BY <1>3, <1>b, <2>1, <2>2 DEF SubmitSignal, Remember
  <2>6. LateIsAwaited'
    BY <1>3 DEF SubmitSignal, PassesChecks
  <2> QED
    BY <2>3, <2>4, <2>5, <2>6
<1>4. ASSUME NEW s \in Signals, RiskApproves(s) PROVE Rest
  <2>1. \A t \in Signals : orders'[t] = IF t = s THEN orders[t] + 1 ELSE orders[t]
    BY <1>4 DEF RiskApproves, PipelineTypeOK
  <2>2. OrdersArePaid'
    BY <1>4, <1>b, <2>1 DEF RiskApproves
  <2>3. LateIsAwaited'
    BY <1>4 DEF RiskApproves
  <2> QED
    BY <1>4, <2>2, <2>3 DEF RiskApproves
<1>5. ASSUME RiskRejects PROVE Rest
  BY <1>5, <1>b DEF RiskRejects
<1>6. ASSUME AdapterReturns PROVE Rest
  BY <1>6, <1>b DEF AdapterReturns
<1>7. ASSUME Raises PROVE Rest
  BY <1>7, <1>b DEF Raises
<1>10. ASSUME GateChanges PROVE Rest
  BY <1>10, <1>b DEF GateChanges
<1>8. ASSUME StartAgain PROVE Rest
  <2>1. \A t \in Signals : submitted'[t] = 0
    BY <1>8 DEF StartAgain
  <2>2. OrdersArePaid'
    BY <1>8, <1>b, <2>1 DEF StartAgain
  <2> QED
    BY <1>8, <1>b, <2>1, <2>2 DEF StartAgain
<1>9. ASSUME ClockTicks PROVE Rest
  <2>1. PassedIsRemembered'
    BY <1>9, <1>b DEF ClockTicks
  <2> QED
    BY <1>9, <2>1 DEF ClockTicks
<1>11. CASE UNCHANGED PipelineVars
  BY <1>11 DEF PipelineVars
<1> QED
  BY <1>1, <1>2, <1>3, <1>4, <1>5, <1>6, <1>7, <1>8, <1>9, <1>10, <1>11 DEF PipelineNext

THEOREM PipelineInvHolds == PipelineSpec => []PipelineInv
<1>1. PipelineInit => PipelineInv
  BY PipelineTypeInit, PipelineAssumption
     DEF PipelineInit, PipelineInv, OneDecisionPerSignal, PassedIsRemembered,
         OrdersArePaid, LateIsAwaited, GateOpen, PipelineAssumption
<1> QED
  BY <1>1, PipelineInvStep, PTL DEF PipelineSpec

(* submit_signal: one coordinator passes each signal on at most once, for  *)
(* any age limit and however often the strategy repeats it.                *)
THEOREM SignalDecidedOnce == PipelineSpec => []OneDecisionPerSignal
  BY PipelineInvHolds, PTL DEF PipelineInv

(* submit: an order after the stop or the revocation is the one whose      *)
(* decision was already awaited.                                           *)
THEOREM ClosingHolds == PipelineSpec => []OneOrderAfterClosing
<1>1. PipelineInv => OneOrderAfterClosing
  BY DEF PipelineInv, LateIsAwaited, OneOrderAfterClosing
<1> QED
  BY <1>1, PipelineInvHolds, PTL

(* Each coordinator gives a signal to the adapter at most once.            *)
THEOREM OrderedOncePerLife == PipelineSpec => []OneOrderPerLife
<1>1. PipelineInv => OneOrderPerLife
  BY DEF PipelineInv, PipelineTypeOK, OneDecisionPerSignal, OrdersArePaid, OneOrderPerLife
<1> QED
  BY <1>1, PipelineInvHolds, PTL

-----------------------------------------------------------------------------
(* What holds of bot.py for any signals, any symbols and any number of     *)
(* ends of the process.                                                    *)

(* The bot remembers what it journaled, and journals before it orders.     *)
Remembered ==
    /\ at # "down" => seen_signals = signal_log
    /\ \A s \in LiveSignals : sent[s] > 0 => s \in signal_log
    /\ at \in {"spread", "guard", "place", "answer"} => current \in signal_log
    /\ at \in {"spread", "guard", "place"} => sent[current] = 0

(* An order on its way is one the bot waits for or has missed, and between *)
(* the guard and the order no other of its symbol comes up.                *)
Accounted ==
    /\ at = "guard" => connected
    /\ \A o \in in_flight : OrderSymbol(o) \in unanswered \/ (at = "answer" /\ o = ThisOrder)
    /\ at = "place" => \A o \in held \cup in_flight :
                          OrderSymbol(o) = SymbolOf[current] => OrderSymbol(o) \in unanswered

(* Nothing is ordered before last_session is known, and what a closing has *)
(* not had before it is left.                                              *)
ClosedOrLeft ==
    /\ at = "turn" => now_session = last_session
    /\ at \in {"closing", "scan", "spread", "guard", "place", "answer"} => last_session # Off
    /\ at = "closing" => held \subseteq to_close \cup left /\ in_flight \subseteq left
    /\ last_session = Off => held \cup in_flight \subseteq left

LiveInv ==
    /\ LiveBotTypeOK
    /\ Remembered /\ OneOrderPerSignal
    /\ Accounted /\ OnePositionPerSymbol
    /\ ClosedOrLeft

-----------------------------------------------------------------------------
LEMMA LiveTypeInit == LiveBotInit => LiveBotTypeOK
<1> SUFFICES ASSUME LiveBotInit PROVE LiveBotTypeOK
  OBVIOUS
<1>1. sent \in [LiveSignals -> Nat]
  BY DEF LiveBotInit
<1>2. {session, now_session, last_session} \subseteq TradeSessions \cup {Off}
  BY DEF LiveBotInit
<1> QED
  BY <1>1, <1>2 DEF LiveBotInit, LiveBotTypeOK, Places

LEMMA LiveTypeStep ==
    LiveBotTypeOK /\ Remembered /\ [LiveBotNext]_LiveBotVars => LiveBotTypeOK'
<1> SUFFICES ASSUME LiveBotTypeOK, Remembered, [LiveBotNext]_LiveBotVars PROVE LiveBotTypeOK'
  OBVIOUS
<1> USE DEF LiveBotTypeOK, Places, Sessions, Scanner, Journal, Broker, Missed
<1>1. ASSUME TurnBegins PROVE LiveBotTypeOK'
  BY <1>1 DEF TurnBegins
<1>2. ASSUME Heartbeat PROVE LiveBotTypeOK'
  BY <1>2 DEF Heartbeat, RequestFails
<1>3. ASSUME NoSessionOver PROVE LiveBotTypeOK'
  BY <1>3 DEF NoSessionOver
<1>4. ASSUME ListSessionPositions PROVE LiveBotTypeOK'
  BY <1>4 DEF ListSessionPositions, Listed
<1>5. ASSUME ClosingDone PROVE LiveBotTypeOK'
  BY <1>5 DEF ClosingDone
<1>6. ASSUME Sleep PROVE LiveBotTypeOK'
  BY <1>6 DEF Sleep
<1>7. ASSUME ScanBegins PROVE LiveBotTypeOK'
  BY <1>7 DEF ScanBegins
<1>8. ASSUME ScanEnds PROVE LiveBotTypeOK'
  BY <1>8 DEF ScanEnds, RequestFails
<1>9. ASSUME NEW s \in LiveSignals, NewSignal(s) PROVE LiveBotTypeOK'
  BY <1>9 DEF NewSignal
<1>10. ASSUME Rejected PROVE LiveBotTypeOK'
  BY <1>10 DEF Rejected, RequestFails
<1>11. ASSUME SpreadIsFine PROVE LiveBotTypeOK'
  BY <1>11 DEF SpreadIsFine
<1>12. ASSUME NoPositionYet PROVE LiveBotTypeOK'
  BY <1>12 DEF NoPositionYet
<1>13. ASSUME PlaceOrder PROVE LiveBotTypeOK'
  BY <1>13 DEF PlaceOrder, LiveOrders, Remembered
<1>14. ASSUME Answered PROVE LiveBotTypeOK'
  BY <1>14 DEF Answered
<1>15. ASSUME AnswerLost PROVE LiveBotTypeOK'
  BY <1>15 DEF AnswerLost, RequestFails, Remembered
<1>16. ASSUME NEW o \in held, CloseSessionPosition(o) PROVE LiveBotTypeOK'
  BY <1>16 DEF CloseSessionPosition
<1>17. ASSUME NEW o \in held, StopOrTargetHit(o) PROVE LiveBotTypeOK'
  BY <1>17 DEF StopOrTargetHit
<1>18. ASSUME NEW o \in in_flight, BrokerSettles(o) PROVE LiveBotTypeOK'
  BY <1>18 DEF BrokerSettles
<1>19. ASSUME BotStops PROVE LiveBotTypeOK'
  <2>1. unanswered' \subseteq {SymbolOf[s] : s \in LiveSignals}
    <3>1. CASE at = "answer"
      BY <1>19, <3>1 DEF BotStops, Remembered
    <3>2. CASE at # "answer"
      BY <1>19, <3>2 DEF BotStops
    <3> QED
      BY <3>1, <3>2
  <2>2. left' \subseteq LiveOrders /\ bot_stops' \in Nat
    BY <1>19 DEF BotStops
  <2> QED
    BY <1>19, <2>1, <2>2 DEF BotStops
<1>20. ASSUME BotStarts PROVE LiveBotTypeOK'
  BY <1>20 DEF BotStarts, LoadSeenSignals
<1>21. ASSUME SessionChanges PROVE LiveBotTypeOK'
  BY <1>21 DEF SessionChanges
<1>22. CASE UNCHANGED LiveBotVars
  BY <1>22 DEF LiveBotVars
<1> QED
  BY <1>1, <1>2, <1>3, <1>4, <1>5, <1>6, <1>7, <1>8, <1>9, <1>10,
     <1>11, <1>12, <1>13, <1>14, <1>15, <1>16, <1>17, <1>18, <1>19,
     <1>20, <1>21, <1>22 DEF LiveBotNext

LEMMA RememberedStep ==
    LiveBotTypeOK /\ Remembered /\ OneOrderPerSignal /\ [LiveBotNext]_LiveBotVars
      => Remembered' /\ OneOrderPerSignal'
<1> DEFINE Kept == Remembered' /\ OneOrderPerSignal'
<1> SUFFICES ASSUME LiveBotTypeOK, Remembered, OneOrderPerSignal, [LiveBotNext]_LiveBotVars
             PROVE Kept
  OBVIOUS
<1> USE DEF Remembered, OneOrderPerSignal, Scanner, Journal
<1>1. ASSUME TurnBegins PROVE Kept
  BY <1>1 DEF TurnBegins
<1>2. ASSUME Heartbeat PROVE Kept
  BY <1>2 DEF Heartbeat
<1>3. ASSUME NoSessionOver PROVE Kept
  BY <1>3 DEF NoSessionOver
<1>4. ASSUME ListSessionPositions PROVE Kept
  BY <1>4 DEF ListSessionPositions
<1>5. ASSUME ClosingDone PROVE Kept
  BY <1>5 DEF ClosingDone
<1>6. ASSUME Sleep PROVE Kept
  BY <1>6 DEF Sleep
<1>7. ASSUME ScanBegins PROVE Kept
  BY <1>7 DEF ScanBegins
<1>8. ASSUME ScanEnds PROVE Kept
  BY <1>8 DEF ScanEnds
<1>9. ASSUME NEW s \in LiveSignals, NewSignal(s) PROVE Kept
  BY <1>9 DEF NewSignal, LiveBotTypeOK
<1>10. ASSUME Rejected PROVE Kept
  BY <1>10 DEF Rejected
<1>11. ASSUME SpreadIsFine PROVE Kept
  BY <1>11 DEF SpreadIsFine
<1>12. ASSUME NoPositionYet PROVE Kept
  BY <1>12 DEF NoPositionYet
<1>13. ASSUME PlaceOrder PROVE Kept
  BY <1>13 DEF PlaceOrder, LiveBotTypeOK
<1>14. ASSUME Answered PROVE Kept
  BY <1>14 DEF Answered
<1>15. ASSUME AnswerLost PROVE Kept
  BY <1>15 DEF AnswerLost
<1>16. ASSUME NEW o \in held, CloseSessionPosition(o) PROVE Kept
  BY <1>16 DEF CloseSessionPosition
<1>17. ASSUME NEW o \in held, StopOrTargetHit(o) PROVE Kept
  BY <1>17 DEF StopOrTargetHit
<1>18. ASSUME NEW o \in in_flight, BrokerSettles(o) PROVE Kept
  BY <1>18 DEF BrokerSettles
<1>19. ASSUME BotStops PROVE Kept
  BY <1>19 DEF BotStops
<1>20. ASSUME BotStarts PROVE Kept
  BY <1>20 DEF BotStarts, LoadSeenSignals
<1>21. ASSUME SessionChanges PROVE Kept
  BY <1>21 DEF SessionChanges
<1>22. CASE UNCHANGED LiveBotVars
  BY <1>22 DEF LiveBotVars
<1> QED
  BY <1>1, <1>2, <1>3, <1>4, <1>5, <1>6, <1>7, <1>8, <1>9, <1>10,
     <1>11, <1>12, <1>13, <1>14, <1>15, <1>16, <1>17, <1>18, <1>19,
     <1>20, <1>21, <1>22 DEF LiveBotNext

LEMMA AccountedStep ==
    LiveBotTypeOK /\ Remembered /\ Accounted /\ OnePositionPerSymbol /\ [LiveBotNext]_LiveBotVars
      => Accounted' /\ OnePositionPerSymbol'
<1> DEFINE Kept == Accounted' /\ OnePositionPerSymbol'
<1> SUFFICES ASSUME LiveBotTypeOK, Remembered, Accounted, OnePositionPerSymbol,
                    [LiveBotNext]_LiveBotVars
             PROVE Kept
  OBVIOUS
<1> USE DEF Accounted, OnePositionPerSymbol, OrderSymbol, ThisOrder, Broker, Missed, Scanner, Journal
<1>1. ASSUME TurnBegins PROVE Kept
  BY <1>1 DEF TurnBegins
<1>2. ASSUME Heartbeat PROVE Kept
  BY <1>2 DEF Heartbeat
<1>3. ASSUME NoSessionOver PROVE Kept
  BY <1>3 DEF NoSessionOver
<1>4. ASSUME ListSessionPositions PROVE Kept
  BY <1>4 DEF ListSessionPositions
<1>5. ASSUME ClosingDone PROVE Kept
  BY <1>5 DEF ClosingDone
<1>6. ASSUME Sleep PROVE Kept
  BY <1>6 DEF Sleep
<1>7. ASSUME ScanBegins PROVE Kept
  BY <1>7 DEF ScanBegins
<1>8. ASSUME ScanEnds PROVE Kept
  BY <1>8 DEF ScanEnds
<1>9. ASSUME NEW s \in LiveSignals, NewSignal(s) PROVE Kept
  BY <1>9 DEF NewSignal
<1>10. ASSUME Rejected PROVE Kept
  BY <1>10 DEF Rejected
<1>11. ASSUME SpreadIsFine PROVE Kept
  BY <1>11 DEF SpreadIsFine
<1>12. ASSUME NoPositionYet PROVE Kept
  BY <1>12 DEF NoPositionYet, MaxOpenTrades, Listed
<1>13. ASSUME PlaceOrder PROVE Kept
  <2> DEFINE new == <<current, sent[current] + 1>>
  <2>1. current \in LiveSignals /\ sent[current] \in Nat
    BY <1>13 DEF PlaceOrder, Remembered, LiveBotTypeOK
  <2>2. in_flight' = in_flight \cup {new} /\ held' = held /\ at' = "answer"
    BY <1>13 DEF PlaceOrder
  <2>3. ThisOrder' = new /\ UNCHANGED unanswered
    BY <1>13, <2>1 DEF PlaceOrder, LiveBotTypeOK
  <2>4. new[1] = current
    OBVIOUS
  <2>5. \A o \in in_flight : SymbolOf[o[1]] \in unanswered
    BY <1>13 DEF PlaceOrder
  <2>6. \A o \in held : SymbolOf[o[1]] = SymbolOf[current] => SymbolOf[o[1]] \in unanswered
    BY <1>13 DEF PlaceOrder
  <2> HIDE DEF new
  <2> QED
    BY <2>2, <2>3, <2>4, <2>5, <2>6 DEF ThisOrder
<1>14. ASSUME Answered PROVE Kept
  BY <1>14 DEF Answered
<1>15. ASSUME AnswerLost PROVE Kept
  BY <1>15 DEF AnswerLost
<1>16. ASSUME NEW o \in held, CloseSessionPosition(o) PROVE Kept
  BY <1>16 DEF CloseSessionPosition
<1>17. ASSUME NEW o \in held, StopOrTargetHit(o) PROVE Kept
  BY <1>17 DEF StopOrTargetHit
<1>18. ASSUME NEW o \in in_flight, BrokerSettles(o) PROVE Kept
  BY <1>18 DEF BrokerSettles
<1>19. ASSUME BotStops PROVE Kept
  BY <1>19 DEF BotStops
<1>20. ASSUME BotStarts PROVE Kept
  BY <1>20 DEF BotStarts
<1>21. ASSUME SessionChanges PROVE Kept
  BY <1>21 DEF SessionChanges
<1>22. CASE UNCHANGED LiveBotVars
  BY <1>22 DEF LiveBotVars
<1> QED
  BY <1>1, <1>2, <1>3, <1>4, <1>5, <1>6, <1>7, <1>8, <1>9, <1>10,
     <1>11, <1>12, <1>13, <1>14, <1>15, <1>16, <1>17, <1>18, <1>19,
     <1>20, <1>21, <1>22 DEF LiveBotNext

LEMMA ClosedOrLeftStep ==
    LiveBotTypeOK /\ ClosedOrLeft /\ [LiveBotNext]_LiveBotVars => ClosedOrLeft'
<1> SUFFICES ASSUME LiveBotTypeOK, ClosedOrLeft, [LiveBotNext]_LiveBotVars PROVE ClosedOrLeft'
  OBVIOUS
<1> USE DEF ClosedOrLeft, Broker, Missed, Sessions
<1>1. ASSUME TurnBegins PROVE ClosedOrLeft'
  BY <1>1 DEF TurnBegins
<1>2. ASSUME Heartbeat PROVE ClosedOrLeft'
  BY <1>2 DEF Heartbeat
<1>3. ASSUME NoSessionOver PROVE ClosedOrLeft'
  BY <1>3 DEF NoSessionOver, SessionOver
<1>4. ASSUME ListSessionPositions PROVE ClosedOrLeft'
  BY <1>4 DEF ListSessionPositions, SessionOver, Listed
<1>5. ASSUME ClosingDone PROVE ClosedOrLeft'
  BY <1>5 DEF ClosingDone
<1>6. ASSUME Sleep PROVE ClosedOrLeft'
  BY <1>6 DEF Sleep
<1>7. ASSUME ScanBegins PROVE ClosedOrLeft'
  BY <1>7 DEF ScanBegins
<1>8. ASSUME ScanEnds PROVE ClosedOrLeft'
  BY <1>8 DEF ScanEnds
<1>9. ASSUME NEW s \in LiveSignals, NewSignal(s) PROVE ClosedOrLeft'
  BY <1>9 DEF NewSignal
<1>10. ASSUME Rejected PROVE ClosedOrLeft'
  BY <1>10 DEF Rejected
<1>11. ASSUME SpreadIsFine PROVE ClosedOrLeft'
  BY <1>11 DEF SpreadIsFine
<1>12. ASSUME NoPositionYet PROVE ClosedOrLeft'
  BY <1>12 DEF NoPositionYet
<1>13. ASSUME PlaceOrder PROVE ClosedOrLeft'
  BY <1>13 DEF PlaceOrder
<1>14. ASSUME Answered PROVE ClosedOrLeft'
  BY <1>14 DEF Answered
<1>15. ASSUME AnswerLost PROVE ClosedOrLeft'
  BY <1>15 DEF AnswerLost
<1>16. ASSUME NEW o \in held, CloseSessionPosition(o) PROVE ClosedOrLeft'
  BY <1>16 DEF CloseSessionPosition
<1>17. ASSUME NEW o \in held, StopOrTargetHit(o) PROVE ClosedOrLeft'
  BY <1>17 DEF StopOrTargetHit
<1>18. ASSUME NEW o \in in_flight, BrokerSettles(o) PROVE ClosedOrLeft'
  BY <1>18 DEF BrokerSettles
<1>19. ASSUME BotStops PROVE ClosedOrLeft'
  BY <1>19 DEF BotStops
<1>20. ASSUME BotStarts PROVE ClosedOrLeft'
  BY <1>20 DEF BotStarts
<1>21. ASSUME SessionChanges PROVE ClosedOrLeft'
  BY <1>21 DEF SessionChanges
<1>22. CASE UNCHANGED LiveBotVars
  BY <1>22 DEF LiveBotVars
<1> QED
  BY <1>1, <1>2, <1>3, <1>4, <1>5, <1>6, <1>7, <1>8, <1>9, <1>10,
     <1>11, <1>12, <1>13, <1>14, <1>15, <1>16, <1>17, <1>18, <1>19,
     <1>20, <1>21, <1>22 DEF LiveBotNext

LEMMA LiveInitInv == LiveBotInit => LiveInv
  BY LiveTypeInit DEF LiveBotInit, LiveInv, Remembered, OneOrderPerSignal, Accounted,
                      OnePositionPerSymbol, ClosedOrLeft

LEMMA LiveInvStep == LiveInv /\ [LiveBotNext]_LiveBotVars => LiveInv'
  BY LiveTypeStep, RememberedStep, AccountedStep, ClosedOrLeftStep DEF LiveInv

(* The invariant of the bot: its types, what it remembers and what it      *)
(* accounts for.                                                           *)
THEOREM LiveInvHolds == LiveBotSpec => []LiveInv
  BY LiveInitInv, LiveInvStep, PTL DEF LiveBotSpec

(* bot.py: every variable of the bot and the journal keeps its type.       *)
THEOREM LiveTypeCorrect == LiveBotSpec => []LiveBotTypeOK
  BY LiveInvHolds, PTL DEF LiveInv

(* run_bot and process_signal: however often the process ends, no signal   *)
(* is ordered twice.                                                       *)
THEOREM OrderedOnce == LiveBotSpec => []OneOrderPerSignal
  BY LiveInvHolds, PTL DEF LiveInv

(* process_signal: the guard keeps a symbol at one position, unless the    *)
(* outcome of an order of it was missed.                                   *)
THEOREM GuardHolds == LiveBotSpec => []OnePositionPerSymbol
  BY LiveInvHolds, PTL DEF LiveInv

(* _close_session_positions: after a session only positions that no        *)
(* closing had before it are open.                                         *)
THEOREM FlatAfterSession == LiveBotSpec => []SessionEndsFlat
<1>1. LiveInv => SessionEndsFlat
  BY DEF LiveInv, ClosedOrLeft, SessionEndsFlat
<1> QED
  BY <1>1, LiveInvHolds, PTL
=============================================================================
